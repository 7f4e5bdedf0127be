------------------------- MODULE MCPrefixDelegation -------------------------
EXTENDS PrefixDelegation

MCPrefixIds == {"wan", "ula"}
MCNoExclusion == {NoExclusion}
Wish(l, h, w) == [length |-> l, hint |-> IP6Hint(h, l), weight |-> w,
                  classes |-> {}]

(* A change of configuration that moves one interface and shuts it out.      *)
MCFewConfigs == {Wish(64, NoHint, 0), [Wish(63, NoHint, 0) EXCEPT !.classes = {"wan"}]}

(* Division alone: every mixture of wishes, divided once.                   *)
MCConfigs == {Wish(l, h, w) : l \in 61 .. 64, h \in {NoHint, 0, 2, 5}, w \in {0, 1}}
               \cup {Wish(64, 1, 0), Wish(0, NoHint, 0),
                     [Wish(63, NoHint, 0) EXCEPT !.classes = {"ula"}]}
MCLengths == {60, 61, 62, 63}
MCExclusions == {NoExclusion, [at |-> 0, length |-> 64], [at |-> 2, length |-> 63]}

DivisionSpec == Init /\ [][\E p \in PrefixIds : AddPrefix(p) \/ RemovePrefix(p)]_net
=============================================================================
