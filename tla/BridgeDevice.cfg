\* Two users and two members that may fail to be enslaved.
SPECIFICATION Spec
CONSTANTS
  u1 = u1
  u2 = u2
  m1 = m1
  m2 = m2
  UserOrder <- MCUserOrder
  MemberOrder <- MCMemberOrder
  MemberOutcomes = {FALSE, TRUE}
  BridgeOutcomes = {TRUE}
INVARIANTS
  CountsAgree Announced ActiveMembersArePorts
