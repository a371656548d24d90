---------------------------- MODULE MCGovernance ----------------------------
(***************************************************************************)
(* A small instance of governance: three operators, of which one may still *)
(* be added, and one permanent deal.  In a behaviour they either change    *)
(* the rules, or moderate the deal.                                        *)
(***************************************************************************)
EXTENDS Governance, TLC

CONSTANTS alice, retrieval, foundation, a, m1, h0
CONSTANTS o1, o2, o3
CONSTANTS p1, p2, d1, d2

VARIABLE part

vars == <<accountVars, dealVars, governanceVars, part>>

Layouts == a :> [Roots |-> {0}, Pools |-> <<>>, Data |-> 1, Total |-> 1]
Hashes == a :> (<<0, 0>> :> h0)
Forever == [Duration |-> 0, Renewable |-> FALSE, AutoRenew |-> FALSE, DeletionPolicy |-> "grace"]
PoliciesOf == a :> {Forever}

Holders == {alice, retrieval, foundation}
OwnerOnly == [x \in Account |-> IF x = alice THEN 5 ELSE 0]

Rules == [Moderation |-> <<1, 3>>, Change |-> <<2, 3>>, Weights |-> [w \in Weight |-> 1], BaseFee |-> 1]

Request(action) ==
  [Action |-> action, Target |-> None, Permissions |-> {}, Moderation |-> None, Change |-> None,
   Weights |-> [w \in Weight |-> 0], BaseFee |-> 0, Intent |-> a, Preserve |-> FALSE]

RuleRequests ==
  {[Request("add_operator") EXCEPT !.Target = o3],
   [Request("update_config") EXCEPT !.Change = <<1, 3>>],
   [Request("update_fee_market") EXCEPT !.BaseFee = 2]}
  \cup {[Request("remove_operator") EXCEPT !.Target = o] : o \in Operator}
  \cup {[Request("update_operator") EXCEPT !.Target = o, !.Permissions = {"freeze"}] : o \in Operator}
  \cup {[Request("update_mining_params") EXCEPT !.Weights = [v \in Weight |-> IF v = w THEN 2 ELSE 0]] : w \in Weight}

Moderations ==
  {Request("freeze"), Request("block"), [Request("block") EXCEPT !.Preserve = TRUE],
   Request("legal_hold"), Request("appeal")}

DirectModerations == {Request("freeze"), Request("block"), Request("legal_hold")}

Everything == RuleRequests \cup Moderations

Uploaded == intents[a] # None /\ intents[a].Status # "uploading" /\ intents[a].Status # "partial"

Init == AccountsInit /\ DealsInit /\ GovernanceInit /\ part \in {"rules", "moderation"}

Upload ==
  /\ part = "moderation"
  /\ \/ CreateIntent(a) \/ Finalize(a)
     \/ \E s \in Shards(a) : BatchCommit(a, s, m1)
  /\ UNCHANGED governanceVars

\* Besides the committee, the owner terminates the deal and its miner deletes it.
Others ==
  /\ part = "moderation" /\ Uploaded
  /\ \/ TerminateDeal(a) /\ terminated' = {a} /\ UNCHANGED <<committeeVars, records, tags>>
     \/ (\E t \in deleteTasks : SubmitDeleteReceipt(t)) /\ UNCHANGED governanceVars

Clock == part = "moderation" /\ Uploaded /\ NextBlock /\ UNCHANGED <<dealVars, governanceVars>>

Committees ==
  /\ part = "rules" \/ Uploaded
  /\ \/ \E o \in Operator, p \in ProposalID, req \in RuleRequests :
          part = "rules" /\ CreateGovernanceProposal(o, p, req)
     \/ \E o \in Operator, req \in Moderations :
          part = "moderation" /\ CreateGovernanceProposal(o, p1, req)
     \/ \E o \in Operator, p \in ProposalID, decision \in {"approve", "reject"} :
          CastGovernanceVote(o, p, decision)
     \/ \E o \in Operator, p \in ProposalID : ExecuteGovernanceProposal(o, p)
     \/ \E p \in ProposalID : ExpireOnUse(p) \/ CancelGovernanceProposal(p)

Direct ==
  /\ part = "moderation" /\ Uploaded
  /\ \/ \E o \in Operator, r \in ActionID, req \in DirectRequests : DirectGovernanceAction(o, r, req)
     \/ \E o \in Operator, r \in ActionID : CastDirectActionReviewVote(o, r)
     \/ \E o \in Operator, r \in ActionID : CastDirectActionReviewVoteLate(o, r)
     \/ \E r \in ActionID : RatifyDirectAction(r)

\* Bound: signed requests of all operators together.
Busy == SumFunctionOnSet(operatorNonces', Operator) <= IF part = "rules" THEN 6 ELSE 3

Next == (Upload \/ Others \/ Clock \/ Committees \/ Direct) /\ Busy /\ UNCHANGED part

Spec == Init /\ [][Next]_vars

Names == Permutations({d1, d2}) \cup Permutations({o1, o2})
=============================================================================
