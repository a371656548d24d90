----------------------------- MODULE Governance -----------------------------
(***************************************************************************)
(* The committee of governance operators on one node.  An operator makes a *)
(* proposal, operators vote, and the vote that reaches the threshold       *)
(* executes it: it moderates a deal, or changes the operators, the         *)
(* thresholds, the mining parameters or the fee market.  An operator may   *)
(* also moderate a deal at once; the committee can then reject that while  *)
(* it is under review, and what cannot be undone waits for its end.        *)
(*                                                                         *)
(* Source: internal/chain/{governance_proposals,lifecycle,admin_auth}.go.  *)
(*                                                                         *)
(* Data abstraction.  A request is a record of the fields its action reads *)
(* (Requests); the forty mining parameters are represented by the weights, *)
(* the only ones bounded together.  Signatures and clock skew are left     *)
(* out, the clock is the chain's.  Agents that sign for an operator are in *)
(* AgentKey.                                                               *)
(***************************************************************************)
EXTENDS Repair

CONSTANTS
  Operator, Committee,    \* all operators, and those enabled at the start
  ProposalID, ActionID,
  Requests,               \* what may be proposed
  DirectRequests,         \* what an operator may do at once
  Weight, MaxWeight,      \* maxWeightBPSSum bounds the sum of the weights
  GenesisConfig,
  ProposalTTL, ReviewWindow,
  MaxRequests             \* bound: signed requests of one operator

ASSUME GovernanceAssumption ==
  /\ Committee \subseteq Operator /\ IsFiniteSet(Operator)
  /\ MaxWeight \in Nat /\ ProposalTTL \in Nat /\ ReviewWindow \in Nat /\ MaxRequests \in Nat
  /\ SumFunctionOnSet(GenesisConfig.Weights, Weight) <= MaxWeight
  /\ None \notin ActionID

VARIABLES
  operators, operatorNonces, proposals,
  config,                 \* thresholds, mining parameters, fee market
  records, tags,          \* direct actions; the one a blacklist entry is under review for
  terminated              \* history: deals their owner has terminated

committeeVars == <<operators, operatorNonces, proposals, config>>
governanceVars == <<committeeVars, records, tags, terminated>>

-----------------------------------------------------------------------------
Deal == {"freeze", "block", "legal_hold", "appeal"}
isOperatorManagementAction(a) == a \in {"add_operator", "remove_operator", "update_operator"}
isConfigAction(a) == a = "update_config"
isMiningParamsAction(a) == a = "update_mining_params"
isFeeMarketAction(a) == a = "update_fee_market"

GovernanceOperator == [Enabled : BOOLEAN, Permissions : SUBSET (Deal \cup {"all"})]

\* Thresholds: numerator and denominator.  A pair with a zero is as good as none.
Fraction == (Nat \ {0}) \X (Nat \ {0})

Config == [Moderation : Fraction, Change : Fraction, Weights : [Weight -> Nat], BaseFee : Nat]

GovernanceRequest ==
  [Action : Deal \cup {"add_operator", "remove_operator", "update_operator", "update_config",
                       "update_mining_params", "update_fee_market"},
   Target : Operator \cup {None}, Permissions : SUBSET (Deal \cup {"all"}),
   Moderation : Fraction \cup {None}, Change : Fraction \cup {None}, Weights : [Weight -> Nat],
   BaseFee : Nat, Intent : IntentID, Preserve : BOOLEAN]

\* Who manages operators names one; what is done at once can be undone.
ASSUME RequestAssumption ==
  /\ Requests \subseteq GovernanceRequest
  /\ \A req \in Requests : isOperatorManagementAction(req.Action) => req.Target \in Operator
  /\ DirectRequests \subseteq {req \in GovernanceRequest : req.Action \in {"freeze", "block", "legal_hold"}}
  /\ GenesisConfig \in Config

Decision == {"none", "approve", "reject"}

GovernanceProposal ==
  [Proposer : Operator, Req : Requests, Until : Nat, CreatedAt : Nat, Snapshot : SUBSET Operator,
   Votes : [Operator -> Decision],
   Status : {"pending", "executed", "rejected", "expired", "cancelled"}]

DirectActionRecord ==
  [Intent : IntentID, Action : Deal, Preserve : BOOLEAN, Deadline : Nat,
   ReviewStatus : {"pending_review", "ratified", "auto_ratified", "rejected"},
   Pre : [Access : AccessStatus,
          Moderation : {"none", "frozen", "blocked", "legal_hold", "appealed"},
          Storage : {"pending", "active", "expired", "terminating", "deleted"}, Expires : Nat],
   Rejects : [Operator -> Nat]]

ASSUME GovernanceNone ==
  /\ None \notin GovernanceOperator \cup GovernanceProposal \cup DirectActionRecord
  /\ None \notin Operator \cup Fraction

GovernanceTypeOK ==
  /\ operators \in [Operator -> GovernanceOperator \cup {None}]
  /\ operatorNonces \in [Operator -> 0..MaxRequests]
  /\ proposals \in [ProposalID -> GovernanceProposal \cup {None}]
  /\ config \in Config
  /\ records \in [ActionID -> DirectActionRecord \cup {None}]
  /\ tags \in [Hash -> ActionID \cup {None}]
  /\ terminated \subseteq IntentID

GovernanceInit ==
  /\ operators = [o \in Operator |->
       IF o \in Committee THEN [Enabled |-> TRUE, Permissions |-> {"all"}] ELSE None]
  /\ operatorNonces = [o \in Operator |-> 0]
  /\ proposals = [p \in ProposalID |-> None]
  /\ config = GenesisConfig
  /\ records = [r \in ActionID |-> None]
  /\ tags = [h \in Hash |-> None]
  /\ terminated = {}

-----------------------------------------------------------------------------
Enabled(o) == operators[o] # None /\ operators[o].Enabled

enabledOperatorAddresses == {o \in Operator : Enabled(o)}

\* An operator may do what its permissions list; without any, and to manage
\* operators and thresholds, an enabled one may.
validateGovernanceOperator(o, action) ==
  /\ Enabled(o)
  /\ \/ isOperatorManagementAction(action) \/ isConfigAction(action)
     \/ operators[o].Permissions = {}
     \/ operators[o].Permissions \cap {action, "all"} # {}

consumeOperatorNonce(o) ==
  /\ operatorNonces[o] < MaxRequests
  /\ operatorNonces' = [operatorNonces EXCEPT ![o] = @ + 1]

\* Mutated: a fraction is rounded down.
governanceThresholdFor_down(action, n) ==
  LET t == IF action \in Deal THEN config.Moderation ELSE config.Change
  IN  (n * t[1]) \div t[2]

\* governanceThresholdFor: the part of n operators that the action needs, rounded up.
governanceThresholdFor(action, n) ==
  LET t == IF action \in Deal THEN config.Moderation ELSE config.Change
  IN  (n * t[1] + t[2] - 1) \div t[2]

\* countProposalVotes: votes of operators that were enabled when the proposal was made.
countProposalVotes(p, decision) ==
  Cardinality({o \in p.Snapshot : p.Votes[o] = decision})

Threshold(p) == governanceThresholdFor(p.Req.Action, Cardinality(p.Snapshot))

Unreachable(p) == Cardinality(p.Snapshot) - countProposalVotes(p, "reject") < Threshold(p)

TooOld(p) == p.CreatedAt + ProposalTTL < now

\* expireGovernanceProposals: pending proposals past their time.
expireGovernanceProposals(ps) ==
  [p \in DOMAIN ps |-> IF ps[p] # None /\ ps[p].Status = "pending" /\ TooOld(ps[p])
                       THEN [ps[p] EXCEPT !.Status = "expired"] ELSE ps[p]]

\* expireUnreachableProposals: pending proposals that cannot reach the threshold.
expireUnreachableProposals(ps) ==
  [p \in DOMAIN ps |-> IF ps[p] # None /\ ps[p].Status = "pending" /\ Unreachable(ps[p])
                       THEN [ps[p] EXCEPT !.Status = "expired"] ELSE ps[p]]

-----------------------------------------------------------------------------
NewWeights(req) == [w \in Weight |-> IF req.Weights[w] # 0 THEN req.Weights[w] ELSE config.Weights[w]]

WeightsBounded(weights) == SumFunctionOnSet(weights, Weight) <= MaxWeight

validateOperatorManagementFields(req) ==
  IF req.Action = "add_operator" THEN ~Enabled(req.Target)
  ELSE /\ Enabled(req.Target)
       /\ req.Action = "update_operator" => req.Permissions # {}

validateConfigChangeFields(req) ==
  /\ req.Moderation # None \/ req.Change # None
  /\ \A t \in {req.Moderation, req.Change} \ {None} : t[1] <= t[2]

\* validateMiningParamBounds: the weights that would hold if it were executed now.
validateMiningParamBounds(req) == WeightsBounded(NewWeights(req))

validateMiningParamsChangeFields(req) ==
  /\ \E w \in Weight : req.Weights[w] # 0
  /\ validateMiningParamBounds(req)

validateFeeMarketChangeFields(req) == req.BaseFee > 0

\* What a request has to satisfy when it is proposed.
ValidRequest(req) ==
  CASE isOperatorManagementAction(req.Action) -> validateOperatorManagementFields(req)
    [] isConfigAction(req.Action) -> validateConfigChangeFields(req)
    [] isMiningParamsAction(req.Action) -> validateMiningParamsChangeFields(req)
    [] isFeeMarketAction(req.Action) -> validateFeeMarketChangeFields(req)
    [] OTHER -> Exists(req.Intent)

governanceProposalFromRequest(o, req) ==
  [Proposer |-> o, Req |-> req, Until |-> now + FreezeTime, CreatedAt |-> now,
   Snapshot |-> enabledOperatorAddresses, Votes |-> [v \in Operator |-> "none"], Status |-> "pending"]

\* CreateGovernanceProposal, which also expires what is stale or out of reach.
CreateGovernanceProposal(o, p, req) ==
  /\ proposals[p] = None
  /\ validateGovernanceOperator(o, req.Action)
  /\ ValidRequest(req)
  /\ consumeOperatorNonce(o)
  /\ proposals' = [expireUnreachableProposals(expireGovernanceProposals(proposals)) EXCEPT
                     ![p] = governanceProposalFromRequest(o, req)]
  /\ UNCHANGED <<operators, config, records, tags, terminated, accountVars, dealVars>>

-----------------------------------------------------------------------------
executeOperatorManagement(req) ==
  operators' = [operators EXCEPT ![req.Target] =
    CASE req.Action = "add_operator"    -> [Enabled |-> TRUE, Permissions |-> req.Permissions]
      [] req.Action = "remove_operator" -> [@ EXCEPT !.Enabled = FALSE]
      [] OTHER                          -> [@ EXCEPT !.Permissions = req.Permissions]]

executeConfigChange(req) ==
  config' = [config EXCEPT !.Moderation = IF req.Moderation = None THEN @ ELSE req.Moderation,
                           !.Change = IF req.Change = None THEN @ ELSE req.Change]

\* The parameters are changed before their bounds are checked, and stay changed.
executeMiningParamsChange(req) == config' = [config EXCEPT !.Weights = NewWeights(req)]

executeFeeMarketChange(req) == config' = [config EXCEPT !.BaseFee = req.BaseFee]

\* governanceDealAction; a new or removed blacklist entry is under no review.
governanceDealAction(i, action, until, preserve) ==
  \/ action = "freeze" /\ Freeze(i, until)
  \/ action = "block" /\ Block(i, preserve)
  \/ action = "legal_hold" /\ LegalHold(i)
  \/ action = "appeal" /\ Appeal(i)

TagWith(i, tag) == tags' = [h \in Hash |-> IF h \in hashesOf(i) THEN tag ELSE tags[h]]

\* Whether executing the proposal returns no error.
Executable(p) ==
  LET req == p.Req
  IN  CASE req.Action \in {"remove_operator", "update_operator"} -> Enabled(req.Target)
        [] isMiningParamsAction(req.Action) -> WeightsBounded(NewWeights(req))
        [] req.Action = "freeze" -> p.Until > now
        [] OTHER -> TRUE

\* What executing the proposal does, with or without an error.
Effect(p) ==
  LET req == p.Req
  IN  \/ /\ isOperatorManagementAction(req.Action)
         /\ IF Executable(p) THEN executeOperatorManagement(req) ELSE UNCHANGED operators
         /\ UNCHANGED <<config, tags, accountVars, dealVars>>
      \/ /\ \/ isConfigAction(req.Action) /\ executeConfigChange(req)
            \/ isMiningParamsAction(req.Action) /\ executeMiningParamsChange(req)
            \/ isFeeMarketAction(req.Action) /\ executeFeeMarketChange(req)
         /\ UNCHANGED <<operators, tags, accountVars, dealVars>>
      \/ /\ req.Action \in Deal /\ Executable(p)
         /\ governanceDealAction(req.Intent, req.Action, p.Until, req.Preserve)
         /\ TagWith(req.Intent, None)
         /\ UNCHANGED <<operators, config>>
      \/ /\ req.Action \in Deal /\ ~Executable(p)
         /\ intents' = [intents EXCEPT ![req.Intent] = expireGovernanceAction(@)]
         /\ UNCHANGED <<operators, config, tags, accountVars, funds, feePool, subsidyPool, shardVars,
                        deleteVars, blacklist, vested, storageRewards, late>>

\* CastGovernanceVote: one vote of an enabled operator.  The vote that reaches the
\* threshold executes the proposal, the one that puts it out of reach rejects it.
CastGovernanceVote(o, p, decision) ==
  LET voted == [proposals[p] EXCEPT !.Votes[o] = decision]
      reached == countProposalVotes(voted, "approve") >= Threshold(voted)
  IN  /\ proposals[p] # None /\ proposals[p].Status = "pending" /\ ~TooOld(proposals[p])
      /\ Enabled(o) /\ proposals[p].Votes[o] = "none"
      /\ consumeOperatorNonce(o)
      /\ proposals' = [proposals EXCEPT ![p] =
           [voted EXCEPT !.Status = IF reached THEN "executed"
                                    ELSE IF Unreachable(voted) THEN "rejected" ELSE @]]
      /\ IF reached THEN Effect(voted)
         ELSE UNCHANGED <<operators, config, tags, accountVars, dealVars>>
      /\ UNCHANGED <<records, terminated>>

\* A vote for, an execution or a list of a proposal that is too old marks it expired.
ExpireOnUse(p) ==
  /\ proposals[p] # None /\ proposals[p].Status = "pending" /\ TooOld(proposals[p])
  /\ proposals' = [proposals EXCEPT ![p].Status = "expired"]
  /\ UNCHANGED <<operators, operatorNonces, config, records, tags, terminated, accountVars, dealVars>>

\* ExecuteGovernanceProposal: for a proposal whose threshold has come down to the votes
\* it has.  With an error it stays executed, and the request can be sent again.
ExecuteGovernanceProposal(o, p) ==
  LET x == proposals[p]
  IN  /\ Enabled(o)
      /\ x # None /\ x.Status = "pending" /\ ~TooOld(x)
      /\ countProposalVotes(x, "approve") >= Threshold(x)
      /\ proposals' = [proposals EXCEPT ![p].Status = "executed"]
      /\ IF Executable(x) THEN consumeOperatorNonce(o) ELSE UNCHANGED operatorNonces
      /\ Effect(x)
      /\ UNCHANGED <<records, terminated>>

\* The proposer may cancel, an operator no more or not.
CancelGovernanceProposal(p) ==
  /\ proposals[p] # None /\ proposals[p].Status = "pending"
  /\ consumeOperatorNonce(proposals[p].Proposer)
  /\ proposals' = [proposals EXCEPT ![p].Status = "cancelled"]
  /\ UNCHANGED <<operators, config, records, tags, terminated, accountVars, dealVars>>

-----------------------------------------------------------------------------

\* Whatever the request says, storage is preserved until the action is ratified.
moderateUnderReview(req) == governanceDealAction(req.Intent, req.Action, now + FreezeTime, TRUE)

\* DirectGovernanceAction: the deal is moderated at once, its storage preserved; the
\* record keeps what it was before.
DirectGovernanceAction(o, r, req) ==
  LET x == expireGovernanceAction(intents[req.Intent])
  IN  /\ records[r] = None
      /\ validateGovernanceOperator(o, req.Action)
      /\ Exists(req.Intent)
      /\ consumeOperatorNonce(o)
      /\ moderateUnderReview(req)
      /\ TagWith(req.Intent, r)
      /\ records' = [records EXCEPT ![r] =
           [Intent |-> req.Intent, Action |-> req.Action, Preserve |-> req.Preserve,
            Deadline |-> now + ReviewWindow, ReviewStatus |-> "pending_review",
            Pre |-> [Access |-> x.AccessStatus, Moderation |-> x.ModerationStatus,
                     Storage |-> x.StorageStatus, Expires |-> x.ModerationExpires],
            Rejects |-> [v \in Operator |-> 0]]]
      /\ UNCHANGED <<operators, proposals, config, terminated>>

Untagged(r) == [h \in Hash |-> IF tags[h] = r THEN None ELSE tags[h]]

\* Mutated: the entries stay under review.
clearBlacklistReviewStatus_kept(r) == UNCHANGED tags

clearBlacklistReviewStatus(r) == tags' = Untagged(r)

removeBlacklistByActionID(r) ==
  /\ blacklist' = [h \in Hash |-> IF tags[h] = r THEN None ELSE blacklist[h]]
  /\ tags' = Untagged(r)

\* ratifyDirectAction, autoRatifyDirectAction: what was deferred is done now - the
\* permanent fund is closed and the deal deleted, if it is a block that says so.
ratifyDirectAction(r, status) ==
  LET i == records[r].Intent
      x == [intents[i] EXCEPT !.StorageStatus = "terminating"]
      burn == IF isPermanentIntent(x) THEN closedFund(i, x).Burn ELSE 0
  IN  /\ records' = [records EXCEPT ![r].ReviewStatus = status]
      /\ clearBlacklistReviewStatus(r)
      /\ IF records[r].Action = "block" /\ ~records[r].Preserve
         THEN /\ ensureDeleteTasks(i, [x EXCEPT !.BurnedFee = @ + burn])
              /\ lockedStorage' = [lockedStorage EXCEPT ![Owner] = @ - burn]
              /\ recordStorageFeeBurn(burn)
              /\ funds' = IF isPermanentIntent(x) THEN [funds EXCEPT ![i] = closedFund(i, x).Fund] ELSE funds
              /\ UNCHANGED <<balance, nonce, now, subsidyPool, shardVars, deleteReceipts, blacklist,
                             vested, storageRewards, late>>
         ELSE UNCHANGED <<accountVars, dealVars>>

\* rejectDirectAction: the deal gets back the state of before.
rejectDirectAction(r) ==
  LET pre == records[r].Pre
  IN  /\ intents' = [intents EXCEPT ![records[r].Intent] =
           [@ EXCEPT !.AccessStatus = pre.Access, !.ModerationStatus = pre.Moderation,
                     !.StorageStatus = pre.Storage, !.ModerationExpires = pre.Expires]]
      /\ removeBlacklistByActionID(r)
      /\ UNCHANGED <<accountVars, funds, feePool, subsidyPool, shardVars, deleteVars, vested,
                     storageRewards, late>>

Reviewed(r) == records[r] # None /\ records[r].ReviewStatus = "pending_review"

\* CastDirectActionReviewVote: a rejection, of an operator that may have rejected it
\* before; votes of operators that are enabled now count.
CastDirectActionReviewVote(o, r) ==
  LET voted == [records[r] EXCEPT !.Rejects[o] = @ + 1]
      count == SumFunctionOnSet(voted.Rejects, enabledOperatorAddresses)
      rejected == count >= governanceThresholdFor(voted.Action, Cardinality(enabledOperatorAddresses))
  IN  /\ Enabled(o) /\ Reviewed(r) /\ now <= records[r].Deadline
      /\ consumeOperatorNonce(o)
      /\ records' = [records EXCEPT ![r] =
           IF rejected THEN [voted EXCEPT !.ReviewStatus = "rejected"] ELSE voted]
      /\ IF rejected THEN rejectDirectAction(r) ELSE UNCHANGED <<tags, accountVars, dealVars>>
      /\ UNCHANGED <<operators, proposals, config, terminated>>

\* After the window a vote is refused, and ratifies the action.
CastDirectActionReviewVoteLate(o, r) ==
  /\ Enabled(o) /\ Reviewed(r) /\ now > records[r].Deadline
  /\ ratifyDirectAction(r, "auto_ratified")
  /\ UNCHANGED <<committeeVars, terminated>>

\* RatifyDirectAction: an operator of the node, at any time.
RatifyDirectAction(r) ==
  /\ Reviewed(r)
  /\ ratifyDirectAction(r, "ratified")
  /\ UNCHANGED <<committeeVars, terminated>>

-----------------------------------------------------------------------------
CommitteeStep ==
  \/ \E o \in Operator, p \in ProposalID :
       \/ \E req \in Requests : CreateGovernanceProposal(o, p, req)
       \/ \E decision \in {"approve", "reject"} : CastGovernanceVote(o, p, decision)
       \/ ExecuteGovernanceProposal(o, p)
  \/ \E p \in ProposalID : ExpireOnUse(p) \/ CancelGovernanceProposal(p)

DirectStep ==
  \/ \E o \in Operator, r \in ActionID :
       \/ \E req \in DirectRequests : DirectGovernanceAction(o, r, req)
       \/ CastDirectActionReviewVote(o, r) \/ CastDirectActionReviewVoteLate(o, r)
  \/ \E r \in ActionID : RatifyDirectAction(r)

TerminateStep ==
  \E i \in IntentID :
    TerminateDeal(i) /\ terminated' = terminated \cup {i} /\ UNCHANGED <<committeeVars, records, tags>>

\* The committee acts while deals live their lives.
GovernanceNext ==
  \/ CommitteeStep \/ DirectStep \/ TerminateStep
  \/ DealStep /\ UNCHANGED governanceVars
  \/ NextBlock /\ UNCHANGED <<dealVars, governanceVars>>

GovernanceSpec ==
  AccountsInit /\ DealsInit /\ GovernanceInit
    /\ [][GovernanceNext]_<<accountVars, dealVars, governanceVars>>

-----------------------------------------------------------------------------
\* Operators, thresholds and parameters change only by a proposal that as many of the
\* operators of its time approved as the thresholds in force ask for.
ChangedByQuorum ==
  [][operators' # operators \/ config' # config =>
       \E p \in ProposalID :
         /\ proposals[p] # None /\ proposals[p].Status = "pending"
         /\ proposals'[p].Status = "executed"
         /\ Cardinality({o \in proposals[p].Snapshot : proposals'[p].Votes[o] = "approve"}) * config.Change[2]
              >= Cardinality(proposals[p].Snapshot) * config.Change[1]]_<<operators, config, proposals>>

\* What cannot be undone is not done while it is under review: a deal is deleted, and
\* its permanent fund closed, only because its owner terminated it, by a proposal the
\* committee has executed, or by a direct block that has been ratified.
NothingDeletedUnderReview ==
  \A i \in IntentID :
    (funds[i] # None /\ funds[i].Closed) \/ (\E t \in deleteTasks : t.Intent = i) =>
      \/ i \in terminated
      \/ \E p \in ProposalID : /\ proposals[p] # None /\ proposals[p].Status = "executed"
                               /\ proposals[p].Req.Action = "block" /\ proposals[p].Req.Intent = i
                               /\ ~proposals[p].Req.Preserve
      \/ \E r \in ActionID : /\ records[r] # None /\ records[r].Intent = i
                             /\ records[r].ReviewStatus \in {"ratified", "auto_ratified"}
                             /\ records[r].Action = "block" /\ ~records[r].Preserve

\* A blacklist entry that is marked as under review is there, and the action it names
\* is a moderation of a deal with that content that is still to be decided.
TagsUnderReview ==
  \A h \in Hash : tags[h] # None =>
    /\ blacklist[h] # None
    /\ records[tags[h]].ReviewStatus = "pending_review"
    /\ h \in hashesOf(records[tags[h]].Intent)

\* A proposal or a direct action that is decided stays as it is, its votes too.
DecidedStays ==
  [][/\ \A p \in ProposalID : proposals[p] # None /\ proposals[p].Status # "pending" =>
          proposals'[p] = proposals[p]
     /\ \A r \in ActionID : records[r] # None /\ records[r].ReviewStatus # "pending_review" =>
          records'[r] = records[r]]_<<proposals, records>>

\* While a direct action is under review, it is marked as such and can be undone.
ReviewRespected == GovernanceTypeOK /\ NothingDeletedUnderReview /\ TagsUnderReview

\* The committee decides, by the operators and thresholds of the proposal's time, and
\* what is decided is not opened again.
QuorumDecides == ChangedByQuorum /\ DecidedStays
=============================================================================
