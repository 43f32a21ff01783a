------------------------------- MODULE Service -------------------------------
(***************************************************************************)
(* What the scheduler promises to those who send it requests: the abstract *)
(* specification that Scheduler implements and Frontend builds on.         *)
(*                                                                         *)
(* A request is taken or dropped, answered one token at a time, and over   *)
(* with the reply that says so or with its abort.  With Overlap the batch  *)
(* in flight at that moment may answer it once more.                       *)
(***************************************************************************)
EXTENDS Naturals

CONSTANTS
  Req,
  MaxReplies,    \* most tokens any request may get
  Overlap        \* overlap_loop or normal_loop

ASSUME MaxRepliesAssumption == MaxReplies \in Nat

VARIABLES
  phase,    \* uid -> absent, active, done, dropped or aborted
  sent,     \* uid -> number of replies
  late      \* uid -> number of replies after the end

serviceVars == <<phase, sent, late>>

ServiceInit ==
  /\ phase = [r \in Req |-> "absent"]
  /\ sent = [r \in Req |-> 0]
  /\ late = [r \in Req |-> 0]

Take(r) ==
  /\ phase[r] = "absent"
  /\ phase' = [phase EXCEPT ![r] = "active"]
  /\ UNCHANGED <<sent, late>>

\* The prompt leaves no room for output: dropped without a reply.
Drop(r) ==
  /\ phase[r] = "absent"
  /\ phase' = [phase EXCEPT ![r] = "dropped"]
  /\ UNCHANGED <<sent, late>>

Abort(r) ==
  /\ phase[r] \in {"active", "done", "dropped"}
  /\ phase' = [phase EXCEPT ![r] = "aborted"]
  /\ UNCHANGED <<sent, late>>

Answer(r, last) ==
  /\ phase[r] = "active"
  /\ sent[r] < MaxReplies
  /\ last \/ sent[r] + 1 < MaxReplies
  /\ sent' = [sent EXCEPT ![r] = @ + 1]
  /\ phase' = [phase EXCEPT ![r] = IF last THEN "done" ELSE @]
  /\ UNCHANGED late

AnswerLate(r) ==
  /\ Overlap
  /\ phase[r] \in {"done", "aborted"}
  /\ late[r] = 0 /\ sent[r] < MaxReplies
  /\ sent' = [sent EXCEPT ![r] = @ + 1]
  /\ late' = [late EXCEPT ![r] = 1]
  /\ UNCHANGED phase

ServiceNext ==
  \E r \in Req :
    \/ Take(r) \/ Drop(r) \/ Abort(r)
    \/ (\E last \in BOOLEAN : Answer(r, last))
    \/ AnswerLate(r)

ServiceSpec == ServiceInit /\ [][ServiceNext]_serviceVars
=============================================================================
