------------------------------ MODULE Approval ------------------------------
(***************************************************************************)
(* cross_domain/approval: the status rules that the documents with an      *)
(* approval flow share.  A flow is a constant of its domain; a rule maps   *)
(* the current status to the next one, or to Invalid (InvalidTransition).  *)
(***************************************************************************)
EXTENDS Integers, Sequences

\* The values that the SMALLINT status columns take.
Draft == 0
Submitted == 1
PendingSupervisor == 2
Approved == 3
Rejected == 4
Deleted == -1
Status == {Draft, Submitted, PendingSupervisor, Approved, Rejected, Deleted}

Invalid == 99 \* no status: the action is refused

\* submit: a pair; approvals: a sequence of pairs, the first match wins;
\* reject: the statuses it applies to (none without a reject rule).
Flow == [submit: Status \X Status, approvals: Seq(Status \X Status),
         reject: SUBSET Status]

SubmitStatus(flow, s) == IF s = flow.submit[1] THEN flow.submit[2] ELSE Invalid

\* Faulty form of ApproveStatus: one level up, whatever the flow says.
ApproveNext(flow, s) == IF s < Draft THEN Invalid ELSE s + 1

\* The chain of approvals.
ApproveStatus(flow, s) ==
    LET hits == {k \in DOMAIN flow.approvals : flow.approvals[k][1] = s}
    IN  IF hits = {} THEN Invalid
        ELSE flow.approvals[CHOOSE k \in hits : \A j \in hits : k <= j][2]

RejectStatus(flow, s) == IF s \in flow.reject THEN Rejected ELSE Invalid
=============================================================================
