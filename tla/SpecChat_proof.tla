--------------------------- MODULE SpecChat_proof ---------------------------
(***************************************************************************)
(* Proofs about SpecChat, for any number of turns, approvals in flight,    *)
(* proposals, lives of the service and faults, and for any ceiling.        *)
(***************************************************************************)
EXTENDS SpecChat, FiniteSetTheorems, TLAPS

\* Request a is applying a proposal.
Active(a) == req[a].pc # "idle"

\* Proposal p has been handed out, in this life of the service or an earlier one.
Issued(p) == p.epoch < epoch \/ (p.epoch = epoch /\ p.id <= seq)

\* The ids in use are those the gate has handed out.
IdsAreIssued ==
    /\ \A p \in pending : p.epoch = epoch /\ p.id <= seq
    /\ \A p \in shown : Issued(p)
    /\ \A a \in Approvers : Active(a) => Issued(req[a].prop)
    /\ \A e \in log : Issued(e.prop)

\* Within one life an id means one proposal, among those held and those shown.
IdsAreStable ==
    \A p, q \in pending \cup shown : p.epoch = q.epoch /\ p.id = q.id => p = q

(***************************************************************************)
(* A proposal is held, being applied by one request, or applied: takePend- *)
(* ing moves it from the first to the second place before the first await. *)
(***************************************************************************)
InOnePlace ==
    /\ \A a \in Approvers : Active(a) => req[a].prop \notin pending
    /\ \A a, b \in Approvers : Active(a) /\ Active(b) /\ req[a].prop = req[b].prop => a = b
    /\ \A e \in log : e.prop \notin pending
    /\ \A e \in log : \A a \in Approvers : Active(a) => req[a].prop # e.prop

\* Proposal p may be applied for approval v.
ApprovedAs(p, v) == v.id = p.id /\ (v.epoch = p.epoch => v = p)

Approved ==
    /\ \A a \in Approvers : Active(a) => ApprovedAs(req[a].prop, req[a].view)
    /\ \A e \in log : e.view \in Proposal /\ ApprovedAs(e.prop, e.view) /\ e.nth = 1

(***************************************************************************)
(* The conjuncts lean on each other: an approval finds the proposal it saw *)
(* because ids are stable, they are because a new id is beyond those       *)
(* issued, and a proposal is logged once because it is in one place.       *)
(***************************************************************************)
ApprovalInv == IdsAreIssued /\ IdsAreStable /\ InOnePlace /\ Approved

(***************************************************************************)
(* The file has valid edits only, and so has what a put read of it; what   *)
(* is past the check of PutRead is valid itself.                           *)
(***************************************************************************)
FileInv ==
    /\ FileStaysValid
    /\ \A a \in Approvers :
          /\ \A p \in req[a].base : p.args = "edit"
          /\ req[a].pc \in {"write", "flush"} => req[a].prop.args = "edit"

(***************************************************************************)
(* A preview needs a fresh turn counter, and a fresh counter a turn that   *)
(* has not been paid for, whoever of the overlapping turns spends it.      *)
(***************************************************************************)
PreviewInv ==
    /\ previews = sessionPreviews
    /\ turnPreviews \in 0..1
    /\ begun = 0 => previews = 0 /\ \A t \in Turns : turn[t] = "idle"
    /\ begun # 0 => previews + 1 <= begun + turnPreviews
-----------------------------------------------------------------------------
(* Types. *)

\* The log entry of a request that applies a proposal for the first time.
LEMMA FirstEntry ==
    ASSUME NEW a \in Approvers, InOnePlace, Active(a), Logged(a)
    PROVE  log' = log \cup {[prop |-> req[a].prop, view |-> req[a].view, nth |-> 1]}
<1>1. {e \in log : e.prop = req[a].prop} = {}
  BY DEF InOnePlace
<1>2. Cardinality({e \in log : e.prop = req[a].prop}) = 0
  BY <1>1, FS_EmptySet
<1> QED
  BY <1>2 DEF Logged

\* At the start nothing is held, shown or applied.
LEMMA InitTypeOK == Init => TypeOK
BY ChatAssumption DEF Init, TypeOK, Request, Idle, File, NoProp, Proposal

\* Requests that finish, fail or are forgotten leave a well-formed table.
LEMMA DoneType ==
    ASSUME TypeOK, NEW a \in Approvers, Done(a)
    PROVE  /\ req' \in [Approvers -> Request]
           /\ \A b \in Approvers : req'[b].pc # "idle" =>
                 b # a /\ req'[b] = req[b]
BY DEF TypeOK, Done, Idle, Request

\* Every step keeps the types.
LEMMA NextTypeOK == TypeOK /\ InOnePlace /\ [Next]_vars => TypeOK'
<1> SUFFICES ASSUME TypeOK, InOnePlace, [Next]_vars PROVE TypeOK'
  OBVIOUS
<1> USE ChatAssumption
<1>1. CASE UNCHANGED vars
  BY <1>1 DEF TypeOK, vars
<1>2. ASSUME NEW t \in Turns, Chat(t) PROVE TypeOK'
  BY <1>2 DEF Chat, TypeOK
<1>3. ASSUME NEW t \in Turns, NEW args \in Args, GateMutation(t, args) PROVE TypeOK'
  <2>1. [epoch |-> epoch, id |-> NewId, args |-> args] \in Proposal
    BY <1>3 DEF GateMutation, TypeOK, Proposal, NewId
  <2> QED
    BY <1>3, <2>1 DEF GateMutation, TypeOK, seenVars
<1>4. ASSUME NEW t \in Turns, GatePreview(t) PROVE TypeOK'
  BY <1>4 DEF GatePreview, PreviewAllowed, TypeOK
<1>5. ASSUME NEW t \in Turns, Answered(t) PROVE TypeOK'
  BY <1>5 DEF Answered, NoFault, TypeOK, gateVars
<1>6. ASSUME NEW t \in Turns, TurnError(t) PROVE TypeOK'
  BY <1>6 DEF TurnError, Fault, TypeOK, gateVars, seenVars
<1>7. ASSUME NEW a \in Approvers, NEW v \in shown, Approve(a, v) PROVE TypeOK'
  <2>1. PICK p \in pending :
          /\ pending' = pending \ {p}
          /\ req' = [req EXCEPT ![a] = [pc |-> "apply", prop |-> p, view |-> v, base |-> {}]]
    BY <1>7 DEF Approve, TakePending
  <2>2. p \in Proposal /\ v \in Proposal
    BY <2>1 DEF TypeOK
  <2>3. [pc |-> "apply", prop |-> p, view |-> v, base |-> {}] \in Request
    BY <2>2 DEF Request
  <2>4. req' \in [Approvers -> Request]
    BY <2>1, <2>3 DEF TypeOK
  <2>5. \A b \in Approvers : req'[b].pc # "idle" =>
            req'[b].prop \in Proposal /\ req'[b].view \in Proposal
    BY <2>1, <2>2 DEF TypeOK
  <2> QED
    BY <1>7, <2>1, <2>4, <2>5 DEF Approve, TypeOK
<1>8. ASSUME NEW a \in Approvers, ApplyError(a) PROVE TypeOK'
  BY <1>8, DoneType DEF ApplyError, Fault, TypeOK, gateVars, seenVars
<1>9. ASSUME NEW a \in Approvers, ProposeEntry(a) PROVE TypeOK'
  <2>1. log' = log \cup {[prop |-> req[a].prop, view |-> req[a].view, nth |-> 1]}
    BY <1>9, FirstEntry DEF ProposeEntry, Active
  <2>2. req[a].prop \in Proposal /\ req[a].view \in Proposal
    BY <1>9 DEF ProposeEntry, TypeOK
  <2> QED
    BY <1>9, <2>1, <2>2, DoneType DEF ProposeEntry, NoFault, TypeOK, gateVars
<1>10. ASSUME NEW a \in Approvers, PutRead(a) PROVE TypeOK'
  <2>1. CASE Done(a)
    BY <1>10, <2>1, DoneType DEF PutRead, NoFault, TypeOK, gateVars, seenVars
  <2>2. CASE req' = [req EXCEPT ![a].pc = "write", ![a].base = file.edits]
    <3>0. req[a] \in Request /\ file.edits \in SUBSET Proposal
      BY DEF TypeOK, File
    <3>1. req' \in [Approvers -> Request]
      <4>1. /\ [req[a] EXCEPT !.pc = "write"] \in Request
            /\ \A r \in Request : [r EXCEPT !.base = file.edits] \in Request
        BY <3>0 DEF Request
      <4> QED
        BY <2>2, <4>1 DEF TypeOK
    <3>2. \A b \in Approvers : req'[b].pc # "idle" =>
              req'[b].prop \in Proposal /\ req'[b].view \in Proposal
      BY <1>10, <2>2 DEF PutRead, TypeOK, Request
    <3> QED
      BY <1>10, <3>1, <3>2 DEF PutRead, NoFault, TypeOK, gateVars, seenVars
  <2> QED
    BY <1>10, <2>1, <2>2 DEF PutRead
<1>11. ASSUME NEW a \in Approvers, PutTruncate(a) PROVE TypeOK'
  <2>1. req' \in [Approvers -> Request]
    BY <1>11 DEF PutTruncate, TypeOK, Request
  <2>2. \A b \in Approvers : req'[b].pc # "idle" =>
            req'[b].prop \in Proposal /\ req'[b].view \in Proposal
    BY <1>11 DEF PutTruncate, TypeOK, Request
  <2>3. file' \in File
    BY <1>11 DEF PutTruncate, File
  <2> QED
    BY <1>11, <2>1, <2>2, <2>3 DEF PutTruncate, TypeOK, gateVars, seenVars
<1>12. ASSUME NEW a \in Approvers, PutWrite(a) PROVE TypeOK'
  <2>1. log' = log \cup {[prop |-> req[a].prop, view |-> req[a].view, nth |-> 1]}
    BY <1>12, FirstEntry DEF PutWrite, Active
  <2>2. req[a].prop \in Proposal /\ req[a].view \in Proposal
    BY <1>12 DEF PutWrite, TypeOK
  <2>3. file' \in File
    BY <1>12, <2>2 DEF PutWrite, Text, File, TypeOK, Request
  <2> QED
    BY <1>12, <2>1, <2>2, <2>3, DoneType DEF PutWrite, NoFault, TypeOK, gateVars
<1>13. ASSUME NEW a \in Approvers, req[a].pc \in {"write", "flush"}, Interrupted(a)
       PROVE  file' \in File
  BY <1>13 DEF Interrupted, Text, File, TypeOK, Request
<1>14. ASSUME NEW a \in Approvers, PutError(a) PROVE TypeOK'
  BY <1>13, <1>14, DoneType DEF PutError, Fault, TypeOK, gateVars, seenVars
<1>15. CASE ApiCrash
  <2>1. file' \in File
    BY <1>13, <1>15 DEF ApiCrash
  <2>2. Idle \in Request
    BY DEF Idle, Request
  <2>3. /\ req' \in [Approvers -> Request]
        /\ \A b \in Approvers : req'[b].pc = "idle"
    BY <1>15, <2>2 DEF ApiCrash, Idle
  <2> QED
    BY <1>15, <2>1, <2>3 DEF ApiCrash, Fault, TypeOK, gateVars, seenVars
<1>16. CASE Restart
  <2>1. PICK unsent \in SUBSET Approvers :
          req' = [a \in Approvers |-> IF a \in unsent THEN Idle ELSE req[a]]
    BY <1>16 DEF Restart
  <2>2. Idle \in Request /\ Idle.pc = "idle"
    BY DEF Idle, Request
  <2>3. req' \in [Approvers -> Request]
    BY <2>1, <2>2 DEF TypeOK
  <2>4. \A b \in Approvers : req'[b].pc # "idle" =>
            req'[b].prop \in Proposal /\ req'[b].view \in Proposal
    BY <2>1, <2>2 DEF TypeOK
  <2> QED
    BY <1>16, <2>3, <2>4 DEF Restart, TypeOK
<1> QED
  BY <1>1, <1>2, <1>3, <1>4, <1>5, <1>6, <1>7, <1>8, <1>9, <1>10, <1>11, <1>12,
     <1>14, <1>15, <1>16 DEF Next, Turn, Apply, TurnEnd, Timeout
-----------------------------------------------------------------------------
(* Approvals. *)

\* Turns, failures and requests on their way change nothing about approvals.
LEMMA KeepsApprovals ==
    ASSUME ApprovalInv, UNCHANGED <<epoch, seq, pending, log>>,
           shown' \subseteq shown \cup pending,
           \A a \in Approvers : req'[a].pc # "idle" =>
               Active(a) /\ req'[a].prop = req[a].prop /\ req'[a].view = req[a].view
    PROVE  ApprovalInv'
<1> USE DEF ApprovalInv, Active, Issued
<1>1. IdsAreIssued'
  BY DEF IdsAreIssued
<1>2. IdsAreStable'
  BY DEF IdsAreStable
<1>3. InOnePlace'
  BY DEF InOnePlace
<1>4. Approved'
  BY DEF Approved
<1> QED
  BY <1>1, <1>2, <1>3, <1>4

\* A proposal that has been applied is in the log and nowhere else.
LEMMA LogsOnce ==
    ASSUME TypeOK, ApprovalInv, NEW a \in Approvers, Active(a), Logged(a), Done(a),
           UNCHANGED <<epoch, seq, pending, shown>>
    PROVE  ApprovalInv'
<1> DEFINE new == [prop |-> req[a].prop, view |-> req[a].view, nth |-> 1]
<1>1. log' = log \cup {new}
  BY FirstEntry DEF ApprovalInv
<1>2. \A b \in Approvers : req'[b].pc # "idle" => b # a /\ Active(b) /\ req'[b] = req[b]
  BY DoneType DEF Active
<1>3. /\ new.prop = req[a].prop /\ new.view = req[a].view /\ new.nth = 1
      /\ new.prop \in Proposal /\ new.view \in Proposal
  BY DEF TypeOK, Active
<1> HIDE DEF new
<1>4. IdsAreIssued'
  BY <1>1, <1>2, <1>3 DEF ApprovalInv, IdsAreIssued, Issued, Active
<1>5. IdsAreStable'
  BY DEF ApprovalInv, IdsAreStable
<1>6. InOnePlace'
  BY <1>1, <1>2, <1>3 DEF ApprovalInv, InOnePlace, Active
<1>7. Approved'
  BY <1>1, <1>2, <1>3 DEF ApprovalInv, Approved, Active
<1> QED
  BY <1>4, <1>5, <1>6, <1>7 DEF ApprovalInv

\* Every step keeps proposals, approvals and the log in line.
LEMMA NextApprovalInv == TypeOK /\ ApprovalInv /\ [Next]_vars => ApprovalInv'
<1> SUFFICES ASSUME TypeOK, ApprovalInv, [Next]_vars PROVE ApprovalInv'
  OBVIOUS
<1>1. CASE UNCHANGED vars
  BY <1>1, KeepsApprovals DEF vars, Active
<1>2. ASSUME NEW t \in Turns, Chat(t) \/ GatePreview(t) PROVE ApprovalInv'
  BY <1>2, KeepsApprovals DEF Chat, GatePreview, Active
<1>3. ASSUME NEW t \in Turns, NEW args \in Args, GateMutation(t, args) PROVE ApprovalInv'
  <2> DEFINE p == [epoch |-> epoch, id |-> seq + 1, args |-> args]
  <2>1. /\ seq' = seq + 1 /\ pending' = pending \cup {p}
        /\ UNCHANGED <<epoch, req, shown, log>>
    BY <1>3 DEF GateMutation, NewId, seenVars
  <2>2. p.epoch = epoch /\ p.id = seq + 1
    OBVIOUS
  <2>3. seq \in Nat /\ epoch \in Nat
    BY ChatAssumption DEF TypeOK
  <2>4. \A q : Issued(q) => q # p
    BY <2>2, <2>3 DEF Issued
  <2> HIDE DEF p
  <2>5. /\ \A q \in Proposal : Issued(q) => Issued(q)'
        /\ \A q \in pending : Issued(q)
    BY <2>1, <2>3 DEF Issued, Proposal, ApprovalInv, IdsAreIssued
  <2>6. IdsAreIssued'
    <3>1. \A q \in pending' : q.epoch = epoch' /\ q.id <= seq'
      BY <2>1, <2>2, <2>3 DEF ApprovalInv, IdsAreIssued, TypeOK, Proposal
    <3>2. /\ \A q \in shown' : Issued(q)'
          /\ \A a \in Approvers : Active(a)' => Issued(req[a].prop)'
          /\ \A e \in log' : Issued(e.prop)'
      BY <2>1, <2>5 DEF ApprovalInv, IdsAreIssued, TypeOK, Active
    <3> QED
      BY <3>1, <3>2 DEF IdsAreIssued
  <2>7. IdsAreStable'
    <3>1. \A q \in pending \cup shown : q.epoch = epoch => q.id # seq + 1
      BY <2>3, <2>5 DEF ApprovalInv, IdsAreIssued, Issued, TypeOK, Proposal
    <3> QED
      BY <2>1, <2>2, <3>1 DEF ApprovalInv, IdsAreStable
  <2>8. InOnePlace'
    BY <2>1, <2>4 DEF ApprovalInv, InOnePlace, IdsAreIssued, Active
  <2>9. Approved'
    BY <2>1 DEF ApprovalInv, Approved, Active
  <2> QED
    BY <2>6, <2>7, <2>8, <2>9 DEF ApprovalInv
<1>4. ASSUME NEW t \in Turns, Answered(t) \/ TurnError(t) PROVE ApprovalInv'
  BY <1>4, KeepsApprovals DEF Answered, TurnError, gateVars, seenVars, Active
<1>5. ASSUME NEW a \in Approvers, NEW v \in shown, Approve(a, v) PROVE ApprovalInv'
  <2>1. PICK p \in pending :
          /\ p.id = v.id
          /\ pending' = pending \ {p}
          /\ req' = [req EXCEPT ![a] = [pc |-> "apply", prop |-> p, view |-> v, base |-> {}]]
    BY <1>5 DEF Approve, TakePending
  <2>2. UNCHANGED <<epoch, seq, shown, log>> /\ ~Active(a)
    BY <1>5 DEF Approve, Active
  <2>3. /\ req'[a].prop = p /\ req'[a].view = v
        /\ \A b \in Approvers : b # a => req'[b] = req[b]
    BY <2>1 DEF TypeOK
  <2>4. ApprovedAs(p, v)
    BY <2>1 DEF ApprovedAs, ApprovalInv, IdsAreStable
  <2>5. IdsAreIssued'
    BY <2>1, <2>2, <2>3 DEF ApprovalInv, IdsAreIssued, Issued, Active
  <2>6. IdsAreStable'
    BY <2>1, <2>2 DEF ApprovalInv, IdsAreStable
  <2>7. InOnePlace'
    BY <2>1, <2>2, <2>3 DEF ApprovalInv, InOnePlace, Active
  <2>8. Approved'
    BY <2>2, <2>3, <2>4 DEF ApprovalInv, Approved, ApprovedAs, Active
  <2> QED
    BY <2>5, <2>6, <2>7, <2>8 DEF ApprovalInv
<1>6. ASSUME NEW a \in Approvers, ApplyError(a) \/ PutError(a) PROVE ApprovalInv'
  BY <1>6, DoneType, KeepsApprovals DEF ApplyError, PutError, gateVars, seenVars, Active
<1>7. ASSUME NEW a \in Approvers, ProposeEntry(a) \/ PutWrite(a) PROVE ApprovalInv'
  BY <1>7, LogsOnce DEF ProposeEntry, PutWrite, gateVars, Active
<1>8. ASSUME NEW a \in Approvers, PutRead(a) PROVE ApprovalInv'
  <2>1. \A b \in Approvers : req'[b].pc # "idle" =>
            Active(b) /\ req'[b].prop = req[b].prop /\ req'[b].view = req[b].view
    <3>1. CASE Done(a)
      BY <3>1, DoneType DEF Active
    <3>2. CASE req' = [req EXCEPT ![a].pc = "write", ![a].base = file.edits]
      BY <1>8, <3>2 DEF PutRead, Active, TypeOK, Request
    <3> QED
      BY <1>8, <3>1, <3>2 DEF PutRead
  <2> QED
    BY <1>8, <2>1, KeepsApprovals DEF PutRead, gateVars, seenVars
<1>9. ASSUME NEW a \in Approvers, PutTruncate(a) PROVE ApprovalInv'
  <2>1. \A b \in Approvers : req'[b].pc # "idle" =>
            Active(b) /\ req'[b].prop = req[b].prop /\ req'[b].view = req[b].view
    BY <1>9 DEF PutTruncate, Active, TypeOK, Request
  <2> QED
    BY <1>9, <2>1, KeepsApprovals DEF PutTruncate, gateVars, seenVars
<1>10. CASE ApiCrash
  BY <1>10, KeepsApprovals DEF ApiCrash, Idle, gateVars, seenVars
<1>11. CASE Restart
  <2>1. PICK unsent \in SUBSET Approvers :
          req' = [a \in Approvers |-> IF a \in unsent THEN Idle ELSE req[a]]
    BY <1>11 DEF Restart
  <2>2. \A b \in Approvers : req'[b].pc # "idle" => Active(b) /\ req'[b] = req[b]
    BY <2>1 DEF Idle, Active
  <2>3. epoch' = epoch + 1 /\ pending' = {} /\ log' = {} /\ shown' = shown
    BY <1>11 DEF Restart
  <2>4. \A p \in Proposal : Issued(p) => p.epoch < epoch'
    BY <2>3 DEF Issued, Proposal, TypeOK
  <2>5. IdsAreIssued'
    <3>1. \A p \in shown' : Issued(p)'
      BY <2>3, <2>4 DEF ApprovalInv, IdsAreIssued, Issued, TypeOK
    <3>2. \A a \in Approvers : Active(a)' => Issued(req[a].prop)'
      BY <2>2, <2>4 DEF ApprovalInv, IdsAreIssued, Issued, TypeOK, Active
    <3> QED
      BY <2>3, <3>1, <3>2 DEF IdsAreIssued
  <2>6. IdsAreStable'
    BY <2>3 DEF ApprovalInv, IdsAreStable
  <2>7. InOnePlace'
    BY <2>2, <2>3 DEF ApprovalInv, InOnePlace, Active
  <2>8. Approved'
    BY <2>2, <2>3 DEF ApprovalInv, Approved, Active
  <2> QED
    BY <2>5, <2>6, <2>7, <2>8 DEF ApprovalInv
<1> QED
  BY <1>1, <1>2, <1>3, <1>4, <1>5, <1>6, <1>7, <1>8, <1>9, <1>10, <1>11
     DEF Next, Turn, Apply, TurnEnd, Timeout
-----------------------------------------------------------------------------
(* The file and the previews. *)

\* Every step keeps invalid edits out of the file and out of the puts under way.
LEMMA NextFileInv == TypeOK /\ FileInv /\ [Next]_vars => FileInv'
<1> SUFFICES ASSUME TypeOK, FileInv, [Next]_vars PROVE FileInv'
  OBVIOUS
<1> USE DEF FileInv, FileStaysValid
<1>1. ASSUME UNCHANGED <<req, file>> PROVE FileInv'
  BY <1>1
<1>2. CASE UNCHANGED vars
  BY <1>1, <1>2 DEF vars
<1>3. ASSUME NEW t \in Turns, Turn(t) PROVE FileInv'
  BY <1>1, <1>3 DEF Turn, Chat, GatePreview, GateMutation, TurnEnd, Timeout, Answered, TurnError
<1>4. ASSUME NEW a \in Approvers, NEW v \in shown, Approve(a, v) PROVE FileInv'
  BY <1>4 DEF Approve, TypeOK
<1>5. ASSUME NEW a \in Approvers, ApplyError(a) \/ ProposeEntry(a) PROVE FileInv'
  BY <1>5 DEF ApplyError, ProposeEntry, Done, Idle, TypeOK
<1>6. ASSUME NEW a \in Approvers, PutRead(a) PROVE FileInv'
  <2>1. CASE Done(a)
    BY <1>6, <2>1 DEF PutRead, Done, Idle, TypeOK
  <2>2. CASE req' = [req EXCEPT ![a].pc = "write", ![a].base = file.edits] /\ ~Rejects(req[a].prop.args)
    <3>1. req[a].prop.args = "edit"
      BY <1>6, <2>2 DEF PutRead, Rejects, TypeOK, Proposal, Args
    <3> QED
      BY <1>6, <2>2, <3>1 DEF PutRead, TypeOK, Request
  <2> QED
    BY <1>6, <2>1, <2>2 DEF PutRead
<1>7. ASSUME NEW a \in Approvers, PutTruncate(a) PROVE FileInv'
  BY <1>7 DEF PutTruncate, TypeOK, Request
<1>8. ASSUME NEW a \in Approvers, PutWrite(a) PROVE FileInv'
  BY <1>8 DEF PutWrite, Text, Done, Idle, TypeOK
<1>9. ASSUME NEW a \in Approvers, PutError(a) PROVE FileInv'
  BY <1>9 DEF PutError, Interrupted, Text, Done, Idle, TypeOK
<1>10. CASE ApiCrash
  BY <1>10 DEF ApiCrash, Interrupted, Text, Idle
<1>11. CASE Restart
  <2>1. PICK unsent \in SUBSET Approvers :
          req' = [a \in Approvers |-> IF a \in unsent THEN Idle ELSE req[a]]
    BY <1>11 DEF Restart
  <2> QED
    BY <1>11, <2>1 DEF Restart, Idle
<1> QED
  BY <1>2, <1>3, <1>4, <1>5, <1>6, <1>7, <1>8, <1>9, <1>10, <1>11 DEF Next, Apply

\* Every step pays for a preview with a turn.
LEMMA NextPreviewInv == TypeOK /\ PreviewInv /\ [Next]_vars => PreviewInv'
<1> SUFFICES ASSUME TypeOK, PreviewInv, [Next]_vars PROVE PreviewInv'
  OBVIOUS
<1> USE ChatAssumption DEF PreviewInv, TypeOK
<1>1. ASSUME UNCHANGED <<turnPreviews, sessionPreviews, begun, previews>>,
             \A t \in Turns : turn'[t] = "llm" => turn[t] = "llm",
             turn' \in [Turns -> {"idle", "llm"}]
      PROVE  PreviewInv'
  BY <1>1
<1>2. CASE UNCHANGED vars
  BY <1>2 DEF vars
<1>3. ASSUME NEW t \in Turns, Chat(t) PROVE PreviewInv'
  BY <1>3 DEF Chat
<1>4. ASSUME NEW t \in Turns, GatePreview(t) PROVE PreviewInv'
  BY <1>4 DEF GatePreview, PreviewAllowed
<1>5. ASSUME NEW t \in Turns, \E args \in Args : GateMutation(t, args) PROVE PreviewInv'
  BY <1>1, <1>5 DEF GateMutation, seenVars
<1>6. ASSUME NEW t \in Turns, Answered(t) \/ TurnError(t) PROVE PreviewInv'
  BY <1>1, <1>6 DEF Answered, TurnError, gateVars, seenVars
<1>7. ASSUME NEW a \in Approvers,
             Apply(a) \/ ApplyError(a) \/ PutError(a) \/ \E v \in shown : Approve(a, v)
      PROVE  PreviewInv'
  BY <1>1, <1>7 DEF Apply, ProposeEntry, PutRead, PutTruncate, PutWrite, ApplyError, PutError,
                    Approve, gateVars, seenVars
<1>8. CASE ApiCrash
  BY <1>1, <1>8 DEF ApiCrash, gateVars, seenVars
<1>9. CASE Restart
  BY <1>9 DEF Restart
<1> QED
  BY <1>2, <1>3, <1>4, <1>5, <1>6, <1>7, <1>8, <1>9 DEF Next, Turn, TurnEnd, Timeout
-----------------------------------------------------------------------------
(* What the service promises. *)

IInv == TypeOK /\ ApprovalInv /\ FileInv /\ PreviewInv

\* The inductive invariant holds in every behaviour.
LEMMA SpecIInv == Spec => []IInv
<1>1. Init => IInv
  <2> SUFFICES ASSUME Init PROVE IInv
    OBVIOUS
  <2>1. ApprovalInv
    BY DEF Init, ApprovalInv, IdsAreIssued, IdsAreStable, InOnePlace, Approved, Active, Idle
  <2>2. FileInv
    BY DEF Init, FileInv, FileStaysValid, Idle
  <2>3. PreviewInv
    BY DEF Init, PreviewInv
  <2> QED
    BY <2>1, <2>2, <2>3, InitTypeOK DEF IInv
<1>2. IInv /\ [Next]_vars => IInv'
  BY NextTypeOK, NextApprovalInv, NextFileInv, NextPreviewInv DEF IInv, ApprovalInv
<1> QED
  BY <1>1, <1>2, PTL DEF Spec

(***************************************************************************)
(* Gate state, requests, file and log keep their types through restarts of *)
(* the service and crashes of the API.                                     *)
(***************************************************************************)
THEOREM TypeCorrect == Spec => []TypeOK
<1>1. IInv => TypeOK
  BY DEF IInv
<1> QED
  BY <1>1, SpecIInv, PTL

(***************************************************************************)
(* Nothing reaches a spec or the kb but for an approval under its id,      *)
(* whatever the model calls and however requests overlap (gate.mjs).       *)
(***************************************************************************)
THEOREM NothingIsUnapproved == Spec => []NothingUnapproved
<1>1. IInv => NothingUnapproved
  BY DEF IInv, ApprovalInv, Approved, ApprovedAs, NothingUnapproved, NoProp, Proposal
<1> QED
  BY <1>1, SpecIInv, PTL

(***************************************************************************)
(* A proposal is applied at most once, for any number of approvals in      *)
(* flight: takePending removes it before the first await (server.mjs).     *)
(***************************************************************************)
THEOREM AppliesOnce == Spec => []AppliedOnce
<1>1. IInv => AppliedOnce
  BY DEF IInv, ApprovalInv, Approved, AppliedOnce
<1> QED
  BY <1>1, SpecIInv, PTL

(***************************************************************************)
(* What is applied is what was shown under that id in the same life of the *)
(* service: the ids of gate.mjs are stable.                                *)
(***************************************************************************)
THEOREM AppliesWhatWasShown == Spec => []ShownIsApplied
<1>1. IInv => ShownIsApplied
  BY DEF IInv, ApprovalInv, Approved, ApprovedAs, ShownIsApplied
<1> QED
  BY <1>1, SpecIInv, PTL

(***************************************************************************)
(* The previews of one life are within its turns and within the ceiling,   *)
(* although overlapping turns share and reset one counter (gate.mjs).      *)
(***************************************************************************)
THEOREM PreviewsAreBounded == Spec => []PreviewBudget
<1>1. IInv => PreviewBudget
  BY ChatAssumption DEF IInv, TypeOK, PreviewInv, PreviewBudget
<1> QED
  BY <1>1, SpecIInv, PTL

(***************************************************************************)
(* No edit that docspec.Parse refuses is ever in the spec file, for any    *)
(* number of puts interleaved or cut short (handleDocSpecPut).             *)
(***************************************************************************)
THEOREM FileIsValid == Spec => []FileStaysValid
<1>1. IInv => FileStaysValid
  BY DEF IInv, FileInv
<1> QED
  BY <1>1, SpecIInv, PTL
=============================================================================
