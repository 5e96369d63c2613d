------------------------------ MODULE SpecChat ------------------------------
(***************************************************************************)
(* The spec-chat agent service and the curator API it drives: chat turns   *)
(* in which a model calls tools behind a gate, proposals held for a human, *)
(* POST /approve, and the API's doc-spec put and kb propose-entry.         *)
(* (agent-service/src gate.mjs, agent.mjs, server.mjs, curatorClient.mjs;  *)
(* adapters/curatorapi; docspec/docedit; specchat.)                        *)
(*                                                                         *)
(* JavaScript runs to the next await, so gate, beginTurn and takePending   *)
(* are atomic; turns and approvals interleave at awaits.  The API serves   *)
(* requests concurrently and takes no lock on the spec file.  Read tools,  *)
(* blocked previews and requests refused with 400, 404 or 409 change       *)
(* nothing and have no action.                                             *)
(***************************************************************************)
EXTENDS Naturals, FiniteSets

CONSTANTS Turns,      \* /chat requests that may be in flight at once
          Approvers,  \* /approve requests that may be in flight at once
          Ceiling,    \* perSessionCeiling
          MaxProps,   \* bound: proposals in the first life of the service,
                      \* one fewer in each later life
          MaxTurns,   \* bound: chat turns, likewise
          MaxEpochs,  \* bound: lives of the service
          MaxFaults   \* bound: failing calls and API crashes

ASSUME ChatAssumption ==
    /\ Ceiling \in Nat
    /\ MaxProps \in Nat
    /\ MaxTurns \in Nat
    /\ MaxEpochs \in Nat \ {0}
    /\ MaxFaults \in Nat

VARIABLES epoch,                            \* lives of the agent service so far
          seq, pending,                     \* gate state: ids, held proposals
          turnPreviews, sessionPreviews,    \* gate state: preview counters
          turn,                             \* the chat turns
          req,                              \* the /approve requests being applied
          file,                             \* the doc-spec file
          begun, previews,                  \* turns and previews of this life
          shown, log,                       \* what humans saw; what was applied in this life
          faults

gateVars == <<seq, pending, turnPreviews, sessionPreviews>>
seenVars == <<begun, previews, shown, log>>
vars     == <<epoch, seq, pending, turnPreviews, sessionPreviews, turn, req, file,
              begun, previews, shown, log, faults>>

\* What a mutation tool asks for: an edit of the spec, one that leaves the
\* spec invalid, or a kb entry.
Args     == {"edit", "invalid", "entry"}
Proposal == [epoch : 1..MaxEpochs, id : 1..MaxProps, args : Args]
NoProp   == [epoch |-> 1, id |-> 0, args |-> "edit"]

\* The file: the edits it has, and whether its text is one that a put wrote in
\* full, nothing, or a part of one or two such texts.
File == [edits : SUBSET Proposal, text : {"whole", "empty", "mixed"}]

\* A request applies prop, which it took for view; base is the file as read.
Request == [pc : {"idle", "apply", "write", "flush"}, prop : Proposal \cup {NoProp},
            view : Proposal \cup {NoProp}, base : SUBSET Proposal]

Idle == [pc |-> "idle", prop |-> NoProp, view |-> NoProp, base |-> {}]

TypeOK ==
    /\ epoch \in 1..MaxEpochs
    /\ seq \in 0..MaxProps
    /\ pending \subseteq Proposal
    /\ turnPreviews \in 0..Ceiling
    /\ sessionPreviews \in 0..Ceiling
    /\ turn \in [Turns -> {"idle", "llm"}]
    /\ req \in [Approvers -> Request]
    /\ \A a \in Approvers :
          req[a].pc # "idle" => req[a].prop \in Proposal /\ req[a].view \in Proposal
    /\ file \in File
    /\ begun \in 0..MaxTurns
    /\ previews \in Nat
    /\ shown \subseteq Proposal
    /\ log \subseteq [prop : Proposal, view : Proposal \cup {NoProp}, nth : Nat]
    /\ faults \in 0..MaxFaults

Init ==
    /\ epoch = 1
    /\ seq = 0
    /\ pending = {}
    /\ turnPreviews = 0
    /\ sessionPreviews = 0
    /\ turn = [t \in Turns |-> "idle"]
    /\ req = [a \in Approvers |-> Idle]
    /\ file = [edits |-> {}, text |-> "whole"]
    /\ begun = 0
    /\ previews = 0
    /\ shown = {}
    /\ log = {}
    /\ faults = 0

Fault ==
    /\ faults < MaxFaults
    /\ faults' = faults + 1

NoFault == UNCHANGED faults
-----------------------------------------------------------------------------
(* runTurn and the gate. *)

\* POST /chat up to beginTurn, which resets the counter all turns share.
Chat(t) ==
    /\ turn[t] = "idle"
    /\ begun + epoch <= MaxTurns
    /\ turn' = [turn EXCEPT ![t] = "llm"]
    /\ begun' = begun + 1
    /\ turnPreviews' = 0
    /\ UNCHANGED <<epoch, seq, pending, sessionPreviews, req, file, previews, shown, log, faults>>

\* Mutant: an id is a position in the list of held proposals.
IdOfPosition == Cardinality(pending) + 1

\* The id of a new proposal.
NewId == seq + 1

\* Mutant: the tool runs when the model calls it.
ToolRuns(t, args) ==
    /\ turn[t] = "llm"
    /\ seq + epoch <= MaxProps
    /\ seq' = seq + 1
    /\ log' = log \cup {[prop |-> [epoch |-> epoch, id |-> seq', args |-> args],
                         view |-> NoProp, nth |-> 1]}
    /\ UNCHANGED <<epoch, pending, turnPreviews, sessionPreviews, turn, req, file, begun,
                   previews, shown, faults>>

\* The model calls put_doc_spec or propose_kb_entry: blocked and recorded.
GateMutation(t, args) ==
    /\ turn[t] = "llm"
    /\ seq + epoch <= MaxProps
    /\ seq' = seq + 1
    /\ pending' = pending \cup {[epoch |-> epoch, id |-> NewId, args |-> args]}
    /\ UNCHANGED <<epoch, turnPreviews, sessionPreviews, turn, req, file, seenVars, faults>>

\* Mutant: previews of a turn are not counted.
PreviewAllowedAgain == sessionPreviews < Ceiling

PreviewAllowed == turnPreviews < 1 /\ sessionPreviews < Ceiling

\* The model calls preview_spec and the gate lets it through.
GatePreview(t) ==
    /\ turn[t] = "llm"
    /\ PreviewAllowed
    /\ turnPreviews' = turnPreviews + 1
    /\ sessionPreviews' = sessionPreviews + 1
    /\ previews' = previews + 1
    /\ UNCHANGED <<epoch, seq, pending, turn, req, file, begun, shown, log, faults>>

\* runTurn returns; its answer lists every held proposal.
Answered(t) ==
    /\ turn[t] = "llm"
    /\ turn' = [turn EXCEPT ![t] = "idle"]
    /\ shown' = shown \cup pending
    /\ NoFault
    /\ UNCHANGED <<epoch, gateVars, req, file, begun, previews, log>>

\* The model stops by itself.
TurnEnd(t) == Answered(t)

\* Mutant: no timer is set.
NoTimeout(t) == FALSE /\ Answered(t)

\* The timer aborts the session and prompt returns.
Timeout(t) == Answered(t)

\* session.prompt throws: 502, without the list.
TurnError(t) ==
    /\ turn[t] = "llm"
    /\ turn' = [turn EXCEPT ![t] = "idle"]
    /\ Fault
    /\ UNCHANGED <<epoch, gateVars, req, file, seenVars>>
-----------------------------------------------------------------------------
(* POST /approve *)

\* Mutant: a proposal stays in the list while it is applied.
LeavePending(p) == pending

\* takePending removes the proposal before it is applied.
TakePending(p) == pending \ {p}

\* A human approves v, which a page showed; the service looks up its id.
Approve(a, v) ==
    /\ req[a].pc = "idle"
    /\ \E p \in pending :
         /\ p.id = v.id
         /\ pending' = TakePending(p)
         /\ req' = [req EXCEPT ![a] = [pc |-> "apply", prop |-> p, view |-> v, base |-> {}]]
    /\ UNCHANGED <<epoch, seq, turnPreviews, sessionPreviews, turn, file, begun, previews,
                   shown, log, faults>>

Done(a) == req' = [req EXCEPT ![a] = Idle]

\* An entry of the log: what was applied for which approval, the nth time.
Logged(a) ==
    LET n == Cardinality({e \in log : e.prop = req[a].prop})
    IN  log' = log \cup {[prop |-> req[a].prop, view |-> req[a].view, nth |-> n + 1]}

\* The API cannot be reached or refuses: 502, and the proposal is gone.
ApplyError(a) ==
    /\ req[a].pc = "apply"
    /\ Done(a)
    /\ Fault
    /\ UNCHANGED <<epoch, gateVars, turn, file, seenVars>>

\* handleProposeEntry: the kb writer adds the entry; its answer may be lost.
ProposeEntry(a) ==
    /\ req[a].pc = "apply"
    /\ req[a].prop.args = "entry"
    /\ Logged(a)
    /\ Done(a)
    /\ NoFault
    /\ UNCHANGED <<epoch, gateVars, turn, file, begun, previews, shown>>
-----------------------------------------------------------------------------
(* handleDocSpecPut *)

\* Mutant: the edited text is not parsed again.
RejectsNothing(args) == FALSE

\* docspec.Parse of the edited text.
Rejects(args) == args = "invalid"

\* Read and edit.  docedit.Parse refuses an empty file and may refuse a mixed
\* one, applyEdits or docspec.Parse refuse what would become invalid.
PutRead(a) ==
    /\ req[a].pc = "apply"
    /\ req[a].prop.args # "entry"
    /\ \/ /\ file.text # "empty"
          /\ ~Rejects(req[a].prop.args)
          /\ req' = [req EXCEPT ![a].pc = "write", ![a].base = file.edits]
       \/ /\ file.text # "whole" \/ Rejects(req[a].prop.args)
          /\ Done(a)
    /\ NoFault
    /\ UNCHANGED <<epoch, gateVars, turn, file, seenVars>>

\* os.WriteFile truncates the file ...
PutTruncate(a) ==
    /\ req[a].pc = "write"
    /\ file' = [edits |-> {}, text |-> "empty"]
    /\ req' = [req EXCEPT ![a].pc = "flush"]
    /\ UNCHANGED <<epoch, gateVars, turn, seenVars, faults>>

Text(a, t) == [edits |-> req[a].base \cup {req[a].prop}, text |-> t]

(***************************************************************************)
(* ... and writes from offset 0.  If another put wrote the file since, its *)
(* text may be the longer one and show after the end of this one.          *)
(***************************************************************************)
PutWrite(a) ==
    /\ req[a].pc = "flush"
    /\ file' = Text(a, "whole") \/ (file.text # "empty" /\ file' = Text(a, "mixed"))
    /\ Logged(a)
    /\ Done(a)
    /\ NoFault
    /\ UNCHANGED <<epoch, gateVars, turn, begun, previews, shown>>

\* The file after a write that was not finished.
Interrupted(a) == UNCHANGED file \/ (req[a].pc = "flush" /\ file' = Text(a, "mixed"))

\* os.WriteFile fails at the open or during the write: 500, nothing is undone.
PutError(a) ==
    /\ req[a].pc \in {"write", "flush"}
    /\ Interrupted(a)
    /\ Done(a)
    /\ Fault
    /\ UNCHANGED <<epoch, gateVars, turn, seenVars>>

\* The API dies; what it was writing stays as it is.
ApiCrash ==
    /\ \E a \in Approvers : req[a].pc \in {"write", "flush"} /\ Interrupted(a)
    /\ req' = [a \in Approvers |-> Idle]
    /\ Fault
    /\ UNCHANGED <<epoch, gateVars, turn, seenVars>>

(***************************************************************************)
(* The agent service starts anew: gate state, turns and proposals are      *)
(* gone, ids start over.  The API finishes the requests it received.       *)
(***************************************************************************)
Restart ==
    /\ epoch < MaxEpochs
    /\ epoch' = epoch + 1
    /\ seq' = 0
    /\ pending' = {}
    /\ turnPreviews' = 0
    /\ sessionPreviews' = 0
    /\ begun' = 0
    /\ previews' = 0
    /\ turn' = [t \in Turns |-> "idle"]
    /\ \E unsent \in SUBSET {a \in Approvers : req[a].pc = "apply"} :
          req' = [a \in Approvers |-> IF a \in unsent THEN Idle ELSE req[a]]
    /\ log' = {}
    /\ UNCHANGED <<file, shown, faults>>

Turn(t) ==
    \/ Chat(t) \/ GatePreview(t) \/ TurnEnd(t) \/ Timeout(t) \/ TurnError(t)
    \/ \E args \in Args : GateMutation(t, args)

Apply(a) == ProposeEntry(a) \/ PutRead(a) \/ PutTruncate(a) \/ PutWrite(a)

Next ==
    \/ \E t \in Turns : Turn(t)
    \/ \E a \in Approvers : Apply(a) \/ ApplyError(a) \/ PutError(a)
    \/ \E a \in Approvers : \E v \in shown : Approve(a, v)
    \/ ApiCrash \/ Restart

Spec == Init /\ [][Next]_vars

(***************************************************************************)
(* The timer of a turn fires and the API answers; nothing makes the model  *)
(* stop, a human approve or a service restart.                             *)
(***************************************************************************)
FairSpec ==
    /\ Spec
    /\ \A t \in Turns : WF_vars(Timeout(t))
    /\ \A a \in Approvers : WF_vars(Apply(a))
-----------------------------------------------------------------------------
(***************************************************************************)
(* Nothing is written to a spec or to the kb unless a human approved a     *)
(* proposal under that id ("They are HARD HITL and are NEVER applied       *)
(* through the LLM").                                                      *)
(***************************************************************************)
NothingUnapproved ==
    \A e \in log : e.view # NoProp /\ e.view.id = e.prop.id

(***************************************************************************)
(* A proposal is applied at most once, also when two approvals of it are   *)
(* in flight together or one of them fails half way.                       *)
(***************************************************************************)
AppliedOnce == \A e \in log : e.nth = 1

(***************************************************************************)
(* What is applied is what the human saw under that id, as long as the     *)
(* service that showed it is still running: ids are stable while proposals *)
(* are taken, fail and come anew.                                          *)
(***************************************************************************)
ShownIsApplied ==
    \A e \in log : e.view.epoch = e.prop.epoch => e.view = e.prop

(***************************************************************************)
(* The paid previews of one life of the service are no more than its turns *)
(* and no more than the ceiling, however turns overlap.                    *)
(***************************************************************************)
PreviewBudget == previews <= begun /\ previews <= Ceiling

(***************************************************************************)
(* No edit that docspec.Parse refuses gets into the spec file: a curator   *)
(* run that pulls it would fail, in whatever order puts are interleaved.   *)
(***************************************************************************)
FileStaysValid == \A p \in file.edits : p.args = "edit"

(***************************************************************************)
(* Every chat turn is answered although the model may never stop calling   *)
(* tools.                                                                  *)
(***************************************************************************)
TurnsEnd == \A t \in Turns : (turn[t] = "llm") ~> (turn[t] = "idle")
=============================================================================
