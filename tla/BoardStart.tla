------------------------------ MODULE BoardStart ------------------------------
(***************************************************************************)
(* From a discovery candidate to a board session: promote and start-board  *)
(* (server/discovery/promotion.py, board_start.py).  Every command reads   *)
(* the candidate's file, works on its own copy and writes the file whole   *)
(* (lifecycle/store.py), start-board once before and once after the board  *)
(* deliberates; commands run at the same time and die where they like.     *)
(***************************************************************************)
EXTENDS Integers, FiniteSets

CONSTANTS
  Command,      \* processes of the command line
  Venture,      \* names of ventures
  MaxCommands   \* bound: commands begun; the nth writes packet n or session n

ASSUME BoardStartAssumption == MaxCommands \in Nat /\ Venture # {}

VARIABLES
  candidate,    \* the candidate's file
  ventures,     \* the table ventures: those that exist
  evidence,     \* evidence packets written
  held,         \* the sessions the board held: file and ledger row
  command,      \* what each process is doing, with its copy
  stale,        \* commands whose copy is older than the file
  commands      \* commands begun

startVars == <<candidate, ventures, evidence, held, command, stale, commands>>

Nth == 1..MaxCommands
Promotion == [venture : Venture, packet : Nth]
Candidate ==
  [status : {"ready_for_board", "reviewed"}, reject : BOOLEAN,
   validation : {"not_selected", "queued", "validating"},
   promotion : {{}} \cup {{p} : p \in Promotion},
   board_sessions : [Nth -> {"none", "starting", "completed", "failed"}]]
(* recorded: the ledger has a row of the session; ledger: its provenance.  *)
SessionRow ==
  [status : {"none", "completed", "failed"}, saved : SUBSET Promotion,
   recorded : BOOLEAN, ledger : SUBSET Promotion]
NoSession == [status |-> "none", saved |-> {}, recorded |-> FALSE, ledger |-> {}]

StartTypeOK ==
  /\ candidate \in Candidate /\ ventures \subseteq Venture /\ evidence \subseteq Nth
  /\ held \in [Nth -> SessionRow]
  /\ command \in [Command -> [pc : {"idle", "promote", "packet", "promoted", "start", "deliberate",
                                    "save", "record", "finish", "decide"},
                              n : 0..MaxCommands, copy : Candidate, venture : Venture, again : BOOLEAN]]
  /\ stale \subseteq Command /\ commands \in 0..MaxCommands

NoCommand == [pc |-> "idle", n |-> 0, copy |-> candidate, venture |-> CHOOSE v \in Venture : TRUE,
              again |-> FALSE]

StartInit ==
  /\ candidate \in {c \in Candidate :
       /\ c.promotion = {} /\ c.validation = "not_selected"
       /\ \A n \in Nth : c.board_sessions[n] = "none"
       /\ c.reject => c.status = "reviewed"}
  /\ ventures = {CHOOSE v \in Venture : TRUE} /\ evidence = {}
  /\ held = [n \in Nth |-> NoSession]
  /\ command = [c \in Command |-> NoCommand] /\ stale = {} /\ commands = 0

At(c, pc) == command[c].pc = pc
StepsTo(c, pc) == command' = [command EXCEPT ![c].pc = pc]

(* CandidateStore.get. *)
Reads(c) ==
  /\ At(c, "idle") /\ commands < MaxCommands /\ commands' = commands + 1
  /\ \E pc \in {"promote", "start", "decide"}, again \in BOOLEAN :
       command' = [command EXCEPT ![c] =
         [NoCommand EXCEPT !.pc = pc, !.n = commands', !.again = again]]
  /\ stale' = stale \ {c}
  /\ UNCHANGED <<candidate, ventures, evidence, held>>

(* An error, a refusal, what a retry finds done, or the end of the process. *)
Ends(c) == command' = [command EXCEPT ![c] = [NoCommand EXCEPT !.copy = candidate']]
GivesUp(c) ==
  /\ ~At(c, "idle") /\ UNCHANGED candidate /\ Ends(c)
  /\ stale' = stale \ {c}
  /\ UNCHANGED <<ventures, evidence, held, commands>>

(* CandidateStore.save: the copy replaces the file, in one rename. *)
Saves(c, copy) ==
  /\ candidate' = copy
  /\ stale' = {d \in Command \ {c} : ~At(d, "idle")}

-----------------------------------------------------------------------------
(* promote_candidate: an existing venture, or a new one by a name that is  *)
(* not taken.                                                              *)
ChoosesVenture(c) ==
  /\ At(c, "promote") /\ ~command[c].copy.reject /\ command[c].copy.promotion = {}
  /\ \E v \in Venture :
       /\ ventures' = ventures \cup {v}
       /\ command' = [command EXCEPT ![c].pc = "packet", ![c].venture = v]
  /\ UNCHANGED <<candidate, evidence, held, stale, commands>>

create_evidence_packet(c) ==
  /\ At(c, "packet") /\ evidence' = evidence \cup {command[c].n} /\ StepsTo(c, "promoted")
  /\ UNCHANGED <<candidate, ventures, held, stale, commands>>

SavesPromotion(c) ==
  /\ At(c, "promoted")
  /\ Saves(c, [command[c].copy EXCEPT
       !.promotion = {[venture |-> command[c].venture, packet |-> command[c].n]},
       !.status = "reviewed", !.reject = FALSE, !.validation = "queued"])
  /\ Ends(c)
  /\ UNCHANGED <<ventures, evidence, held, commands>>

(* shortlist, dispose, restore. *)
_cmd_decide(c) ==
  /\ At(c, "decide")
  /\ \E status \in {"ready_for_board", command[c].copy.status} :
       Saves(c, [command[c].copy EXCEPT !.status = status])
  /\ Ends(c)
  /\ UNCHANGED <<ventures, evidence, held, commands>>

-----------------------------------------------------------------------------
Completed(copy) == {n \in Nth : copy.board_sessions[n] = "completed"}
Attempt(c, status) == [command[c].copy EXCEPT !.board_sessions[command[c].n] = status]

(* start_board writes its attempt down before it asks the board.           *)
SavesAttempt(c) ==
  /\ At(c, "start")
  /\ command[c].copy.status = "reviewed" /\ command[c].copy.promotion # {}
  /\ command[c].again \/ Completed(command[c].copy) = {}
  /\ Saves(c, Attempt(c, "starting"))
  /\ command' = [command EXCEPT ![c].pc = "deliberate", ![c].copy = candidate']
  /\ UNCHANGED <<ventures, evidence, held, commands>>

(* The board saves the session, without provenance, and inserts its row    *)
(* into the ledger; an insert that fails is logged and the session stands. *)
Deliberates(c) ==
  /\ At(c, "deliberate") /\ StepsTo(c, "save")
  /\ \E status \in {"completed", "failed"}, recorded \in BOOLEAN :
       held' = [held EXCEPT ![command[c].n] =
                  [NoSession EXCEPT !.status = status, !.recorded = recorded]]
  /\ UNCHANGED <<candidate, ventures, evidence, stale, commands>>

SavesSession(c) ==
  /\ At(c, "save") /\ StepsTo(c, "record")
  /\ held' = [held EXCEPT ![command[c].n].saved = command[c].copy.promotion]
  /\ UNCHANGED <<candidate, ventures, evidence, stale, commands>>

(* An UPDATE ... WHERE session_id: without a row it changes nothing, and   *)
(* nobody is told.                                                         *)
record_discovery_provenance(c) ==
  /\ At(c, "record") /\ StepsTo(c, "finish")
  /\ held' = [held EXCEPT ![command[c].n].ledger = IF held[command[c].n].recorded
                                                  THEN command[c].copy.promotion ELSE @]
  /\ UNCHANGED <<candidate, ventures, evidence, stale, commands>>

SavesCompleted(c) ==
  /\ At(c, "finish") /\ held[command[c].n].status = "completed"
  /\ Saves(c, [Attempt(c, "completed") EXCEPT !.validation = "validating"])
  /\ Ends(c)
  /\ UNCHANGED <<ventures, evidence, held, commands>>

(* Whatever is raised, an interrupt included, fails the attempt. *)
SavesFailed(c) ==
  /\ command[c].pc \in {"deliberate", "save", "record", "finish"}
  /\ At(c, "finish") => held[command[c].n].status = "failed"
  /\ Saves(c, Attempt(c, "failed")) /\ Ends(c)
  /\ UNCHANGED <<ventures, evidence, held, commands>>

StartNext ==
  \E c \in Command :
    \/ Reads(c) \/ GivesUp(c) \/ _cmd_decide(c)
    \/ ChoosesVenture(c) \/ create_evidence_packet(c) \/ SavesPromotion(c)
    \/ SavesAttempt(c) \/ Deliberates(c) \/ SavesSession(c) \/ record_discovery_provenance(c)
    \/ SavesCompleted(c) \/ SavesFailed(c)

-----------------------------------------------------------------------------
(* A promotion names a venture and a packet that exist, and so does what a *)
(* session says it was started from; a completed attempt has a session     *)
(* whose file names its promotion, and so does its row of the ledger,      *)
(* unless the ledger never got one.                                        *)
StartGrounded ==
  /\ \A p \in candidate.promotion \cup UNION {held[n].saved : n \in Nth} :
       p.venture \in ventures /\ p.packet \in evidence
  /\ \A n \in Completed(candidate) :
       /\ held[n].status = "completed" /\ held[n].saved # {}
       /\ held[n].ledger = (IF held[n].recorded THEN held[n].saved ELSE {})

(* Only a command that read the file before another wrote it replaces a    *)
(* promotion, forgets an attempt or undoes one that ended, or completes a  *)
(* session beside another without having been asked for a new one          *)
(* ("returning an existing one on retry").                                 *)
StartKept ==
  candidate' # candidate =>
    \/ \E c \in stale : ~At(c, "idle") /\ c \notin stale' /\ command'[c] # command[c]
    \/ /\ candidate.promotion \subseteq candidate'.promotion
       /\ \A n \in Nth :
            candidate'.board_sessions[n] # candidate.board_sessions[n] =>
              candidate.board_sessions[n] \in {"none", "starting"}
              /\ candidate'.board_sessions[n] # "none"
       /\ \A c \in Command :
            At(c, "finish") /\ Completed(candidate') # Completed(candidate)
            /\ command'[c].pc = "idle" => command[c].again \/ Completed(candidate) = {}
=============================================================================
