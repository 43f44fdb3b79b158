----------------------------- MODULE Initiatives -----------------------------
(***************************************************************************)
(* One initiative and its closeout (server/initiatives/store.py).  API     *)
(* worker threads and the command line use SQLite at the same time; every  *)
(* function opens a connection for each thing it does, and every           *)
(* connection first brings the schema up to date.  A statement outside a   *)
(* transaction is committed at once; a process may die after any of them.  *)
(***************************************************************************)
EXTENDS Integers, FiniteSets

CONSTANTS
  Writer,      \* threads and processes
  Source,     \* what an initiative may be created from
  MaxBegun     \* bound: operations begun

ASSUME InitiativesAssumption == MaxBegun \in Nat \ {0} /\ Source # {}

VARIABLES
  initiative,  \* the row
  closeouts,   \* the table initiative_closeouts
  legacy,      \* the table a rebuild renames it to
  writer,      \* what each writer is doing
  last,        \* the newest closeout committed, a number; 0 none
  outdated,   \* writers whose copy is older than a closing
  begun

initiativeVars == <<initiative, closeouts, legacy, writer, last, outdated, begun>>

Status == {"none", "draft", "active", "closed"}
Initiative == [status : Status, source : Source]
Closeout == Nat
Op == {"create", "update", "activate", "close"}
Steps == {"schema", "recover", "check", "rename", "table", "copy", "run"}
NoOperation == [pc |-> "idle", op |-> "update", loaded |-> FALSE,
            copy |-> [status |-> "none", source |-> CHOOSE s \in Source : TRUE]]

InitiativesTypeOK ==
  /\ initiative \in Initiative /\ last \in Closeout /\ begun \in 0..MaxBegun
  /\ closeouts \in [exists : BOOLEAN, nullable : BOOLEAN, row : Closeout]
  /\ legacy \in [exists : BOOLEAN, row : Closeout]
  /\ writer \in [Writer -> [pc : Steps \cup {"idle"}, op : Op, loaded : BOOLEAN,
                            copy : Initiative]]
  /\ outdated \subseteq Writer

(* The database of an older release: retrospective_session_id NOT NULL. *)
InitiativesInit ==
  /\ \E s \in Source, closed \in BOOLEAN :
       /\ initiative = [status |-> IF closed THEN "closed" ELSE "none", source |-> s]
       /\ last = IF closed THEN 1 ELSE 0
  /\ closeouts = [exists |-> TRUE, nullable |-> FALSE, row |-> last]
  /\ legacy = [exists |-> FALSE, row |-> 0]
  /\ writer = [w \in Writer |-> NoOperation] /\ outdated = {} /\ begun = last

Proceeds(w, step) == writer' = [writer EXCEPT ![w].pc = step]
Done(w) == writer' = [writer EXCEPT ![w] = NoOperation]
WriterBegins(w) ==
  /\ writer[w].pc = "idle" /\ begun < MaxBegun /\ begun' = begun + 1
  /\ \E op \in Op, s \in Source :
       writer' = [writer EXCEPT ![w] =
         [pc |-> "schema", op |-> op, loaded |-> FALSE, copy |-> [status |-> "draft", source |-> s]]]
  /\ UNCHANGED <<initiative, closeouts, legacy, last, outdated>>

-----------------------------------------------------------------------------
(* _connect. *)
CreatesTables(w) ==
  /\ writer[w].pc = "schema" /\ Proceeds(w, "recover")
  /\ closeouts' = IF closeouts.exists THEN closeouts
                  ELSE [exists |-> TRUE, nullable |-> TRUE, row |-> 0]
  /\ UNCHANGED <<initiative, legacy, last, outdated, begun>>

(* Slip: the table is dropped before its rows are taken over. *)
RecoversTooLate(w) ==
  /\ writer[w].pc = "recover" /\ Proceeds(w, "check")
  /\ legacy' = [exists |-> FALSE, row |-> 0]
  /\ closeouts.exists /\ UNCHANGED closeouts
  /\ UNCHANGED <<initiative, last, outdated, begun>>

(* _recover_legacy_closeouts: INSERT OR IGNORE and DROP, one transaction. *)
Recovers(w) ==
  /\ writer[w].pc = "recover" /\ Proceeds(w, "check")
  /\ legacy.exists => closeouts.exists
  /\ closeouts' = IF closeouts.row = 0 THEN [closeouts EXCEPT !.row = legacy.row] ELSE closeouts
  /\ legacy' = [exists |-> FALSE, row |-> 0]
  /\ UNCHANGED <<initiative, last, outdated, begun>>

ChecksColumn(w) ==
  /\ writer[w].pc = "check"
  /\ Proceeds(w, IF closeouts.exists /\ ~closeouts.nullable THEN "rename" ELSE "run")
  /\ UNCHANGED <<initiative, closeouts, legacy, last, outdated, begun>>

(* _rebuild_closeouts_with_nullable_retrospective, statement by statement. *)
Renames(w) ==
  /\ writer[w].pc = "rename" /\ Proceeds(w, "table")
  /\ closeouts.exists /\ ~legacy.exists
  /\ legacy' = [exists |-> TRUE, row |-> closeouts.row]
  /\ closeouts' = [exists |-> FALSE, nullable |-> FALSE, row |-> 0]
  /\ UNCHANGED <<initiative, last, outdated, begun>>

CreatesNullable(w) ==
  /\ writer[w].pc = "table" /\ Proceeds(w, "copy")
  /\ ~closeouts.exists
  /\ closeouts' = [exists |-> TRUE, nullable |-> TRUE, row |-> 0]
  /\ UNCHANGED <<initiative, legacy, last, outdated, begun>>

Copies(w) ==
  /\ writer[w].pc = "copy" /\ Proceeds(w, "run")
  /\ closeouts.exists /\ legacy.exists /\ 0 \in {closeouts.row, legacy.row}
  /\ closeouts' = [closeouts EXCEPT !.row = @ + legacy.row]
  /\ legacy' = [exists |-> FALSE, row |-> 0]
  /\ UNCHANGED <<initiative, last, outdated, begun>>

-----------------------------------------------------------------------------
(* create_initiative: the id may exist; the insert fails if it came up     *)
(* since.                                                                  *)
FindsAbsent(w) ==
  /\ writer[w].pc = "run" /\ writer[w].op = "create" /\ ~writer[w].loaded
  /\ initiative.status = "none"
  /\ writer' = [writer EXCEPT ![w].loaded = TRUE]
  /\ UNCHANGED <<initiative, closeouts, legacy, last, outdated, begun>>

Inserts(w) ==
  /\ writer[w].pc = "run" /\ writer[w].op = "create" /\ writer[w].loaded
  /\ initiative.status = "none"
  /\ initiative' = writer[w].copy /\ Done(w)
  /\ UNCHANGED <<closeouts, legacy, last, outdated, begun>>

(* _load_required and _reject_closed, then a connection to save with. *)
Loads(w) ==
  /\ writer[w].pc = "run" /\ writer[w].op # "create" /\ ~writer[w].loaded
  /\ initiative.status \notin {"none", "closed"} /\ closeouts.exists
  /\ writer' = [writer EXCEPT ![w].pc = "schema", ![w].loaded = TRUE, ![w].copy = initiative]
  /\ outdated' = outdated \ {w}
  /\ UNCHANGED <<initiative, closeouts, legacy, last, begun>>

(* update_initiative and activate_initiative save the whole row. *)
_save_initiative(w) ==
  /\ writer[w].pc = "run" /\ writer[w].op \in {"update", "activate"} /\ writer[w].loaded
  /\ initiative' = IF writer[w].op = "activate" THEN [writer[w].copy EXCEPT !.status = "active"]
                   ELSE writer[w].copy
  /\ Done(w)
  /\ UNCHANGED <<closeouts, legacy, last, outdated, begun>>

(* close_initiative: the row and the closeout, one transaction. *)
close_initiative(w) ==
  /\ writer[w].pc = "run" /\ writer[w].op = "close" /\ writer[w].loaded /\ closeouts.exists
  /\ initiative' = [writer[w].copy EXCEPT !.status = "closed"]
  /\ last' = last + 1 /\ closeouts' = [closeouts EXCEPT !.row = last']
  /\ outdated' = {v \in Writer \ {w} : writer[v].loaded}
  /\ Done(w)
  /\ UNCHANGED <<legacy, begun>>

(* An exception, a refusal, an answer, or the end of the process. *)
Stops(w) ==
  /\ writer[w].pc # "idle" /\ Done(w)
  /\ UNCHANGED <<initiative, closeouts, legacy, last, outdated, begun>>

InitiativesNext ==
  \E w \in Writer :
    \/ WriterBegins(w) \/ Stops(w)
    \/ CreatesTables(w) \/ Recovers(w) \/ ChecksColumn(w)
    \/ Renames(w) \/ CreatesNullable(w) \/ Copies(w)
    \/ FindsAbsent(w) \/ Inserts(w) \/ Loads(w) \/ _save_initiative(w) \/ close_initiative(w)

-----------------------------------------------------------------------------
(* The newest closeout is in the table, or waits in the legacy table for   *)
(* the next connection, whoever died in the middle of a rebuild.           *)
CloseoutKept ==
  /\ closeouts.row \in {0, last}
  /\ closeouts.row = 0 => legacy.row = last

(* A closed initiative is reopened, or its closeout replaced, only by a    *)
(* writer that loaded it before it was closed.                             *)
ClosedStays ==
  initiative.status = "closed" /\ (initiative'.status # "closed" \/ last' # last)
    => \E w \in outdated : writer[w].loaded /\ ~writer'[w].loaded
=============================================================================
