----------------------------- MODULE SotbMemory -----------------------------
(***************************************************************************)
(* The State of the Board of one venture: a markdown file that is the      *)
(* truth and a sidecar index of rows (server/memory).  Updates, reads,     *)
(* rollbacks and edits run in the API server's event loop, which they keep *)
(* between two awaits; a consolidation runs there too or in a command of   *)
(* its own, and either process may die between two writes.                 *)
(***************************************************************************)
EXTENDS Integers, Sequences, FiniteSets, Functions

CONSTANTS
  Entry,         \* bullets of one section that entries expire from
  Alike,         \* pairs <<new, old>> of entries whose words overlap
  Update,        \* what an update may bring: sequences of ids
  Edit,          \* what the founder may make of the markdown
  Life,          \* the section's expiry, in clock units
  MaxClock, MaxOps   \* bounds: time, and operations begun

Id == [text : Entry, section : {"live", "Resolved"}]

ASSUME MemoryAssumption ==
  /\ Alike \subseteq Entry \X Entry /\ Update \cup Edit \subseteq Seq(Id)
  /\ {Life, MaxClock, MaxOps} \subseteq Nat

VARIABLES
  md,      \* sotb.md: the ids of its bullets, in order
  index,   \* sotb_index.jsonl: {} until it is written, then {its rows}
  snaps,   \* sotb_snapshots
  clock,
  upd, con, rol,   \* the update, the consolidation and the rollback under way
  late,    \* operations others have overtaken since they read
  torn,    \* operations another process interrupted between two writes
  ops      \* operations begun

memoryVars == <<md, index, snaps, clock, upd, con, rol, late, torn, ops>>

Rows == CHOOSE rows \in index : TRUE
Never == MaxClock + Life + 1
DefaultRow(id) ==
  [id |-> id, until |-> IF id.section = "Resolved" THEN Never ELSE clock + Life]
Row == [id : Id, until : 0..Never]
SnapshotRow == [md : Seq(Id), index : Seq(Row)]
Expired(r) == r.until < clock
Ids(rows) == {rows[i].id : i \in DOMAIN rows}

(* What is at some places of a list, in the order of the list. *)
Picked(list, places) ==
  LET picked[i \in 0..Len(list)] ==
        IF i = 0 THEN <<>>
        ELSE IF i \in places THEN Append(picked[i - 1], list[i]) ELSE picked[i - 1]
  IN picked[Len(list)]

NoUpdate == [pc |-> "idle", rows |-> <<>>, md |-> <<>>]
NoConsolidation ==
  [pc |-> "idle", cli |-> FALSE, rows |-> <<>>, gone |-> {}, seen |-> {}, snap |-> 0]
NoRollback == [pc |-> "idle", snap |-> 0]

MemoryTypeOK ==
  /\ md \in Seq(Id) /\ (index # {} => index = {Rows} /\ Rows \in Seq(Row))
  /\ clock \in 0..MaxClock /\ snaps \in Seq(SnapshotRow)
  /\ upd \in [pc : {"idle", "judging", "md", "index"}, rows : Seq(Row), md : Seq(Id)]
  /\ con \in [pc : {"idle", "reading", "judging", "index"}, cli : BOOLEAN, rows : Seq(Row),
              gone : SUBSET Id, seen : SUBSET Id, snap : 0..Len(snaps)]
  /\ rol \in [pc : {"idle", "index"}, snap : 0..Len(snaps)]
  /\ rol.pc = "idle" <=> rol.snap = 0
  /\ late \subseteq {"update"} /\ torn \subseteq {"update", "consolidate", "rollback"}

MemoryInit ==
  /\ md \in Edit /\ index = {} /\ snaps = <<>> /\ clock = 0
  /\ upd = NoUpdate /\ con = NoConsolidation /\ rol = NoRollback
  /\ late = {} /\ torn = {} /\ ops = 0

(* One coroutine keeps the loop from its first write to its last.          *)
LoopFree ==
  /\ upd.pc \in {"idle", "judging"} /\ rol.pc = "idle"
  /\ con.cli \/ con.pc \in {"idle", "judging"}

OperationBegins == ops < MaxOps /\ ops' = ops + 1

(* Whoever writes overtakes an update that has read, and interrupts what   *)
(* the other process is in the middle of.                                  *)
Interrupted(cli) ==
  IF cli THEN (IF upd.pc \in {"md", "index"} THEN {"update"} ELSE {})
              \cup (IF rol.pc = "index" THEN {"rollback"} ELSE {})
         ELSE IF con.cli THEN {"consolidate"} ELSE {}
Writes(cli, op) ==
  /\ late' = late \cup ({"update"} \ {op})
  /\ torn' = (torn \ {op}) \cup Interrupted(cli)
Continues(cli, op) ==
  /\ late' = late \cup ({"update"} \ {op})
  /\ torn' = torn \cup Interrupted(cli)

(* The rows after a read: the index is made from the markdown if there is  *)
(* none, and otherwise gives up its orphans (unless the markdown says      *)
(* nothing at all) and gains a row for every bullet that has none.         *)
Bootstrapped == [i \in DOMAIN md |-> DefaultRow(md[i])]
Survivors ==
  IF md = <<>> THEN Rows ELSE Picked(Rows, {i \in DOMAIN Rows : Rows[i].id \in Range(md)})
Additions ==
  Picked(md, {i \in DOMAIN md : /\ md[i] \notin Ids(Survivors)
                                /\ \A j \in 1..(i - 1) : md[j] # md[i]})
read_sotb_index ==
  IF index = {} THEN Bootstrapped
  ELSE Survivors \o [i \in DOMAIN Additions |-> DefaultRow(Additions[i])]

(* A deliberation or the audit view reads the memory. *)
read_sotb_governed ==
  /\ index' = {read_sotb_index} /\ index' # index
  /\ UNCHANGED <<md, snaps, clock, upd, con, rol, late, torn, ops>>

(* Best effort: without the database the operation goes on unprotected.    *)
capture_snapshot(snap) ==
  \/ /\ snap = Len(snaps) + 1
     /\ snaps' = Append(snaps, [md |-> md, index |-> IF index = {} THEN <<>> ELSE Rows])
  \/ /\ snap = 0 /\ UNCHANGED snaps

-----------------------------------------------------------------------------
(* apply_sotb_update_governed.  The new entries are parsed and the index   *)
(* is read; the judge may then be awaited.                                 *)
ParsedRow(id, explicit) == IF explicit THEN [id |-> id, until |-> clock] ELSE DefaultRow(id)
UpdateReads ==
  /\ OperationBegins /\ upd.pc = "idle" /\ LoopFree
  /\ index' = {read_sotb_index}
  /\ \E new \in Update, explicit \in BOOLEAN :
       upd' = [pc |-> "judging", md |-> new,
               rows |-> read_sotb_index \o [i \in DOMAIN new |-> ParsedRow(new[i], explicit)]]
  /\ late' = late \ {"update"}
  /\ UNCHANGED <<md, snaps, clock, con, rol, torn>>

(* Bullets the markdown already has are not repeated. *)
_append_entries_to_md(text, new) ==
  text \o Picked(new, {i \in DOMAIN new : new[i] \notin Range(text)})

(* Slip: the markdown is patched as it was when the index was read. *)
UpdateStartsStale ==
  /\ upd.pc = "judging" /\ LoopFree
  /\ upd' = [upd EXCEPT !.pc = "md", !.md =
       [i \in DOMAIN upd.rows |-> upd.rows[i].id]]
  /\ \E snap \in {0, Len(snaps) + 1} : capture_snapshot(snap)
  /\ torn' = torn \ {"update"}
  /\ UNCHANGED <<md, index, clock, con, rol, late, ops>>

(* After the judge: the markdown as it is now is patched. *)
UpdateStarts ==
  /\ upd.pc = "judging" /\ LoopFree
  /\ upd' = [upd EXCEPT !.pc = "md", !.md = _append_entries_to_md(md, upd.md)]
  /\ \E snap \in {0, Len(snaps) + 1} : capture_snapshot(snap)
  /\ torn' = torn \ {"update"}
  /\ UNCHANGED <<md, index, clock, con, rol, late, ops>>

UpdateWritesMarkdown ==
  /\ upd.pc = "md" /\ md' = upd.md /\ upd' = [upd EXCEPT !.pc = "index"]
  /\ Continues(FALSE, "update")
  /\ UNCHANGED <<index, snaps, clock, con, rol, ops>>

UpdateWritesIndex ==
  /\ upd.pc = "index" /\ index' = {upd.rows} /\ upd' = NoUpdate
  /\ Continues(FALSE, "update")
  /\ UNCHANGED <<md, snaps, clock, con, rol, ops>>

-----------------------------------------------------------------------------
(* consolidate_sotb.                                                       *)
Retired(row) == [id |-> [row.id EXCEPT !.section = "Resolved"], until |-> row.until]

(* What becomes of a row among those kept of its section: it stays, it is  *)
(* merged into the first that overlaps, or, if the judge finds that they   *)
(* contradict, it retires that one.                                        *)
Sorted(acc, row, contradicts) ==
  LET hits == {i \in DOMAIN acc.kept : acc.kept[i].id.section = row.id.section
                                        /\ <<row.id.text, acc.kept[i].id.text>> \in Alike}
      first == CHOOSE i \in hits : \A j \in hits : i <= j
  IN IF hits = {} THEN [acc EXCEPT !.kept = Append(@, row)]
     ELSE IF contradicts /\ row.id.section = "live"
       THEN [kept |-> Append(Picked(acc.kept, DOMAIN acc.kept \ {first}), row),
             retired |-> Append(acc.retired, Retired(acc.kept[first]))]
     ELSE acc

Consolidated(rows, contradicting) ==
  LET sorted[i \in 0..Len(rows)] ==
        IF i = 0 THEN [kept |-> <<>>, retired |-> <<>>]
        ELSE Sorted(sorted[i - 1], rows[i], i \in contradicting)
      all == sorted[Len(rows)]
      In(section) == {i \in DOMAIN all.kept : all.kept[i].id.section = section}
  IN Picked(all.kept, In("live")) \o Picked(all.kept, In("Resolved")) \o all.retired

(* First a snapshot. *)
ConsolidateStarts(cli) ==
  /\ OperationBegins /\ con.pc = "idle" /\ (cli \/ LoopFree)
  /\ \E snap \in {0, Len(snaps) + 1} :
       /\ capture_snapshot(snap)
       /\ con' = [NoConsolidation EXCEPT !.pc = "reading", !.cli = cli, !.snap = snap]
  /\ torn' = torn \ {"consolidate"}
  /\ UNCHANGED <<md, index, clock, upd, rol, late>>

(* The reconciled rows, and the sweep of every id one of whose rows has    *)
(* expired.                                                                *)
ConsolidateReads ==
  /\ con.pc = "reading" /\ index' = {read_sotb_index}
  /\ LET read == read_sotb_index
         expired == {r.id : r \in {x \in Range(read) : Expired(x)}}
     IN con' = [con EXCEPT !.pc = "judging", !.gone = expired, !.seen = Range(md),
                           !.rows = Picked(read, {i \in DOMAIN read : read[i].id \notin expired})]
  /\ UNCHANGED <<md, snaps, clock, upd, rol, late, torn, ops>>

(* The command asks no judge (verify is off). *)
ConsolidateWritesMarkdown ==
  /\ con.pc = "judging" /\ (con.cli \/ LoopFree)
  /\ \E contradicting \in SUBSET DOMAIN con.rows :
       LET final == Consolidated(con.rows, contradicting)
       IN /\ con.cli => contradicting = {}
          /\ md' = [i \in DOMAIN final |-> final[i].id]
          /\ con' = [con EXCEPT !.pc = "index", !.rows = final]
  /\ IF con.cli THEN Continues(TRUE, "consolidate") ELSE Writes(FALSE, "consolidate")
  /\ UNCHANGED <<index, snaps, clock, upd, rol, ops>>

ConsolidateWritesIndex ==
  /\ con.pc = "index" /\ index' = {con.rows} /\ con' = NoConsolidation
  /\ Continues(con.cli, "consolidate")
  /\ UNCHANGED <<md, snaps, clock, upd, rol, ops>>

-----------------------------------------------------------------------------
(* rollback_to, file by file. *)
RollbackWritesMarkdown(snap) ==
  /\ OperationBegins /\ rol.pc = "idle" /\ LoopFree
  /\ md' = snaps[snap].md /\ rol' = [pc |-> "index", snap |-> snap]
  /\ Writes(FALSE, "rollback")
  /\ UNCHANGED <<index, snaps, clock, upd, con>>

RollbackWritesIndex ==
  /\ rol.pc = "index" /\ index' = {snaps[rol.snap].index} /\ rol' = NoRollback
  /\ Continues(FALSE, "rollback")
  /\ UNCHANGED <<md, snaps, clock, upd, con, ops>>

(* PUT /memory/sotb. *)
update_sotb ==
  /\ OperationBegins /\ LoopFree
  /\ md' \in Edit /\ md' # md
  /\ Continues(FALSE, "edit")
  /\ UNCHANGED <<index, snaps, clock, upd, con, rol>>

(* The server dies; a plain write may leave the markdown empty. *)
ServerDies ==
  /\ upd.pc # "idle" \/ rol.pc # "idle" \/ (con.pc # "idle" /\ ~con.cli)
  /\ \E emptied \in BOOLEAN :
       /\ md' = IF emptied THEN <<>> ELSE md
       /\ emptied => upd.pc = "md"
  /\ upd' = NoUpdate /\ rol' = NoRollback
  /\ con' = IF con.cli THEN con ELSE NoConsolidation
  /\ Continues(FALSE, "death")
  /\ UNCHANGED <<index, snaps, clock, ops>>

CommandDies ==
  /\ con.cli /\ con' = NoConsolidation
  /\ UNCHANGED <<md, index, snaps, clock, upd, rol, late, torn, ops>>

DayPasses ==
  /\ clock < MaxClock /\ clock' = clock + 1
  /\ UNCHANGED <<md, index, snaps, upd, con, rol, late, torn, ops>>

MemoryNext ==
  \/ read_sotb_governed \/ update_sotb
  \/ UpdateReads \/ UpdateStarts \/ UpdateWritesMarkdown \/ UpdateWritesIndex
  \/ (\E cli \in BOOLEAN : ConsolidateStarts(cli)) \/ ConsolidateReads
  \/ ConsolidateWritesMarkdown \/ ConsolidateWritesIndex
  \/ (\E snap \in DOMAIN snaps : RollbackWritesMarkdown(snap)) \/ RollbackWritesIndex
  \/ ServerDies \/ CommandDies \/ DayPasses

-----------------------------------------------------------------------------
Gone == Range(md) \ Range(md')

(* A consolidation removes an entry only because it had expired, because   *)
(* one that stays says the same, or because it moved to Resolved; it       *)
(* cannot speak for what was written while it was waiting.  Whatever it    *)
(* removes is in the snapshot it took.                                     *)
ConsolidationAccounts ==
  con.pc = "judging" /\ con'.pc = "index" =>
    \A id \in Gone \cap con.seen :
      /\ \/ id \in con.gone
         \/ [id EXCEPT !.section = "Resolved"] \in Range(md')
         \/ \E other \in Range(md') : <<id.text, other.text>> \in Alike
      /\ con.snap # 0 /\ "consolidate" \notin torn => id \in Range(snaps[con.snap].md)

(* An update loses nothing. *)
UpdateAppends ==
  upd.pc = "md" /\ upd'.pc = "index" /\ "update" \notin torn => Gone = {}

(* What an operation leaves that nobody overtook or interrupted: an update *)
(* no bullet without its row, a consolidation the same bullets and rows, a *)
(* rollback what its snapshot has.                                         *)
FilesAgree ==
  /\ upd.pc = "index" /\ index' = {upd.rows} /\ upd'.pc = "idle"
       /\ "update" \notin late \cup torn => Range(md') \subseteq Ids(Rows')
  /\ con.pc = "index" /\ index' = {con.rows} /\ con'.pc = "idle"
       /\ "consolidate" \notin torn => Range(md') = Ids(Rows')
  /\ rol.pc = "index" /\ rol'.pc = "idle" /\ index' = {snaps[rol.snap].index}
       /\ "rollback" \notin torn => md' = snaps[rol.snap].md

(* The board's memory (sotb_governance.py: "existing content is never      *)
(* mutated"): an update loses nothing, whatever was written while its      *)
(* judge was awaited; a consolidation accounts for what it removes; and    *)
(* the two files agree after an operation that no one disturbed.           *)
MemoryKept ==
  /\ []MemoryTypeOK
  /\ [][UpdateAppends /\ ConsolidationAccounts /\ FilesAgree]_memoryVars
=============================================================================
