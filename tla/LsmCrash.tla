------------------------------ MODULE LsmCrash ------------------------------
(***************************************************************************)
(* The storage of one table when the process may die and be started again. *)
(*                                                                         *)
(* The memtable and every worker are gone after a crash; the files are as  *)
(* the last step left them, and fs_init (_fs_load_tables) takes them as    *)
(* they are: nothing finishes or undoes a compaction that was interrupted. *)
(* A step of LsmStore on a file is taken as atomic.                        *)
(***************************************************************************)
EXTENDS LsmStore

CONSTANT MaxCrashes     \* bound: crashes

ASSUME MaxCrashesAssumption == MaxCrashes \in Nat

VARIABLES
    crashes,    \* crashes so far
    durable,    \* history: the records acknowledged before a dump completed
    torn        \* history: partitions caught by a crash in stage 3

crashVars == <<crashes, durable, torn>>

CrashInit == Init /\ crashes = 0 /\ durable = {} /\ torn = {}

(* A dump has saved the memtable and empties it.                           *)
DumpCompletes == \E d \in Dumpers : dpc[d] = "saved" /\ dpc'[d] = "idle"

Work ==
    /\ Next
    /\ durable' = IF DumpCompletes THEN acked ELSE durable
    /\ UNCHANGED <<crashes, torn>>

(* The process dies; main, fs_init and _fs_load_tables start over.         *)
Crash ==
    /\ crashes < MaxCrashes
    /\ crashes' = crashes + 1
    /\ torn' = IF cpc \in {"delete", "swap", "move"}
               THEN torn \cup {p \in Partitions : binc[p] # {}}
               ELSE torn
    /\ memtable' = {} /\ owner' = None
    /\ blocked' = FALSE /\ users' = {}
    /\ pending' = [i \in Inserters |-> None]
    /\ dpc' = [d \in Dumpers |-> "idle"]
    /\ cpc' = "idle" /\ scope' = {} /\ todo' = {} /\ merged' = {} /\ cpart' = 0
    /\ spc' = [s \in Selectors |-> "idle"]
    /\ acked' = durable
    /\ UNCHANGED <<tmp, tmpc, bin, binc, gone, inserts, skey, sbest, slisted,
                   floor, freed, durable>>

CrashNext == Work \/ Crash

CrashSpec == CrashInit /\ [][CrashNext]_<<vars, crashVars>>

-----------------------------------------------------------------------------
(* What a completed dump has written survives every crash, whatever        *)
(* compaction was going on, unless the crash came in stage 3 and left the  *)
(* P#.binc of the record's partition behind: a P#.binc is not looked at by *)
(* any SELECT, and the D#.tmpc it replaces may be gone.                    *)
DurableSurvives ==
    \A r \in durable : PartOf(r.key) \notin torn => Covers(Visible, r)

(* A partition without a P#.bin is one whose replacement was interrupted   *)
(* between fs_file_delete and cx_file_move, and its P#.binc is still there *)
(* to be moved by hand: no compaction ever removes it.                     *)
MissingPartRecoverable ==
    \A p \in gone : binc[p] # {} /\ (cpc # "move" => p \in torn)

(* A compaction that comes to the end of stage 3 leaves no D#.tmpc behind, *)
(* and no P#.binc but those of the partitions without a P#.bin: it takes   *)
(* up whatever a compaction that failed, or was interrupted by a crash in  *)
(* any stage, has left on disk.                                            *)
CompactionClears ==
    cpc = "swap" /\ cpart = PartCount =>
       /\ \A n \in DumpNumbers : tmpc[n] = {}
       /\ \A p \in Partitions \ gone : binc[p] = {}
=============================================================================
