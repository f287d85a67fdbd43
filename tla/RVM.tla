-------------------------------- MODULE RVM --------------------------------
(***************************************************************************)
(* src/rvm/rvm.c: recoverable virtual memory.  Segments are files that are *)
(* mapped into memory; a transaction saves what it overwrites in an undo   *)
(* log, a commit appends what was written to redo.log, and rvm_truncate_log*)
(* (first thing in every rvm_map) plays redo.log into the segment files.   *)
(* The process may crash at any time; the disk survives.                   *)
(*                                                                         *)
(* A library call is one step, but those that write several records to the *)
(* disk take one step per record, so that a crash can come between.        *)
(*                                                                         *)
(* The application keeps to what rvm.h asks: it writes only memory it has  *)
(* declared, and destroys no mapped segment; it does not unmap a segment   *)
(* of a running transaction.                                               *)
(***************************************************************************)
EXTENDS Integers, Sequences, FiniteSets

CONSTANTS
  Segs,      \* segment names
  Trans,     \* transactions that can run at the same time
  Sizes,     \* the values of size_to_create the application uses, in cells
  Val,       \* what a cell can hold, 0 included
  Split,     \* those whose bytes hold a newline
  MaxMods,   \* bound: rvm_about_to_modify calls on a segment per transaction
  MaxLog,    \* bound: records in redo.log when a commit begins
  MaxCells,  \* bound: cells of a segment file when rvm_map is called
  NoFile, NoTrans, Lost   \* no file, no transaction, a transaction whose
                          \* begin failed and that nobody knows

ASSUME SizesAssumption == Sizes \subseteq Nat \ {0}
ASSUME ValAssumption == 0 \in Val /\ Val \subseteq Nat
ASSUME NamesAssumption == {NoTrans, Lost} \cap Trans = {} /\ NoFile \notin Seq(Int)
ASSUME BoundsAssumption == {MaxMods, MaxLog, MaxCells} \subseteq Nat

VARIABLES
  \* on disk
  file,       \* file[s]: contents of the segment file, or NoFile
  log,        \* redo.log
  \* in the process
  up,         \* the process runs
  segments,   \* the segments this process knows ("segments")
  mapped,     \* those that are mapped ("rvm->segst")
  mem,        \* mem[s]: what segbase points to
  cur_trans,  \* cur_trans[s]: the transaction s belongs to
  mods,       \* mods[s]: the undo log, a stack with the newest entry first
  redolog,    \* the cells to be logged, of all transactions together
  tsegs,      \* tsegs[t]: the segments of transaction t, {} when not running
  call,       \* the library call in progress
  \* history, on which no step depends
  want,       \* want[s]: what the application must find in s after a crash
  snap,       \* snap[s]: the memory of s when its transaction began
  damaged     \* the cells <<s, c>> over which the log holds, or has played,
              \* other data than was committed

disk == <<file, log>>
process == <<up, segments, mapped, mem, cur_trans, mods, redolog, tsegs, call>>
vars == <<disk, process, want, snap, damaged>>

Garbage == -1    \* what malloc leaves in memory, and data that nobody wrote
ASSUME SplitAssumption == Split \subseteq Val \cup {Garbage}

Idle == [op |-> "none"]
Zeros(n) == [c \in 1 .. n |-> 0]
InTransaction(s) == \E t \in Trans : s \in tsegs[t]

(* What is left of the process after a crash: nothing. *)
Dead ==
  /\ up' = FALSE
  /\ segments' = {} /\ mapped' = {}
  /\ mem' = [s \in Segs |-> <<>>]
  /\ cur_trans' = [s \in Segs |-> NoTrans]
  /\ mods' = [s \in Segs |-> <<>>]
  /\ redolog' = <<>>
  /\ tsegs' = [t \in Trans |-> {}]
  /\ call' = Idle
  /\ snap' = [s \in Segs |-> <<>>]

Init ==
  /\ file = [s \in Segs |-> NoFile]
  /\ log = <<>>
  /\ up = FALSE
  /\ segments = {} /\ mapped = {}
  /\ mem = [s \in Segs |-> <<>>]
  /\ cur_trans = [s \in Segs |-> NoTrans]
  /\ mods = [s \in Segs |-> <<>>]
  /\ redolog = <<>>
  /\ tsegs = [t \in Trans |-> {}]
  /\ call = Idle
  /\ want = [s \in Segs |-> NoFile]
  /\ snap = [s \in Segs |-> <<>>]
  /\ damaged = {}

Ready == up /\ call = Idle

(* rvm_init in a new process. *)
Start ==
  /\ ~up
  /\ up' = TRUE
  /\ UNCHANGED <<disk, segments, mapped, mem, cur_trans, mods, redolog, tsegs,
                 call, want, snap, damaged>>

-----------------------------------------------------------------------------
(* rvm_truncate_log, alone or at the beginning of rvm_map. *)

(* fseek and fwrite of one cell; a gap before it reads as zeros.           *)
put(f, c, x) ==
  [i \in 1 .. (IF c > Len(f) THEN c ELSE Len(f)) |->
     IF i = c THEN x ELSE IF i <= Len(f) THEN f[i] ELSE 0]

BeginTruncate ==
  /\ Ready
  /\ call' = [op |-> "truncate", i |-> 1]
  /\ UNCHANGED <<disk, up, segments, mapped, mem, cur_trans, mods, redolog,
                 tsegs, want, snap, damaged>>

BeginMap(s, n) ==
  /\ Ready /\ (file[s] # NoFile => Len(file[s]) <= MaxCells)
  /\ call' = [op |-> "map", i |-> 1, seg |-> s, size |-> n]
  /\ UNCHANGED <<disk, up, segments, mapped, mem, cur_trans, mods, redolog,
                 tsegs, want, snap, damaged>>

Truncating == call.op \in {"truncate", "map"}

Playable(r) == r.parses /\ file[r.seg] # NoFile

TruncateLine ==
  /\ Truncating /\ call.i <= Len(log)
  /\ LET r == log[call.i] IN
     /\ Playable(r)
     /\ file' = [file EXCEPT ![r.seg] = put(@, r.off, r.val)]
  /\ call' = [call EXCEPT !.i = @ + 1]
  /\ UNCHANGED <<log, up, segments, mapped, mem, cur_trans, mods, redolog,
                 tsegs, want, snap, damaged>>

(* The missing fields of a torn or split line, or the handle of a file     *)
(* that is gone, are NULL, and the process dies of using them.             *)
TruncateDies ==
  /\ Truncating /\ call.i <= Len(log)
  /\ ~Playable(log[call.i])
  /\ Dead
  /\ UNCHANGED <<disk, want, damaged>>

mutant_log_dropped_early ==
  /\ call.op = "truncate" /\ call.i >= Len(log)
  /\ log' = <<>>
  /\ call' = Idle
  /\ UNCHANGED <<file, up, segments, mapped, mem, cur_trans, mods, redolog,
                 tsegs, want, snap, damaged>>

EndTruncate ==
  /\ call.op = "truncate" /\ call.i > Len(log)
  /\ log' = <<>>
  /\ call' = Idle
  /\ UNCHANGED <<file, up, segments, mapped, mem, cur_trans, mods, redolog,
                 tsegs, want, snap, damaged>>

(* The memory that realloc or malloc returns, before the file is read.     *)
grown(s, n) ==
  IF s \in segments
    THEN [c \in 1 .. (IF n > Len(mem[s]) THEN n ELSE Len(mem[s])) |->
            IF c <= Len(mem[s]) THEN mem[s][c] ELSE 0]
    ELSE [c \in 1 .. n |-> Garbage]

(* The file that rvm_map leaves: a new one as long as the segment, or the  *)
(* old one, with zeros for what a segment of this process grows by.  The   *)
(* process extends no file that it has not mapped before.                  *)
extended(s, n) ==
  IF file[s] = NoFile THEN Zeros(Len(grown(s, n)))
  ELSE IF s \in segments THEN file[s] \o Zeros(Len(grown(s, n)) - Len(mem[s]))
  ELSE file[s]

(* fread of as much as the file and the segment have.                      *)
read(f, m) == [c \in DOMAIN m |-> IF c \in DOMAIN f THEN f[c] ELSE m[c]]

(* What the application may rely on after a map: what was committed, and   *)
(* zeros where the file was extended; nothing about memory that rvm_map    *)
(* neither read nor cleared.                                               *)
wanted(w, f, m) ==
  LET n == IF Len(f) > Len(m) THEN Len(f) ELSE Len(m) IN
  [c \in 1 .. n |-> IF w # NoFile /\ c \in DOMAIN w THEN w[c]
                    ELSE IF c <= Len(f) THEN 0 ELSE Garbage]

(* The rest of rvm_map.  Mapping a mapped segment is refused.              *)
MapRefused ==
  /\ call.op = "map" /\ call.i > Len(log)
  /\ call.seg \in mapped
  /\ log' = <<>>
  /\ call' = Idle
  /\ UNCHANGED <<file, up, segments, mapped, mem, cur_trans, mods, redolog,
                 tsegs, want, snap, damaged>>

mutant_map_before_truncate ==
  /\ call.op = "map"
  /\ call.seg \notin mapped
  /\ LET s == call.seg
         m == grown(s, call.size)
         f == extended(s, call.size)
     IN  /\ file' = [file EXCEPT ![s] = f]
         /\ mem' = [mem EXCEPT ![s] = read(f, m)]
         /\ segments' = segments \cup {s}
         /\ mapped' = mapped \cup {s}
         /\ want' = [want EXCEPT ![s] = wanted(@, f, m)]
  /\ call' = Idle
  /\ UNCHANGED <<log, up, cur_trans, mods, redolog, tsegs, snap, damaged>>

MapSegment ==
  /\ call.op = "map" /\ call.i > Len(log)
  /\ call.seg \notin mapped
  /\ LET s == call.seg
         m == grown(s, call.size)
         f == extended(s, call.size)
     IN  /\ file' = [file EXCEPT ![s] = f]
         /\ mem' = [mem EXCEPT ![s] = read(f, m)]
         /\ segments' = segments \cup {s}
         /\ mapped' = mapped \cup {s}
         /\ want' = [want EXCEPT ![s] = wanted(@, f, m)]
  /\ log' = <<>>
  /\ call' = Idle
  /\ UNCHANGED <<up, cur_trans, mods, redolog, tsegs, snap, damaged>>

-----------------------------------------------------------------------------

Unmap(s) ==
  /\ Ready /\ s \in mapped /\ ~InTransaction(s)
  /\ mapped' = mapped \ {s}
  /\ UNCHANGED <<disk, up, segments, mem, cur_trans, mods, redolog, tsegs, call,
                 want, snap, damaged>>

(* rvm_destroy; of a segment this process does not know it does nothing.   *)
Destroy(s) ==
  /\ Ready /\ s \in segments \ mapped
  /\ segments' = segments \ {s}
  /\ mem' = [mem EXCEPT ![s] = <<>>]
  /\ cur_trans' = [cur_trans EXCEPT ![s] = NoTrans]
  /\ mods' = [mods EXCEPT ![s] = <<>>]
  /\ file' = [file EXCEPT ![s] = NoFile]
  /\ want' = [want EXCEPT ![s] = NoFile]
  /\ damaged' = {d \in damaged : d[1] # s}
  /\ UNCHANGED <<log, up, mapped, redolog, tsegs, call, snap>>

(* rvm_begin_trans on the segments of list, in that order.  It fails at    *)
(* the first that is busy or not mapped, and the ones before stay taken.   *)
Free(s) == s \in mapped /\ s \in segments /\ cur_trans[s] = NoTrans

Begin(t, list) ==
  /\ Ready /\ tsegs[t] = {}
  /\ IF \A i \in 1 .. Len(list) : Free(list[i])
       THEN LET ss == {list[i] : i \in 1 .. Len(list)} IN
            /\ tsegs' = [tsegs EXCEPT ![t] = ss]
            /\ cur_trans' = [s \in Segs |-> IF s \in ss THEN t ELSE cur_trans[s]]
            /\ snap' = [s \in Segs |-> IF s \in ss THEN mem[s] ELSE snap[s]]
       ELSE /\ cur_trans' = [s \in Segs |->
                 IF \E i \in 1 .. Len(list) :
                      list[i] = s /\ \A j \in 1 .. i : Free(list[j])
                   THEN Lost ELSE cur_trans[s]]
            /\ UNCHANGED <<tsegs, snap>>
  /\ UNCHANGED <<disk, up, segments, mapped, mem, mods, redolog, call, want, damaged>>

(* rvm_about_to_modify of one cell: save it, and list it for the redo log. *)
mutant_redo_once_per_offset(t, s, c) ==
  /\ Ready /\ s \in mapped /\ cur_trans[s] = t
  /\ Len(mods[s]) < MaxMods
  /\ mods' = [mods EXCEPT ![s] = <<[off |-> c, undo |-> mem[s][c]]>> \o @]
  /\ redolog' = IF \E i \in 1 .. Len(redolog) : redolog[i].off = c
                  THEN redolog ELSE Append(redolog, [seg |-> s, off |-> c])
  /\ UNCHANGED <<disk, up, segments, mapped, mem, cur_trans, tsegs, call, want,
                 snap, damaged>>

mutant_offset_from_zero(t, s, c) ==
  /\ Ready /\ s \in mapped /\ cur_trans[s] = t
  /\ Len(mods[s]) < MaxMods
  /\ mods' = [mods EXCEPT ![s] = <<[off |-> c - 1, undo |-> mem[s][c]]>> \o @]
  /\ redolog' = Append(redolog, [seg |-> s, off |-> c])
  /\ UNCHANGED <<disk, up, segments, mapped, mem, cur_trans, tsegs, call, want,
                 snap, damaged>>

AboutToModify(t, s, c) ==
  /\ Ready /\ s \in mapped /\ cur_trans[s] = t
  /\ Len(mods[s]) < MaxMods
  /\ mods' = [mods EXCEPT ![s] = <<[off |-> c, undo |-> mem[s][c]]>> \o @]
  /\ redolog' = Append(redolog, [seg |-> s, off |-> c])
  /\ UNCHANGED <<disk, up, segments, mapped, mem, cur_trans, tsegs, call, want,
                 snap, damaged>>

Declared(s, c) == \E i \in 1 .. Len(mods[s]) : mods[s][i].off = c

(* The application writes a cell it has declared.  *)
Write(t, s, c, x) ==
  /\ Ready /\ cur_trans[s] = t
  /\ Declared(s, c)
  /\ mem' = [mem EXCEPT ![s][c] = x]
  /\ UNCHANGED <<disk, up, segments, mapped, cur_trans, mods, redolog, tsegs,
                 call, want, snap, damaged>>

-----------------------------------------------------------------------------
(* rvm_commit_trans writes one line for each entry of the redo log.  The   *)
(* data is what the cell holds now.                                        *)

BeginCommit(t) ==
  /\ Ready /\ tsegs[t] # {} /\ Len(log) <= MaxLog
  /\ call' = [op |-> "commit", i |-> 1, t |-> t]
  /\ UNCHANGED <<disk, up, segments, mapped, mem, cur_trans, mods, redolog,
                 tsegs, want, snap, damaged>>

cell(e) == <<e.seg, e.off>>
whole(e, x) == [seg |-> e.seg, off |-> e.off, val |-> x, parses |-> TRUE]
torn(e) == [seg |-> e.seg, off |-> e.off, val |-> Garbage, parses |-> FALSE]

(* rvm_truncate_log reads lines, so a newline in the data splits a line in *)
(* two (bound: one newline).  What comes after it is a line of its own: it *)
(* lacks a field, or its commas make it data for any cell (up to MaxCells).*)
rests(e) ==
  {torn(e)} \cup {whole([seg |-> s, off |-> c], Garbage) : s \in Segs, c \in 1 .. MaxCells}

(* The line about e, which will be played as y, and the lines after it,    *)
(* which the application did not mean, are in the log.                     *)
logged(e, x, y, rest) ==
  /\ log' = Append(log, whole(e, y)) \o rest
  /\ want' = IF e.seg \in tsegs[call.t]
               THEN [want EXCEPT ![e.seg][e.off] = x] ELSE want
  /\ damaged' = (damaged \ {cell(e)}) \cup (IF y = x THEN {} ELSE {cell(e)})
                  \cup {cell(rest[i]) : i \in {j \in DOMAIN rest : rest[j].parses}}

(* The data of a split line are played up to the newline, and after it     *)
(* what is in memory: the right ones if the newline is the last byte.      *)
CommitLine ==
  /\ call.op = "commit" /\ call.i <= Len(redolog)
  /\ LET e == redolog[call.i]
         x == mem[e.seg][e.off]
     IN  \/ x \notin Split /\ logged(e, x, x, <<>>)
         \/ x \in Split /\ \E y \in {x, Garbage}, r \in rests(e) : logged(e, x, y, <<r>>)
  /\ call' = [call EXCEPT !.i = @ + 1]
  /\ UNCHANGED <<file, up, segments, mapped, mem, cur_trans, mods, redolog,
                 tsegs, snap>>

(* The transaction is over: its undo logs and the whole redo log go.       *)
EndTransaction(t) ==
  /\ redolog' = <<>>
  /\ mods' = [s \in Segs |-> IF s \in tsegs[t] THEN <<>> ELSE mods[s]]
  /\ cur_trans' = [s \in Segs |-> IF s \in tsegs[t] THEN NoTrans ELSE cur_trans[s]]
  /\ tsegs' = [tsegs EXCEPT ![t] = {}]
  /\ snap' = [s \in Segs |-> IF s \in tsegs[t] THEN <<>> ELSE snap[s]]

EndCommit ==
  /\ call.op = "commit" /\ call.i > Len(redolog)
  /\ EndTransaction(call.t)
  /\ want' = [s \in Segs |-> IF s \notin tsegs[call.t] THEN want[s] ELSE
                [c \in DOMAIN want[s] |-> IF Declared(s, c) THEN mem[s][c] ELSE want[s][c]]]
  /\ call' = Idle
  /\ UNCHANGED <<disk, up, segments, mapped, mem, damaged>>

(* The undo log is a stack: the oldest saved value of a cell stays.        *)
mutant_undone_oldest_first(m, st) ==
  [c \in DOMAIN m |->
     IF \E i \in 1 .. Len(st) : st[i].off = c
       THEN st[CHOOSE i \in 1 .. Len(st) :
                 st[i].off = c /\ \A j \in 1 .. i - 1 : st[j].off # c].undo
       ELSE m[c]]

undone(m, st) ==
  [c \in DOMAIN m |->
     IF \E i \in 1 .. Len(st) : st[i].off = c
       THEN st[CHOOSE i \in 1 .. Len(st) :
                 st[i].off = c /\ \A j \in i + 1 .. Len(st) : st[j].off # c].undo
       ELSE m[c]]

Abort(t) ==
  /\ Ready /\ tsegs[t] # {}
  /\ mem' = [s \in Segs |-> IF s \in tsegs[t] THEN undone(mem[s], mods[s]) ELSE mem[s]]
  /\ EndTransaction(t)
  /\ UNCHANGED <<disk, up, segments, mapped, call, want, damaged>>

-----------------------------------------------------------------------------

(* The process dies, in a call or between two.  *)
Crash ==
  /\ up
  /\ Dead
  /\ UNCHANGED <<disk, want, damaged>>

(* A crash in rvm_commit_trans, with part of the next line on the disk: not*)
(* all its fields; the first three, so that it will be played, over what   *)
(* was committed before, with whatever follows in memory; or all but its   *)
(* newline or what comes after a newline in the data.                      *)
CrashInLine ==
  /\ call.op = "commit" /\ call.i <= Len(redolog)
  /\ LET e == redolog[call.i]
         x == mem[e.seg][e.off]
     IN  \/ log' = Append(log, torn(e)) /\ UNCHANGED <<want, damaged>>
         \/ /\ log' = Append(log, whole(e, Garbage)) /\ UNCHANGED want
            /\ damaged' = damaged \cup {cell(e)}
         \/ logged(e, x, x, <<>>)
  /\ Dead
  /\ UNCHANGED file

(* A crash in rvm_map, after it has emptied the log, with part of what it  *)
(* appends to the file on the disk.                                        *)
CrashInMap ==
  /\ call.op = "map" /\ call.i > Len(log)
  /\ call.seg \notin mapped
  /\ LET s == call.seg
         f == extended(s, call.size)
     IN  \E k \in (IF file[s] = NoFile THEN 0 ELSE Len(file[s])) .. Len(f) :
           file' = [file EXCEPT ![s] = SubSeq(f, 1, k)]
  /\ log' = <<>>
  /\ Dead
  /\ UNCHANGED <<want, damaged>>

Lists == UNION {{l \in [1 .. n -> Segs] : \A i, j \in 1 .. n : l[i] = l[j] => i = j}
                : n \in 1 .. Cardinality(Segs)}

Library ==
  \/ Start \/ BeginTruncate \/ TruncateLine \/ EndTruncate \/ TruncateDies
  \/ MapRefused \/ MapSegment \/ CommitLine \/ EndCommit
  \/ \E s \in Segs : Unmap(s) \/ Destroy(s) \/ \E n \in Sizes : BeginMap(s, n)
  \/ \E t \in Trans : BeginCommit(t) \/ Abort(t) \/ \E l \in Lists : Begin(t, l)
  \/ \E t \in Trans, s \in Segs : \E c \in DOMAIN mem[s] : AboutToModify(t, s, c)

Application ==
  \E t \in Trans, s \in Segs : \E c \in DOMAIN mem[s], x \in Val : Write(t, s, c, x)

Next == Library \/ Application \/ Crash \/ CrashInLine \/ CrashInMap

Spec == Init /\ [][Next]_vars

-----------------------------------------------------------------------------
(* Properties. *)

Cells == Val \cup {Garbage}
Calls == {Idle}
  \cup [op : {"truncate"}, i : Nat \ {0}]
  \cup [op : {"map"}, i : Nat \ {0}, seg : Segs, size : Sizes]
  \cup [op : {"commit"}, i : Nat \ {0}, t : Trans]

(* Types; a dead process has no memory. *)
TypeOK ==
  /\ file \in [Segs -> Seq(Cells) \cup {NoFile}]
  /\ log \in Seq([seg : Segs, off : Nat \ {0}, val : Cells, parses : BOOLEAN])
  /\ up \in BOOLEAN
  /\ mapped \subseteq segments /\ segments \subseteq Segs
  /\ mem \in [Segs -> Seq(Cells)]
  /\ cur_trans \in [Segs -> Trans \cup {NoTrans, Lost}]
  /\ mods \in [Segs -> Seq([off : Nat \ {0}, undo : Cells])]
  /\ redolog \in Seq([seg : Segs, off : Nat \ {0}])
  /\ tsegs \in [Trans -> SUBSET mapped]
  /\ \A t \in Trans, s \in Segs : s \in tsegs[t] <=> cur_trans[s] = t
  /\ call \in Calls
  /\ ~up => segments = {} /\ call = Idle
  /\ damaged \subseteq Segs \X (Nat \ {0})

(* What the next process finds in cell c of s once it has played the log:  *)
(* the last line about the cell counts.                                    *)
lines(s, c) == {i \in 1 .. Len(log) : log[i].seg = s /\ log[i].off = c}

recovered(s, c) ==
  IF lines(s, c) # {}
    THEN log[CHOOSE i \in lines(s, c) : \A j \in lines(s, c) : j <= i].val
    ELSE IF c \in DOMAIN file[s] THEN file[s][c] ELSE 0

Durable(s) ==
  want[s] # NoFile =>
    /\ file[s] # NoFile
    /\ \A c \in DOMAIN want[s] :
         <<s, c>> \in damaged \/ want[s][c] \in {recovered(s, c), Garbage}

(* Every line of redo.log can be played, so that a process can start.      *)
LogPlayable == \A i \in 1 .. Len(log) : Playable(log[i])

(* At any point, a truncation half done and a crash included, the file and *)
(* the log together hold what was committed, as long as the log can be     *)
(* played at all, but for the cells that a torn or split line has damaged  *)
(* since: what CommitsSeenAtRestart says without these exceptions is false.*)
CommittedKept ==
  LogPlayable => \A s \in Segs : ~InTransaction(s) => Durable(s)

(* rvm_commit_trans: "When the call returns, then enough information       *)
(* should have been saved to disk so that, even if the program crashes,    *)
(* the changes will be seen by the program when it restarts" (line 303).   *)
CommitReturnsDurable == Ready => CommittedKept

(* The same comment, with no exception: when no process runs, the next one *)
(* gets past every line of the log, and finds what was committed.          *)
CommitsSeenAtRestart ==
  ~up => \A s \in Segs : want[s] # NoFile =>
    \A c \in DOMAIN want[s] :
      want[s][c] \notin {0, Garbage} => LogPlayable /\ recovered(s, c) = want[s][c]

(* rvm_map: "If the segment exists but is shorter than size_to_create,     *)
(* then extend it until it is long enough" (rvm.h).                        *)
MapExtends == \A s \in mapped : Len(file[s]) >= Len(mem[s])

(* What the next process will find in a cell changes only when a commit    *)
(* writes a line: about the cell, with what its memory holds then, or one  *)
(* that damages it.  Declarations, writes, aborts, maps, truncations, done *)
(* half or dropping the log, and crashes between two calls leave it alone. *)
(* The line may be another transaction's: rvm_commit_trans writes the      *)
(* whole redolog (line 325).                                               *)
Named(s) == DOMAIN file[s] \cup {log[i].off : i \in 1 .. Len(log)}

OnlyCommitsChange ==
  [][LogPlayable' =>
       \A s \in Segs : file[s] # NoFile /\ file'[s] # NoFile =>
         \A c \in Named(s) \cup Named(s)' :
           recovered(s, c)' # recovered(s, c) =>
             /\ call.op = "commit" /\ call.i <= Len(redolog)
             /\ \/ <<s, c>> = cell(redolog[call.i]) /\ recovered(s, c)' = mem[s][c]
                \/ <<s, c>> \in damaged']_disk

(* The memory of a mapped segment outside of a transaction is what was     *)
(* committed, after a map, a commit or an abort in any order, but for the  *)
(* cells that a torn or split line has damaged since.                      *)
MappedCurrent ==
  \A s \in mapped : ~InTransaction(s) =>
    \A c \in DOMAIN mem[s] :
      <<s, c>> \in damaged \/ want[s][c] \in {mem[s][c], Garbage}

(* An abort at any point of a transaction would restore the memory of its  *)
(* segments, however often and in whatever order it declared the cells.    *)
AbortRestores ==
  \A t \in Trans : \A s \in tsegs[t] : undone(mem[s], mods[s]) = snap[s]

=============================================================================
