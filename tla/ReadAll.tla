------------------------------ MODULE ReadAll ------------------------------
(***************************************************************************)
(* read_all of crates/fetchbench/src/main.rs over read_range of            *)
(* nocache.rs: the byte ranges of a fetch plan are read, rounded out to    *)
(* alignment boundaries, by one thread or by several that share the index  *)
(* of the next range and a sum of the bytes transferred.                   *)
(*                                                                         *)
(* pread is external: it transfers any part of what is asked for, nothing  *)
(* at the end of the file, or fails.  An atomic fetch_add is one step.     *)
(***************************************************************************)
EXTENDS Integers, Sequences, FiniteSets, FiniteSetsExt

CONSTANTS
    MaxThreads,     \* bound: the largest --threads
    Plans,          \* the sequences of ranges <<offset, length>> to read
    FileLen,        \* NoCacheFile::len
    Align,          \* ALIGN
    BufBytes,       \* BUF_BYTES
    MaxErrors       \* bound: preads that fail

ASSUME AlignAssumption == Align \in Nat \ {0} /\ BufBytes \in Nat /\ BufBytes \div 4 > 0
ASSUME PlansAssumption ==
    /\ FileLen \in Nat /\ MaxErrors \in Nat /\ MaxThreads \in Nat \ {0}
    /\ \A plan \in Plans : plan \in Seq(Nat \X Nat)

VARIABLES
    threads, ranges,    \* chosen at the start
    next, total,        \* the shared atomics
    worker,             \* worker[w]: its pc and the locals of read_range
    got,                \* history: got[i], bytes of range i handed over so far
    done,               \* history: the ranges for which read_range returned Ok
    errors,             \* failed preads so far
    result              \* "running", "ok" or "error"

readVars == <<threads, ranges, next, total, worker, got, done, errors, result>>

\* threads <= 1 reads in the calling thread.
Alone == threads <= 1
Workers == 1 .. MaxThreads
Active == {1} \cup 1 .. threads
Capacity == IF Alone THEN BufBytes ELSE BufBytes \div 4

RoundDown(x) == (x \div Align) * Align
RoundUp(x) == RoundDown(x + Align - 1)

\* read_range: the first byte read, and the end of what is asked for.
First(range) == RoundDown(range[1])
End(range) == Min({RoundUp(Min({range[1] + range[2], FileLen})), RoundUp(FileLen)})

At(w, pc) == result = "running" /\ w \in Active /\ worker[w].pc = pc
Goto(w, pc) == worker' = [worker EXCEPT ![w].pc = pc]

ReadInit ==
    /\ threads \in 0 .. MaxThreads
    /\ ranges \in Plans
    /\ next = 1 /\ total = 0
    /\ worker = [w \in Workers |-> [pc |-> "take", i |-> 0, pos |-> 0, n |-> 0]]
    /\ got = [i \in DOMAIN ranges |-> 0]
    /\ done = {}
    /\ errors = 0
    /\ result = "running"

\* Mutant: past the end of the ranges a worker tries again.
TakeForever(w) ==
    /\ At(w, "take")
    /\ IF next \in DOMAIN ranges
       THEN worker' = [worker EXCEPT ![w] =
                [pc |-> "read", i |-> next, pos |-> First(ranges[next]), n |-> 0]]
       ELSE UNCHANGED worker
    /\ next' = next + 1
    /\ UNCHANGED <<threads, ranges, total, got, done, errors, result>>

\* next.fetch_add(1); a worker stops at the end of the ranges.
Take(w) ==
    /\ At(w, "take")
    /\ IF next \in DOMAIN ranges
       THEN worker' = [worker EXCEPT ![w] =
                [pc |-> "read", i |-> next, pos |-> First(ranges[next]), n |-> 0]]
       ELSE Goto(w, "stopped")
    /\ next' = next + 1
    /\ UNCHANGED <<threads, ranges, total, got, done, errors, result>>

Wanted(w) == Min({End(ranges[worker[w].i]) - worker[w].pos, Capacity})

\* A pread that transfers n > 0 bytes, fewer than wanted perhaps.
Pread(w) ==
    /\ At(w, "read") /\ worker[w].pos < End(ranges[worker[w].i])
    /\ \E n \in 1 .. Min({Wanted(w), FileLen - worker[w].pos}) :
           /\ worker' = [worker EXCEPT ![w].pos = @ + n, ![w].n = @ + n]
           /\ got' = [got EXCEPT ![worker[w].i] = @ + n]
    /\ UNCHANGED <<threads, ranges, next, total, done, errors, result>>

\* Mutant: a read of nothing at the end of the file is tried again.
RangeDoneStrict(w) ==
    /\ At(w, "read")
    /\ worker[w].pos >= End(ranges[worker[w].i])
    /\ total' = total + worker[w].n
    /\ done' = done \cup {worker[w].i}
    /\ Goto(w, "take")
    /\ UNCHANGED <<threads, ranges, next, got, errors, result>>

\* The range is read, or the end of the file is: total.fetch_add.
RangeDone(w) ==
    /\ At(w, "read")
    /\ worker[w].pos >= Min({End(ranges[worker[w].i]), FileLen})
    /\ total' = total + worker[w].n
    /\ done' = done \cup {worker[w].i}
    /\ Goto(w, "take")
    /\ UNCHANGED <<threads, ranges, next, got, errors, result>>

\* Mutant: the bytes of a failed range count.
PreadFailsCounted(w) ==
    /\ At(w, "read") /\ worker[w].pos < End(ranges[worker[w].i])
    /\ errors < MaxErrors
    /\ errors' = errors + 1
    /\ total' = total + worker[w].n
    /\ IF Alone THEN result' = "error" ELSE UNCHANGED result
    /\ Goto(w, "stopped")
    /\ UNCHANGED <<threads, ranges, next, got, done>>

\* pread fails.  Alone, the error is returned; a worker prints it and stops, and
\* what it had transferred of the range is not counted.
PreadFails(w) ==
    /\ At(w, "read") /\ worker[w].pos < End(ranges[worker[w].i])
    /\ errors < MaxErrors
    /\ errors' = errors + 1
    /\ IF Alone THEN result' = "error" ELSE UNCHANGED result
    /\ Goto(w, "stopped")
    /\ UNCHANGED <<threads, ranges, next, total, got, done>>

\* Mutant: one worker that has stopped is enough.
JoinAny ==
    /\ result = "running"
    /\ \E w \in Active : worker[w].pc = "stopped"
    /\ result' = "ok"
    /\ UNCHANGED <<threads, ranges, next, total, worker, got, done, errors>>

\* The scope has joined all workers: Ok(total), whatever they met.
Join ==
    /\ result = "running"
    /\ \A w \in Active : worker[w].pc = "stopped"
    /\ result' = "ok"
    /\ UNCHANGED <<threads, ranges, next, total, worker, got, done, errors>>

Work(w) == Take(w) \/ Pread(w) \/ RangeDone(w) \/ PreadFails(w)

ReadNext == Join \/ \E w \in Workers : Work(w)

\* Threads are scheduled; nothing is assumed of pread but that it returns.
ReadSpec == ReadInit /\ [][ReadNext]_readVars /\ WF_readVars(Join) /\ \A w \in Workers : WF_readVars(Work(w))

-----------------------------------------------------------------------------
(* Properties *)

\* The bytes of the file in the range, rounded out.
Extent(i) == Max({0, Min({End(ranges[i]), FileLen}) - First(ranges[i])})

ReadTypeOK ==
    /\ threads \in 0 .. MaxThreads /\ ranges \in Plans
    /\ next \in 1 .. Len(ranges) + 1 + Cardinality(Workers)
    /\ total \in Nat /\ errors \in 0 .. MaxErrors
    /\ \A w \in Workers :
           /\ worker[w].pc \in {"take", "read", "stopped"}
           /\ worker[w].i \in 0 .. Len(ranges)
           /\ {worker[w].pos, worker[w].n} \subseteq Nat
    /\ result \in {"running", "ok", "error"}

\* No two workers read the same range, and no byte of a range is read twice: what
\* is measured is the plan and nothing else.
NothingTwice ==
    /\ \A i \in DOMAIN ranges : got[i] <= Extent(i)
    /\ \A v, w \in Active :
           worker[v].pc = "read" /\ worker[w].pc = "read" /\ worker[v].i = worker[w].i => v = w

\* Each read error costs the one range it hit, as long as a worker is left: the
\* others take over what the one that stopped had not begun.
OneLostPerError ==
    result = "ok" /\ errors < threads =>
        Cardinality(DOMAIN ranges \ done) <= errors

\* The sum is at every moment that of the bytes of the ranges read to their end,
\* whatever short reads they took and whatever other ranges failed half way.
TotalIsWhole == total = MapThenSumSet(Extent, done)

\* "Issues every range": a call that returns Ok has read every one.
EveryRangeIssued == result = "ok" => \A i \in DOMAIN ranges : i \in done /\ got[i] = Extent(i)

\* It does so when nothing fails.
IssuedUnlessFailed == errors = 0 => EveryRangeIssued

\* The bytes counted are those read to the end of their ranges, each of them read once.
ReadOnce == NothingTwice /\ TotalIsWhole

\* Only errors make read_all leave a range out, and each of them one at most while a worker
\* is left.
LostOnlyByErrors == OneLostPerError /\ IssuedUnlessFailed

\* read_all returns, whatever short reads and errors it meets.
Returns == <>(result # "running")

=============================================================================
