----------------------------- MODULE TracedRng -----------------------------
(***************************************************************************)
(* TracedRng (v5/session.rs): an RngCore that either draws from OsRng and  *)
(* records every byte it hands out (new_empty), or replays recorded bytes  *)
(* (new_from) and panics when they run out.  The SCRAM server nonce is     *)
(* drawn through a recording TracedRng; into_data keeps the bytes, and the *)
(* next step of the exchange rebuilds the same nonce from new_from(data).  *)
(* The caller makes the same calls in both phases: it is the same SCRAM    *)
(* code run again on the same random values.                               *)
(***************************************************************************)
EXTENDS Naturals, Sequences, SequencesExt

CONSTANTS
    Base,        \* values of a byte (256)
    Len32,       \* bytes of a u32 (4)
    Len64,       \* bytes of a u64 (8)
    FillLens,    \* lengths of the dest buffers passed to fill_bytes
    MaxCalls     \* calls the SCRAM code makes on the rng

ASSUME /\ Base \in Nat \ {0, 1} /\ MaxCalls \in Nat
       /\ Len32 \in Nat /\ Len64 \in Nat /\ FillLens \subseteq Nat

Bytes == 0..(Base - 1)

(* The rng's operations, each with the number of bytes it consumes.        *)
Calls == {[kind |-> "u32", len |-> Len32], [kind |-> "u64", len |-> Len64]}
         \cup [kind : {"fill", "try_fill"}, len : FillLens]

(* Numbers a call can return.                                              *)
Values == 0..(Base ^ Max({Len32, Len64} \cup FillLens) - 1)

(* value.to_le_bytes(): the n bytes of v, least significant first.         *)
ToLE(v, n) == [i \in 1..n |-> (v \div (Base ^ (i - 1))) % Base]

(* Mutant: the bytes are read most significant first.                      *)
RECURSIVE FromBE(_)
FromBE(s) == IF s = <<>> THEN 0 ELSE FromBE(Front(s)) * Base + Last(s)

(* u32::from_le_bytes / u64::from_le_bytes.                                *)
RECURSIVE FromLE(_)
FromLE(s) == IF s = <<>> THEN 0 ELSE Head(s) + Base * FromLE(Tail(s))

VARIABLES
    rngMode,     \* "record" (rng = Some(OsRng)), "replay" (rng = None), "aborted"
    data,        \* the recorded bytes
    dataIdx,     \* data_idx
    calls,       \* the calls made while recording
    drawnVals,   \* history: values returned while recording
    replayVals,  \* history: values returned while replaying
    panicked     \* a replay read past the recorded bytes

vars == <<rngMode, data, dataIdx, calls, drawnVals, replayVals, panicked>>

TypeOK ==
    /\ rngMode \in {"record", "replay", "aborted"}
    /\ data \in Seq(Bytes)
    /\ dataIdx \in Nat
    /\ calls \in Seq(Calls)
    /\ drawnVals \in Seq(Nat)
    /\ replayVals \in Seq(Nat)
    /\ panicked \in BOOLEAN

(* new_empty: rng = Some(OsRng), data_idx = 0, data empty.                 *)
Init ==
    /\ rngMode = "record"
    /\ data = <<>>
    /\ dataIdx = 0
    /\ calls = <<>>
    /\ drawnVals = <<>>
    /\ replayVals = <<>>
    /\ panicked = FALSE

(* Recording a call: the value comes from OsRng and its bytes are          *)
(* appended to data.  next_u32/next_u64 draw a number and extend data with *)
(* its to_le_bytes; fill_bytes/try_fill_bytes fill dest and extend data    *)
(* with it, and the caller reads dest as a little-endian number.           *)
Record(c) ==
    /\ rngMode = "record"
    /\ Len(calls) < MaxCalls
    /\ IF c.kind \in {"u32", "u64"}
       THEN \E v \in 0..(Base ^ c.len - 1) :
               /\ data' = data \o ToLE(v, c.len)
               /\ drawnVals' = Append(drawnVals, v)
       ELSE \E bytes \in [1..c.len -> Bytes] :
               /\ data' = data \o bytes
               /\ drawnVals' = Append(drawnVals, FromLE(bytes))
    /\ calls' = Append(calls, c)
    /\ UNCHANGED <<rngMode, dataIdx, replayVals, panicked>>

(* try_fill_bytes in record mode when OsRng fails: `?` returns the error   *)
(* before anything is recorded, and the SCRAM step fails.                  *)
TryFillFails ==
    /\ rngMode = "record"
    /\ Len(calls) < MaxCalls
    /\ rngMode' = "aborted"
    /\ UNCHANGED <<data, dataIdx, calls, drawnVals, replayVals, panicked>>

(* into_data then new_from(data): rng = None, data_idx = 0.                *)
Restart ==
    /\ rngMode = "record"
    /\ rngMode' = "replay"
    /\ dataIdx' = 0
    /\ UNCHANGED <<data, calls, drawnVals, replayVals, panicked>>

(* Replay advances data_idx by the bytes read.                             *)
Advance(i, n) == i + n

(* Replaying a call: data[data_idx..data_idx + len] is read, a slice out   *)
(* of range panics ("data not enough" in next_u32/next_u64, the slice      *)
(* index in fill_bytes/try_fill_bytes), and data_idx advances.  The caller *)
(* makes the recorded calls again, in order.                               *)
ReplayNext ==
    /\ rngMode = "replay" /\ ~panicked
    /\ Len(replayVals) < Len(calls)
    /\ LET c == calls[Len(replayVals) + 1] IN
       IF dataIdx + c.len > Len(data)
       THEN /\ panicked' = TRUE
            /\ UNCHANGED <<dataIdx, replayVals>>
       ELSE /\ replayVals' = Append(replayVals,
                               FromLE(SubSeq(data, dataIdx + 1, dataIdx + c.len)))
            /\ dataIdx' = Advance(dataIdx, c.len)
            /\ UNCHANGED panicked
    /\ UNCHANGED <<rngMode, data, calls, drawnVals>>

(* The SCRAM exchange is over: every recorded call was made again, or the  *)
(* recording failed.                                                       *)
Finished ==
    /\ \/ rngMode = "aborted"
       \/ rngMode = "replay" /\ (panicked \/ Len(replayVals) = Len(calls))
    /\ UNCHANGED vars

Next ==
    \/ \E c \in Calls : Record(c)
    \/ TryFillFails
    \/ Restart
    \/ ReplayNext
    \/ Finished

Spec == Init /\ [][Next]_vars

(***************************************************************************)
(* Properties.                                                             *)
(***************************************************************************)
(* TracedRng refines RandomSource: replaying hands out the values drawn    *)
(* while recording, in order (the SCRAM nonce is rebuilt identically), and *)
(* no value is drawn after the replay has started.                         *)
Src == INSTANCE RandomSource
           WITH drawn <- drawnVals, replayed <- replayVals

RefinesRandomSource == Src!Spec

=============================================================================
