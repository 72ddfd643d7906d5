------------------------------ MODULE CrowTrace ------------------------------
(***************************************************************************)
(* The ii trace of a session: the Crow host appends records                *)
(* (crow_ii_host/main.c, I2C_LeadTx) while a client pages through them by  *)
(* byte offset (crow_ii.read_trace).  A record is RecordSize bytes, the    *)
(* last of them its newline, and a reader may meet one half written.       *)
(***************************************************************************)
EXTENDS Naturals, Sequences, SequencesExt

CONSTANTS RecordSize,   \* bytes of a record
          PageSize,     \* records of a page
          MaxBytes, MaxReads

\* A record is more than its newline.
ASSUME TraceAssumption ==
  RecordSize \in Nat \ {0, 1} /\ PageSize \in Nat \ {0} /\ MaxBytes \in Nat

VARIABLES bytes,    \* the length of the trace
          traceReader    \* the cursor of the client, and what it was sent

traceVars == <<bytes, traceReader>>

TraceInit == bytes = 0 /\ traceReader = [cursor |-> 0, got |-> <<>>, more |-> FALSE, reads |-> 0]

LeadTx ==
  /\ bytes < MaxBytes
  /\ bytes' = bytes + 1
  /\ UNCHANGED traceReader

RecordEnds(offset) == offset % RecordSize = 0

Refuses(cursor) == cursor > bytes \/ ~RecordEnds(cursor)

\* The records from a cursor on: whole ones only, and a page at most.
Page(cursor) ==
  LET first == cursor \div RecordSize
      last == IF bytes \div RecordSize < first + PageSize THEN bytes \div RecordSize
              ELSE first + PageSize
  IN [k \in 1..(last - first) |-> first + k]

\* A client asks from the cursor it has, or from one it made up.
ReadTrace(cursor) ==
  /\ traceReader.reads < MaxReads /\ cursor \in {traceReader.cursor, traceReader.cursor + 1}
  /\ ~Refuses(cursor)
  /\ LET page == Page(cursor)
         end == cursor + Len(page) * RecordSize
     IN traceReader' = [cursor |-> end, got |-> traceReader.got \o page, more |-> end < bytes,
                   reads |-> traceReader.reads + 1]
  /\ UNCHANGED bytes

TraceNext == LeadTx \/ \E cursor \in 0..(MaxBytes + 1) : ReadTrace(cursor)

TraceSpec == TraceInit /\ [][TraceNext]_traceVars

-----------------------------------------------------------------------------
(* A client that pages through the trace while it grows gets every record   *)
(* once, whole and in order, and its cursor stays after the last of them; a *)
(* cursor inside a record is refused, not read from (crow_ii.read_trace).   *)
TracePagesAreExact ==
  /\ traceReader.got = [k \in 1..Len(traceReader.got) |-> k]
  /\ traceReader.cursor = Len(traceReader.got) * RecordSize
  /\ traceReader.cursor <= bytes
  /\ traceReader.more => traceReader.cursor < bytes
=============================================================================
