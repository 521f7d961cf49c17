----------------------------- MODULE StepRanges -----------------------------
(***************************************************************************)
(* Which authoritative steps a client is answered with                     *)
(* (send_authoritative_steps.c), and which of them are still there         *)
(* (req_step.c, authoritative_steps.c).  The buffer holds the steps from   *)
(* its expectedReadId up to its expectedWriteId.                           *)
(***************************************************************************)
EXTENDS Integers

CONSTANTS
    Window,         \* NBS_WINDOW_SIZE
    MaxRedundancy   \* the 20 of send_authoritative_steps.c:56

ASSUME WindowAssumption == Window \in Nat /\ Window > 2
ASSUME MaxRedundancyAssumption == MaxRedundancy \in Nat \ {0}

\* Mutant: one step more is discarded than are too many.
DiscardedReadIdOneMore(readId, writeId) ==
    IF writeId - readId > Window \div 3 THEN writeId - Window \div 3 + 1 ELSE readId

\* discardAuthoritativeStepsIfBufferGettingFull: where the buffer starts then
DiscardedReadId(readId, writeId) ==
    IF writeId - readId > Window \div 3 THEN writeId - Window \div 3 ELSE readId

\* Where nimbleServerComposeAuthoritativeSteps can bring the end of the
\* buffer, up to last
ComposedWriteIds(readId, writeId, last) ==
    {w \in writeId..last : w = writeId \/ w - readId <= Window \div 2}

\* Mutant: the range starts behind the step the client waits for.
ContinuationRangeOneLate(waiting, writeId) ==
    IF writeId - waiting > MaxRedundancy
    THEN (waiting + 1)..(waiting + MaxRedundancy)
    ELSE (waiting + 1)..(writeId - 1)

\* Mutant: the range ends with the step that is still to come.
ContinuationRangeOneMore(waiting, writeId) ==
    IF writeId - waiting > MaxRedundancy
    THEN waiting..(waiting + MaxRedundancy - 1)
    ELSE waiting..writeId

\* The continuation range
ContinuationRange(waiting, writeId) ==
    IF writeId - waiting > MaxRedundancy
    THEN waiting..(waiting + MaxRedundancy - 1)
    ELSE waiting..(writeId - 1)

\* nbsPendingStepsRanges of the steps library: the steps before waiting that
\* the client does not have
PendingSteps(missing, waiting) == {s \in missing : s < waiting}

\* nimbleServerSendStepRanges: the steps of the answer
SentSteps(readId, writeId, waiting, missing) ==
    IF waiting < readId THEN {}
    ELSE PendingSteps(missing, waiting) \cup ContinuationRange(waiting, writeId)

\* nbsPendingStepsSerializeOutRanges cannot write a step that was discarded,
\* and then there is no answer.
CanSerialize(steps, readId) == \A s \in steps : s >= readId
=============================================================================
