---------------------------- MODULE LearnEngine ----------------------------
(***************************************************************************)
(* One list of the learning engine (src/bm_sim/learning.cpp): samples are  *)
(* filtered, buffered, handed to the transmit thread when the buffer is    *)
(* full or its timeout is over, and stay in the filter until the client    *)
(* acknowledges them.                                                      *)
(*                                                                         *)
(* Every part of the code that holds the list's mutex is one step; a wait  *)
(* on a condition variable ends a step.  Notifications are sent under the  *)
(* mutex (or after a flag set under it), so none is lost.  The send itself *)
(* reads buffer_id and buffer_tmp without the mutex.  Time is the flag     *)
(* due: buffer_started + timeout has passed.                               *)
(***************************************************************************)
EXTENDS Integers, Sequences, FiniteSets

CONSTANTS
  Samples,       \* what the sample builder makes of a packet
  Learner,       \* the thread that calls learn (the ingress thread)
  RpcThreads,    \* threads that may call set_max_samples
  MaxSamplesSet, \* values max_samples may be given
  MaxBuffers,    \* bound on buffer_id
  MaxResets      \* bound on the calls of reset_state

ASSUME LearnAssumption ==
  IsFiniteSet(Samples) /\ MaxBuffers \in Nat /\ MaxResets \in Nat

LearnThreads == {Learner} \cup RpcThreads

VARIABLES
  buffer,        \* samples of the current buffer; num_samples is its length
  buffer_id,
  max_samples, with_timeout, due,
  filter,        \* samples that are not acknowledged
  old_buffers,   \* buffer id -> its samples, unacked_count and freed ones
  buffer_tmp,    \* the buffer being sent
  can_swap,      \* threads in b_can_swap.wait
  woken,         \* threads that b_can_swap has woken
  tx,            \* the transmit thread
  msg,           \* the message being sent
  told,          \* history: buffer ids the client has been told
  resets,        \* history: calls of reset_state
  reacked        \* history: a freed reference was used

learnVars == <<buffer, buffer_id, max_samples, with_timeout, due, filter,
               old_buffers, buffer_tmp, can_swap, woken, tx, msg, told, resets,
               reacked>>

NoMsg == [id |-> -1, samples |-> <<>>]
NoBuffers == [i \in {} |-> {}]
Elems(s) == {s[i] : i \in DOMAIN s}

LearnTypeOK ==
  /\ buffer \in Seq(Samples) /\ buffer_tmp \in Seq(Samples)
  /\ buffer_id \in 0..MaxBuffers
  /\ max_samples \in MaxSamplesSet
  /\ with_timeout \in BOOLEAN /\ due \in BOOLEAN
  /\ filter \subseteq Samples
  /\ \A b \in DOMAIN old_buffers :
       /\ b \in 0..MaxBuffers
       /\ old_buffers[b].buffer \in Seq(Samples)
       /\ old_buffers[b].unacked_count \in Nat
       /\ old_buffers[b].freed \subseteq Nat
  /\ can_swap \subseteq LearnThreads /\ woken \subseteq LearnThreads
  /\ tx \in {"test", "wait", "timed", "send", "sent", "exited"}
  /\ msg \in [id : -1..MaxBuffers, samples : Seq(Samples)]
  /\ told \subseteq -1..MaxBuffers
  /\ resets \in 0..MaxResets
  /\ reacked \in BOOLEAN

LearnInit ==
  /\ buffer = <<>> /\ buffer_tmp = <<>> /\ buffer_id = 0
  /\ max_samples \in MaxSamplesSet
  /\ with_timeout \in BOOLEAN /\ due = FALSE
  /\ filter = {} /\ old_buffers = NoBuffers
  /\ can_swap = {} /\ woken = {}
  /\ tx = "test"
  /\ msg = NoMsg /\ told = {} /\ resets = 0 /\ reacked = FALSE

-----------------------------------------------------------------------------
\* b_can_send.notify_one: only the transmit thread waits for it.
WakeTransmit == tx' = IF tx \in {"wait", "timed"} THEN "test" ELSE tx

\* swap_buffers of buffer s: it becomes buffer_tmp.
SwapBuffers(s) ==
  /\ buffer_tmp' = s
  /\ buffer' = <<>>
  /\ due' = FALSE
  /\ buffer_id' = buffer_id + 1

\* process_full_buffer by thread t, with s in the buffer: wait for the
\* former buffer to be sent, or swap.
ProcessFullBuffer(t, s) ==
  \/ /\ buffer_tmp # <<>>
     /\ can_swap' = can_swap \cup {t}
     /\ buffer' = s
     /\ UNCHANGED <<buffer_tmp, buffer_id, due, tx>>
  \/ /\ buffer_tmp = <<>>
     /\ SwapBuffers(s)
     /\ WakeTransmit
     /\ UNCHANGED can_swap

Free(t) == t \notin can_swap \cup woken

\* add_sample of a sample that is not filtered; one that is changes nothing.
AddSample(s) ==
  LET grown == Append(buffer, s)
      old == IF buffer_id \in DOMAIN old_buffers THEN old_buffers[buffer_id]
             ELSE [buffer |-> <<>>, unacked_count |-> 0, freed |-> {}]
  IN
  /\ Free(Learner)
  /\ s \notin filter
  /\ buffer_id < MaxBuffers
  /\ filter' = filter \cup {s}
  /\ old_buffers' =
       [b \in DOMAIN old_buffers \cup {buffer_id} |->
         IF b = buffer_id
         THEN [old EXCEPT !.buffer = Append(@, s), !.unacked_count = @ + 1]
         ELSE old_buffers[b]]
  /\ \/ /\ Len(grown) = 1 /\ max_samples > 1
        /\ buffer' = grown /\ due' = FALSE    \* buffer_started = now
        /\ WakeTransmit
        /\ UNCHANGED <<buffer_tmp, buffer_id, can_swap>>
     \/ /\ ~(Len(grown) = 1 /\ max_samples > 1)
        /\ Len(grown) >= max_samples
        /\ ProcessFullBuffer(Learner, grown)
     \/ /\ Len(grown) > 1 /\ Len(grown) < max_samples
        /\ buffer' = grown
        /\ UNCHANGED <<due, tx, buffer_tmp, buffer_id, can_swap>>
  /\ UNCHANGED <<max_samples, with_timeout, woken, msg, told, resets, reacked>>

\* A thread that was waiting in process_full_buffer tests again.
SwapWoken(t) ==
  /\ t \in woken
  /\ buffer_id < MaxBuffers
  /\ woken' = woken \ {t}
  /\ ProcessFullBuffer(t, buffer)
  /\ UNCHANGED <<max_samples, with_timeout, filter, old_buffers, msg, told,
                 resets, reacked>>

SetMaxSamples(t, n) ==
  /\ Free(t)
  /\ n # max_samples
  /\ buffer_id < MaxBuffers
  /\ max_samples' = n
  /\ \/ /\ buffer # <<>> /\ Len(buffer) >= n
        /\ ProcessFullBuffer(t, buffer)
     \/ /\ ~(buffer # <<>> /\ Len(buffer) >= n)
        /\ UNCHANGED <<buffer, buffer_tmp, buffer_id, due, tx, can_swap>>
  /\ UNCHANGED <<with_timeout, filter, old_buffers, woken, msg, told, resets,
                 reacked>>

\* set_timeout does not wake the transmit thread.
SetTimeout(b) ==
  /\ with_timeout # b
  /\ with_timeout' = b
  /\ due' = FALSE
  /\ UNCHANGED <<buffer, buffer_id, max_samples, filter, old_buffers,
                 buffer_tmp, can_swap, woken, tx, msg, told, resets, reacked>>

\* The buffer's time is over.
Elapse ==
  /\ with_timeout /\ buffer # <<>> /\ ~due
  /\ due' = TRUE
  /\ UNCHANGED <<buffer, buffer_id, max_samples, with_timeout, filter,
                 old_buffers, buffer_tmp, can_swap, woken, tx, msg, told,
                 resets, reacked>>

-----------------------------------------------------------------------------
(* The transmit thread *)

\* Nothing to send yet: wait, until the buffer's deadline if it has one.
TransmitWait ==
  /\ tx = "test"
  /\ buffer_tmp = <<>>
  /\ ~with_timeout \/ buffer = <<>> \/ ~due
  /\ tx' = IF with_timeout /\ buffer # <<>> THEN "timed" ELSE "wait"
  /\ UNCHANGED <<buffer, buffer_id, max_samples, with_timeout, due, filter,
                 old_buffers, buffer_tmp, can_swap, woken, msg, told, resets,
                 reacked>>

\* wait_until returns.
TransmitTimeout ==
  /\ tx = "timed" /\ due
  /\ tx' = "test"
  /\ UNCHANGED <<buffer, buffer_id, max_samples, with_timeout, due, filter,
                 old_buffers, buffer_tmp, can_swap, woken, msg, told, resets,
                 reacked>>

\* Something to send: a full buffer, or the current one, which is swapped.
TransmitStart ==
  /\ tx = "test"
  /\ \/ /\ buffer_tmp # <<>>
        /\ UNCHANGED <<buffer, buffer_tmp, buffer_id, due>>
     \/ /\ buffer_tmp = <<>>
        /\ with_timeout /\ buffer # <<>> /\ due
        /\ buffer_id < MaxBuffers
        /\ SwapBuffers(buffer)
  /\ tx' = "send"
  /\ UNCHANGED <<max_samples, with_timeout, filter, old_buffers, can_swap,
                 woken, msg, told, resets, reacked>>

\* The message, built and sent without the mutex.
TransmitSend ==
  /\ tx = "send"
  /\ msg' = [id |-> buffer_id - 1, samples |-> buffer_tmp]
  /\ told' = told \cup {buffer_id - 1}
  /\ tx' = "sent"
  /\ UNCHANGED <<buffer, buffer_id, max_samples, with_timeout, due, filter,
                 old_buffers, buffer_tmp, can_swap, woken, resets, reacked>>

\* Mutant: nobody is told that buffer_tmp is free again.
TransmitEndNoNotify ==
  /\ tx = "sent"
  /\ buffer_tmp' = <<>>
  /\ tx' = "test" /\ msg' = NoMsg
  /\ UNCHANGED <<buffer, buffer_id, max_samples, with_timeout, due, filter,
                 old_buffers, can_swap, woken, told, resets, reacked>>

\* buffer_tmp is cleared and one thread that waits to swap is woken.
TransmitEnd ==
  /\ tx = "sent"
  /\ buffer_tmp' = <<>>
  /\ tx' = "test" /\ msg' = NoMsg
  /\ \/ can_swap = {} /\ UNCHANGED <<can_swap, woken>>
     \/ \E t \in can_swap : /\ can_swap' = can_swap \ {t}
                            /\ woken' = woken \cup {t}
  /\ UNCHANGED <<buffer, buffer_id, max_samples, with_timeout, due, filter,
                 old_buffers, told, resets, reacked>>

\* ~LearnList: the flag and the notification; the thread leaves its loop.
StopTransmit ==
  /\ tx \in {"test", "wait", "timed"}
  /\ tx' = "exited"
  /\ UNCHANGED <<buffer, buffer_id, max_samples, with_timeout, due, filter,
                 old_buffers, buffer_tmp, can_swap, woken, msg, told, resets,
                 reacked>>

-----------------------------------------------------------------------------
(* The client.  Samples of a buffer are numbered from 1 here.              *)

\* filter.erase of a freed reference: it may equal any key, or none.
ErasedFreed(f) == {f} \cup {f \ {x} : x \in f}

Without(b) == [c \in DOMAIN old_buffers \ {b} |-> old_buffers[c]]

\* ack of sample i of buffer b
Ack(b, i) ==
  LET old == old_buffers[b]
      left == old.unacked_count - 1
  IN
  /\ b \in told \cap DOMAIN old_buffers
  /\ i \in DOMAIN old.buffer
  /\ filter' \in IF i \in old.freed THEN ErasedFreed(filter)
                  ELSE {filter \ {old.buffer[i]}}
  /\ old_buffers' = IF left = 0 THEN Without(b)
                    ELSE [old_buffers EXCEPT ![b].unacked_count = left,
                                             ![b].freed = @ \cup {i}]
  /\ reacked' = (reacked \/ i \in old.freed)
  /\ UNCHANGED <<buffer, buffer_id, max_samples, with_timeout, due, buffer_tmp,
                 can_swap, woken, tx, msg, told, resets>>

\* Mutant: the whole filter is cleared for any buffer.
AckBufferClears(b) ==
  /\ b \in told \cap DOMAIN old_buffers
  /\ filter' = {}
  /\ old_buffers' = Without(b)
  /\ UNCHANGED <<buffer, buffer_id, max_samples, with_timeout, due, buffer_tmp,
                 can_swap, woken, tx, msg, told, resets, reacked>>

\* ack_buffer: the filter is cleared at once when its size says that it
\* holds nothing else.
AckBuffer(b) ==
  LET old == old_buffers[b]
      rest == filter \ {old.buffer[i] : i \in DOMAIN old.buffer \ old.freed}
  IN
  /\ b \in told \cap DOMAIN old_buffers
  /\ \/ /\ old.unacked_count = Cardinality(filter)
        /\ filter' = {}
        /\ UNCHANGED reacked
     \/ /\ old.unacked_count # Cardinality(filter)
        /\ filter' \in IF old.freed = {} THEN {rest} ELSE ErasedFreed(rest)
        /\ reacked' = (reacked \/ old.freed # {})
  /\ old_buffers' = Without(b)
  /\ UNCHANGED <<buffer, buffer_id, max_samples, with_timeout, due, buffer_tmp,
                 can_swap, woken, tx, msg, told, resets>>

LearnResetState ==
  /\ resets < MaxResets
  /\ buffer' = <<>> /\ buffer_id' = 0 /\ due' = FALSE
  /\ filter' = {} /\ old_buffers' = NoBuffers /\ buffer_tmp' = <<>>
  /\ resets' = resets + 1
  /\ UNCHANGED <<max_samples, with_timeout, can_swap, woken, tx, msg, told,
                 reacked>>

-----------------------------------------------------------------------------
TransmitStep ==
  TransmitWait \/ TransmitTimeout \/ TransmitStart \/ TransmitSend \/ TransmitEnd

LearnNext ==
  \/ \E s \in Samples : AddSample(s)
  \/ \E t \in LearnThreads : SwapWoken(t)
  \/ \E t \in RpcThreads, n \in MaxSamplesSet : SetMaxSamples(t, n)
  \/ \E b \in BOOLEAN : SetTimeout(b)
  \/ Elapse
  \/ TransmitStep
  \/ StopTransmit
  \/ \E b \in told : AckBuffer(b) \/ \E i \in 1..Cardinality(Samples) : Ack(b, i)
  \/ LearnResetState

LearnSpec == LearnInit /\ [][LearnNext]_learnVars

-----------------------------------------------------------------------------
\* The filter holds exactly what the buffers have not seen acknowledged, as
\* long as no sample was acknowledged twice: a sample is never filtered for
\* ever, ack_buffer's shortcut by size clears no other buffer's samples, and
\* late or repeated acks of a buffer, or of one from before a reset, change
\* nothing they should not.
FilterMatchesBuffers ==
  ~reacked =>
    filter = UNION {{old_buffers[b].buffer[i] :
                       i \in DOMAIN old_buffers[b].buffer \ old_buffers[b].freed}
                     : b \in DOMAIN old_buffers}

\* The id in a message names the buffer whose samples it carries, although
\* the transmit thread reads id and samples without the mutex: an ack of the
\* message acknowledges these samples.  A reset_state starts the ids again.
MessageNamesBuffer ==
  (resets = 0 /\ tx = "sent" /\ msg.id \in DOMAIN old_buffers)
    => old_buffers[msg.id].buffer = msg.samples

Pending(s) ==
  s \in Elems(buffer) \/ (s \in Elems(buffer_tmp) /\ tx # "sent")
Reported(s) == tx = "sent" /\ s \in Elems(msg.samples)

\* The transmit thread waits without a deadline, as it did before
\* set_timeout gave the buffer one.
StaleWait == tx = "wait" /\ with_timeout /\ buffer # <<>>

\* A sample that is buffered is reported to the client, whoever fills, swaps
\* and sends the buffers, unless the buffer is not full and has no timeout,
\* the thread keeps waiting under the former one, the ids of the model are
\* used up, or the list is reset or destroyed.
SampleReported ==
  \A s \in Samples :
    Pending(s) ~>
      \/ Reported(s)
      \/ []<>(~with_timeout /\ Len(buffer) < max_samples)
      \/ []StaleWait
      \/ buffer_id = MaxBuffers
      \/ resets > 0 \/ tx = "exited"

\* Filter, buffers and the message in flight agree on what is unacknowledged
\* (learning.cpp).
LearningSound == LearnTypeOK /\ FilterMatchesBuffers /\ MessageNamesBuffer

-----------------------------------------------------------------------------
(* The inductive invariant behind LearningSound.                           *)

OldBuffers ==
  [buffer : Seq(Samples), unacked_count : Nat \ {0}, freed : SUBSET Nat]

\* The positions of a buffer that are not acknowledged, and their samples.
Open(old) == DOMAIN old.buffer \ old.freed
Unacked(old) == {old.buffer[i] : i \in Open(old)}

\* Until a sample is acknowledged twice no sample is open in two places, and the
\* counts are exact.
FilterInv ==
  ~reacked =>
    /\ filter = UNION {Unacked(old_buffers[b]) : b \in DOMAIN old_buffers}
    /\ \A b, c \in DOMAIN old_buffers :
         b # c => Unacked(old_buffers[b]) \cap Unacked(old_buffers[c]) = {}
    /\ \A b \in DOMAIN old_buffers :
         LET old == old_buffers[b]
         IN  /\ old.freed \subseteq DOMAIN old.buffer
             /\ \A i, j \in Open(old) : old.buffer[i] = old.buffer[j] => i = j
             /\ old.unacked_count = Cardinality(Unacked(old))

\* Before a reset the two newest buffers are buffer_tmp and buffer, and nobody
\* swaps while the transmit thread sends.
MessageInv ==
  resets = 0 =>
    /\ DOMAIN old_buffers \subseteq 0..buffer_id
    /\ \A b \in told : b < buffer_id
    /\ tx \in {"send", "sent"} => buffer_tmp # <<>>
    /\ tx = "sent" => msg = [id |-> buffer_id - 1, samples |-> buffer_tmp]
    /\ buffer = IF buffer_id \in DOMAIN old_buffers
                THEN old_buffers[buffer_id].buffer ELSE <<>>
    /\ buffer_tmp # <<>> /\ buffer_id - 1 \in DOMAIN old_buffers =>
         old_buffers[buffer_id - 1].buffer = buffer_tmp

LearnInv ==
  /\ LearnTypeOK /\ old_buffers \in [DOMAIN old_buffers -> OldBuffers]
  /\ FilterInv /\ MessageInv
=============================================================================
