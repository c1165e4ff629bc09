------------------------------ MODULE EventData ------------------------------
(***************************************************************************)
(* All that ExecEnvUserData keeps for the natives of one environment: the  *)
(* start time of BenchmarkClock, and the event, an id and data, which the  *)
(* host sets between two calls and the guest copies into buffers of its    *)
(* own.  The bytes are abstracted to how many of them there are; a copy is *)
(* a prefix.                                                               *)
(*                                                                         *)
(* Sizes are size_t in the host and 32 bits wide in the guest.             *)
(***************************************************************************)
EXTENDS BenchmarkClock

CONSTANTS
  Sizes,       \* the sizes of events the host may be given
  Lens,        \* the sizes of buffers the guest may have
  WasmModulus  \* the number of values of uint32_t

ASSUME WasmModulusAssumption == WasmModulus \in Nat \ {0}
ASSUME EventSizesAssumption  == Sizes \subseteq Nat
ASSUME LensAssumption        == Lens \subseteq 0 .. WasmModulus - 1

VARIABLES
  event,  \* the sizes of m_eventId and m_eventData
  told,   \* the sizes the guest was told last, as argument or by a native
  buffer  \* the last copy of each that the guest asked for in this call

eventVars == <<event, told, buffer>>
userDataVars == <<vars, eventVars>>

Fields == {"id", "data"}
UInt32 == 0 .. WasmModulus - 1

\* len bytes of room, written to some extent, and the result of the native.
Buffers == [len : UInt32, written : Nat, answer : UInt32]
NoBuffer == [len |-> 0, written |-> 0, answer |-> 0]

EventTypeOK ==
  /\ TypeOK
  /\ event  \in [Fields -> Nat]
  /\ told   \in [Fields -> UInt32]
  /\ buffer \in [Fields -> Buffers]

EventInit ==
  /\ Init
  /\ event  = [f \in Fields |-> 0]
  /\ told   = [f \in Fields |-> 0]
  /\ buffer = [f \in Fields |-> NoBuffer]

\* A size_t returned or cast as uint32_t.
Narrow(n) == n % WasmModulus

\* A variant of SetEvent that takes events of any size.
SetEventUnchecked(f, n) ==
  /\ guest = "host"
  /\ event' = [event EXCEPT ![f] = n]
  /\ UNCHANGED <<told, buffer, vars>>

\* SetEventId, SetEventData; they throw if the guest could not tell the size.
SetEvent(f, n) ==
  /\ guest = "host"
  /\ n < WasmModulus
  /\ event' = [event EXCEPT ![f] = n]
  /\ UNCHANGED <<told, buffer, vars>>

\* The call passes both sizes to the main function of the guest.
CallWithSizes ==
  /\ Call
  /\ told' = [f \in Fields |-> Narrow(event[f])]
  /\ buffer' = [f \in Fields |-> NoBuffer]
  /\ UNCHANGED event

\* decent_wasm_get_event_id_len, decent_wasm_get_event_data_len.
GetEventLen(f) ==
  /\ guest # "host"
  /\ told' = [told EXCEPT ![f] = Narrow(event[f])]
  /\ UNCHANGED <<event, buffer, vars>>

\* cpSize.
CopySize(len, size) == IF len <= size THEN len ELSE size

\* decent_wasm_get_event_id, decent_wasm_get_event_data, into len bytes that
\* WAMR has found inside the guest's memory.
GetEvent(f, len) ==
  /\ guest # "host"
  /\ buffer' = [buffer EXCEPT ![f] =
       [len |-> len, written |-> CopySize(len, event[f]), answer |-> Narrow(event[f])]]
  /\ UNCHANGED <<event, told, vars>>

\* What else happens on the environment.
TimingStep ==
  /\ \/ \E d \in Steps : Tick(d)
     \/ \E c \in UInt64 : SetClock(c)
     \/ StartBenchmark
     \/ StopBenchmark
     \/ Aborts
     \/ Returns
  /\ UNCHANGED eventVars

EventNext ==
  \/ TimingStep
  \/ CallWithSizes
  \/ \E f \in Fields :
       \/ \E n \in Sizes : SetEvent(f, n)
       \/ GetEventLen(f)
       \/ \E len \in Lens : GetEvent(f, len)

EventSpec == EventInit /\ [][EventNext]_userDataVars

-----------------------------------------------------------------------------
(* Properties.                                                             *)

\* A copy stays in the buffer, and a guest that is told, by the arguments of
\* its call, by the len native or by the copy itself, that its buffer has room
\* for the event has the whole event in it: no size is lost on its way to 32
\* bits.
RoomMeansWhole ==
  \A f \in Fields :
    LET b == buffer[f] IN
    guest # "host" /\ b # NoBuffer =>
      /\ b.written <= b.len
      /\ told[f] <= b.len \/ b.answer <= b.len => b.written = event[f]
=============================================================================
