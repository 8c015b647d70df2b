----------------------------- MODULE ByteStuffing ---------------------------
(***************************************************************************)
(* The byte stuffing of Dynamixel protocol 2 (protocol2_packet_handler):   *)
(* the parameters of a packet must not hold the header FF FF FD, so        *)
(* addStuffing puts another FD behind each one, in place and from the end, *)
(* and removeStuffing takes it out again, in place and from the start.     *)
(* One turn of a loop is one step.  The sender and the receiver follow the *)
(* same protocol: what one stuffed the other unstuffs.                     *)
(***************************************************************************)
EXTENDS Integers, Sequences, FiniteSets

CONSTANTS
  OtherByte,     \* a byte that is neither FF nor FD
  ParamLengths   \* numbers of parameters a packet has

ASSUME ByteStuffingAssumption == ParamLengths \subseteq Nat /\ OtherByte \notin {255, 253}

VARIABLES
  params,      \* the parameters as they were handed over
  packet,      \* the array, from index 0
  packet_len,  \* DXL_MAKEWORD(packet[PKT_LENGTH_L], packet[PKT_LENGTH_H])
  stuff_phase, \* "add", "adding", "remove", "removing", "done"
  from_index,  \* in_index; i in removeStuffing
  to_index     \* out_index; index in removeStuffing

stuffingVars == <<params, packet, packet_len, stuff_phase, from_index, to_index>>

FF == 255
FD == 253
PacketBytes == {FF, FD, OtherByte}

PKT_INSTRUCTION == 7

\* Room for a stuffing byte behind every third parameter
PacketEnd(n) == 9 + n + n \div 3

\* Header, id, length and instruction; the parameters; the CRC, which is filled in later
Packet(p) ==
  [i \in 0 .. PacketEnd(Len(p)) |->
     IF i \in 8 .. 7 + Len(p) THEN p[i - 7]
     ELSE IF i \in {0, 1} THEN FF
     ELSE IF i = 2 THEN FD
     ELSE OtherByte]

ByteStuffingInit ==
  /\ params \in UNION {[1 .. n -> PacketBytes] : n \in ParamLengths}
  /\ packet = Packet(params)
  /\ packet_len = Len(params) + 3
  /\ stuff_phase = "add" /\ from_index = 0 /\ to_index = 0

-----------------------------------------------------------------------------
IsHeader(at) == packet[at] = FF /\ packet[at + 1] = FF /\ packet[at + 2] = FD

\* Mutant: the first parameter is not looked at.
HeadersInParamsLate == {i \in 4 .. packet_len - 3 : IsHeader(i + PKT_INSTRUCTION - 2)}

HeadersInParams == {i \in 3 .. packet_len - 3 : IsHeader(i + PKT_INSTRUCTION - 2)}

\* The count of the bytes to add; nothing to do for none, or for a packet too short.
AddStuffing ==
  /\ stuff_phase = "add"
  /\ LET out == packet_len + Cardinality(HeadersInParams)
     IN  IF packet_len < 8 \/ out = packet_len
         THEN stuff_phase' = "remove" /\ UNCHANGED <<packet_len, from_index, to_index>>
         ELSE /\ stuff_phase' = "adding"
              /\ packet_len' = out
              /\ from_index' = packet_len + 4 /\ to_index' = out + 4
  /\ UNCHANGED <<params, packet>>

\* The loop that moves the parameters back, three bytes at once behind a stuffing byte.
AddStuffingTurn ==
  /\ stuff_phase = "adding" /\ to_index # from_index
  /\ LET in == from_index
         out == to_index
     IN  IF packet[in] = FD /\ packet[in - 1] = FF /\ packet[in - 2] = FF
         THEN IF out - 1 # in
              THEN /\ packet' = [packet EXCEPT ![out] = FD, ![out - 1] = packet[in],
                                               ![out - 2] = packet[in - 1],
                                               ![out - 3] = packet[in - 2]]
                   /\ from_index' = in - 3 /\ to_index' = out - 4
              ELSE /\ packet' = [packet EXCEPT ![out] = FD]
                   /\ from_index' = in /\ to_index' = out - 1
         ELSE /\ packet' = [packet EXCEPT ![out] = packet[in]]
              /\ from_index' = in - 1 /\ to_index' = out - 1
  /\ UNCHANGED <<params, packet_len, stuff_phase>>

AddStuffingEnds ==
  /\ stuff_phase = "adding" /\ to_index = from_index
  /\ stuff_phase' = "remove"
  /\ UNCHANGED <<params, packet, packet_len, from_index, to_index>>

-----------------------------------------------------------------------------
RemoveStuffing ==
  /\ stuff_phase = "remove"
  /\ stuff_phase' = "removing"
  /\ from_index' = 0 /\ to_index' = PKT_INSTRUCTION
  /\ UNCHANGED <<params, packet, packet_len>>

\* FF FF FD FD: the byte is left out. The two bytes before it are read from the array that is
\* being written.
IsStuffed(i) ==
  /\ packet[i + PKT_INSTRUCTION] = FD /\ packet[i + PKT_INSTRUCTION + 1] = FD
  /\ packet[i + PKT_INSTRUCTION - 1] = FF /\ packet[i + PKT_INSTRUCTION - 2] = FF

RemoveStuffingTurn ==
  /\ stuff_phase = "removing" /\ from_index < packet_len - 2
  /\ LET i == IF IsStuffed(from_index) THEN from_index + 1 ELSE from_index
     IN  /\ packet' = [packet EXCEPT ![to_index] = packet[i + PKT_INSTRUCTION]]
         /\ from_index' = i + 1 /\ to_index' = to_index + 1
  /\ UNCHANGED <<params, packet_len, stuff_phase>>

\* Mutant: the length stays that of the stuffed packet.
RemoveStuffingEndsKeepsLength ==
  /\ stuff_phase = "removing" /\ from_index >= packet_len - 2
  /\ stuff_phase' = "done"
  /\ packet' = [packet EXCEPT ![to_index] = packet[PKT_INSTRUCTION + packet_len - 2],
                              ![to_index + 1] = packet[PKT_INSTRUCTION + packet_len - 1]]
  /\ UNCHANGED <<params, packet_len, from_index, to_index>>

\* The CRC is moved behind the parameters, and the length is what is left.
RemoveStuffingEnds ==
  /\ stuff_phase = "removing" /\ from_index >= packet_len - 2
  /\ stuff_phase' = "done"
  /\ packet' = [packet EXCEPT ![to_index] = packet[PKT_INSTRUCTION + packet_len - 2],
                              ![to_index + 1] = packet[PKT_INSTRUCTION + packet_len - 1]]
  /\ packet_len' = to_index + 2 - PKT_INSTRUCTION
  /\ UNCHANGED <<params, from_index, to_index>>

ByteStuffingNext ==
  \/ AddStuffing \/ AddStuffingTurn \/ AddStuffingEnds
  \/ RemoveStuffing \/ RemoveStuffingTurn \/ RemoveStuffingEnds

ByteStuffingSpec == ByteStuffingInit /\ [][ByteStuffingNext]_stuffingVars

-----------------------------------------------------------------------------
(* Properties                                                              *)

\* The types, and the indices inside the array: the writer never overtakes the reader.
ByteStuffingTypeOK ==
  /\ stuff_phase \in {"add", "adding", "remove", "removing", "done"}
  /\ packet \in [0 .. PacketEnd(Len(params)) -> PacketBytes]
  /\ stuff_phase = "adding" => PKT_INSTRUCTION < from_index /\ from_index <= to_index
  /\ stuff_phase = "removing" => to_index <= from_index + PKT_INSTRUCTION

\* What goes over the line holds no header behind its own, whatever the parameters of an
\* instruction that writes are: every FF FF FD is followed by FD.
NoHeaderInParams ==
  stuff_phase = "remove" /\ Len(params) >= 5 =>
    \A i \in 8 .. packet_len + 2 : IsHeader(i) => packet[i + 3] = FD

Received == [i \in 1 .. packet_len - 3 |-> packet[i + 7]]

HasFfFdFd(p) == \E i \in 1 .. Len(p) - 2 : p[i] = FF /\ p[i + 1] = FD /\ p[i + 2] = FD

\* Parameters without FF FD FD come back as they were handed over, however many headers they
\* hold.
PlainParamsSurvive ==
  stuff_phase = "done" /\ ~HasFfFdFd(params) => Received = params

\* protocol2_packet_handler.cpp: removeStuffing takes out the second FD of "FF FF FD FD", and
\* nothing else: the parameters that arrive are those that were sent.
ParamsSurvive == stuff_phase = "done" => Received = params

\* The stuffing hides every header from the line, and is undone where it can be.
StuffingHidesHeaders == NoHeaderInParams /\ PlainParamsSurvive
=============================================================================
