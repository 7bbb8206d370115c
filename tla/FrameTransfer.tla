--------------------------- MODULE FrameTransfer ---------------------------
(***************************************************************************)
(* One frame from the panel to the monitor, and its answer back.           *)
(*                                                                         *)
(* sendAcyclicFrame turns a FrameConfig into a packet; the monitor's       *)
(* parser turns the packet into the transaction it shows; the simulator's  *)
(* answer to an RT -> BC command becomes the frame's new data.  The steps  *)
(* are those of one frame, so that what the two ends make of the same      *)
(* bytes can be compared.                                                  *)
(*                                                                         *)
(* A data field is free text of up to four characters: NotHex when stoul   *)
(* rejects it, else its number, which a minus sign makes a large one.      *)
(***************************************************************************)
EXTENDS TcpPacket

CONSTANTS
    Rts, Sas, Wcs,  \* what the combo boxes of the edit window offer
    DataFields,     \* contents of the 32 data fields
    Answers,        \* [wc, words] the simulator may answer with
    Leftovers       \* contents of an uninitialized word on the stack

NotHex == -1
BcMode == {"BC_TO_RT", "RT_TO_BC", "RT_TO_RT", "MODE_CODE_NO_DATA", "MODE_CODE_WITH_DATA"}

ASSUME ComboAssumption ==
    Rts \subseteq 0..31 /\ Sas \subseteq 0..31 /\ Wcs \subseteq 0..MaxWords
ASSUME WidthAssumption == MaxWords <= 32
ASSUME DataAssumption == DataFields \subseteq [1..MaxWords -> Nat \cup {NotHex}]
ASSUME AnswersAssumption == Answers \subseteq [wc : Byte, words : [1..MaxWords -> Word]]
ASSUME LeftoversAssumption == Leftovers \subseteq Word /\ Leftovers # {}

VARIABLES
    step,       \* how far the frame has got
    config,     \* m_config of the frame component
    sent,       \* m_config when the packet was built
    packet,     \* the bytes on the wire
    shown,      \* the transaction the monitor shows
    reply,      \* the simulator's answer
    received    \* sendFrame's array of received words

vars == <<step, config, sent, packet, shown, reply, received>>

Config == [mode : BcMode, rt : Rts, sa : Sas, wc : Wcs,
           data : [1..MaxWords -> Nat \cup {NotHex}]]

NoReply == [wc |-> 0, words |-> [i \in 1..MaxWords |-> 0]]
NoTransaction == [at |-> 0, cmd1 |-> 0, words |-> <<>>]

TypeOK ==
    /\ step \in {"edited", "sent", "monitored", "returned", "updated"}
    /\ config \in Config /\ sent \in Config
    /\ packet \in Seq(Byte)
    /\ shown \in Transaction
    /\ reply.wc \in Byte /\ reply.words \in [1..MaxWords -> Word]
    /\ received \in [1..MaxWords -> Word]

\* The array has no initializer: what is in it is whatever was on the stack.
Init ==
    /\ step = "edited"
    /\ config \in [mode : BcMode, rt : Rts, sa : Sas, wc : Wcs, data : DataFields]
    /\ sent = config
    /\ packet = <<>>
    /\ shown = NoTransaction
    /\ reply = NoReply
    /\ \E w \in Leftovers : received = [i \in 1..MaxWords |-> w]

----------------------------------------------------------------------------
\* Wrong variant: the mode values of the packet's declaration, 1 RX and 2 TX.
DeclaredModeByte(mode) == IF mode = "RT_TO_BC" THEN 2 ELSE 1

\* The mode byte: only RT -> BC is a transmit command.
ModeByte(mode) == IF mode = "RT_TO_BC" THEN ModeTx ELSE ModeRx

\* (uint16_t) stoul(field, nullptr, 16), 0 when it throws.
FieldWord(field) == IF field = NotHex THEN 0 ELSE field % 65536

\* htons: the high byte goes first.
HighByte(word) == word \div 256
LowByte(word) == word % 256

\* Wrong variant: the bytes of a word in host order.
HostOrderPacket(c) ==
    [i \in 1..PacketBytes |->
        IF i <= HeaderBytes
        THEN <<Magic0, Magic1, ModeByte(c.mode), c.rt, c.sa, c.wc>>[i]
        ELSE LET word == FieldWord(c.data[(i - HeaderBytes + 1) \div 2])
             IN  IF i % 2 = 1 THEN LowByte(word) ELSE HighByte(word)]

\* The packet sendAcyclicFrame writes: always header and whole payload.
BuildPacket(c) ==
    [i \in 1..PacketBytes |->
        IF i <= HeaderBytes
        THEN <<Magic0, Magic1, ModeByte(c.mode), c.rt, c.sa, c.wc>>[i]
        ELSE LET word == FieldWord(c.data[(i - HeaderBytes + 1) \div 2])
             IN  IF i % 2 = 1 THEN HighByte(word) ELSE LowByte(word)]

SendAcyclicFrame ==
    /\ step = "edited"
    /\ packet' = BuildPacket(config)
    /\ sent' = config
    /\ step' = "sent"
    /\ UNCHANGED <<config, shown, reply, received>>

\* The monitor's parser decodes the packet it has sniffed.
MonitorDecodes ==
    /\ step = "sent"
    /\ Len(packet) >= PacketBytes /\ HasMagic(packet) /\ ValidMode(packet[3])
    /\ shown' = Decode(packet, 0)
    /\ step' = "monitored"
    /\ UNCHANGED <<config, sent, packet, reply, received>>

\* How many words of the answer sendAcyclicFrame copies.
ReceivedWords(r) == IF r.wc = 0 \/ r.wc > MaxWords THEN MaxWords ELSE r.wc

\* Wrong variant: takes the word count of the request.
AnswerByRequest ==
    /\ step = "monitored" /\ config.mode = "RT_TO_BC"
    /\ reply' \in Answers
    /\ received' = [i \in 1..MaxWords |->
                       IF i <= config.wc THEN reply'.words[i] ELSE received[i]]
    /\ step' = "returned"
    /\ UNCHANGED <<config, sent, packet, shown>>

\* An RT -> BC frame is answered; only the answer's words are copied.
AnswerArrives ==
    /\ step = "monitored" /\ config.mode = "RT_TO_BC"
    /\ reply' \in Answers
    /\ received' = [i \in 1..MaxWords |->
                       IF i <= ReceivedWords(reply') THEN reply'.words[i] ELSE received[i]]
    /\ step' = "returned"
    /\ UNCHANGED <<config, sent, packet, shown>>

\* Any other frame is sent without waiting for an answer.
NoAnswerExpected ==
    /\ step = "monitored" /\ config.mode # "RT_TO_BC"
    /\ step' = "returned"
    /\ UNCHANGED <<config, sent, packet, shown, reply, received>>

\* sendFrame posts all 32 received words into the frame's configuration.
UpdateFrameData ==
    /\ step = "returned" /\ config.mode \in {"RT_TO_BC", "RT_TO_RT"}
    /\ config' = [config EXCEPT !.data = received]
    /\ step' = "updated"
    /\ UNCHANGED <<sent, packet, shown, reply, received>>

Next ==
    \/ SendAcyclicFrame \/ MonitorDecodes
    \/ AnswerArrives \/ NoAnswerExpected \/ UpdateFrameData

Spec == Init /\ [][Next]_vars
----------------------------------------------------------------------------
Monitored == step \in {"monitored", "returned", "updated"}

(***************************************************************************)
(* The monitor shows the frame that was configured: its RT, SA, direction  *)
(* and word count, and the first WC of its data words, where a WC of 0     *)
(* means all of them and a field that is not a number means 0.             *)
(***************************************************************************)
MonitorShowsFrame ==
    Monitored =>
        LET words == IF sent.wc = 0 THEN MaxWords ELSE sent.wc
        IN  /\ RtOf(shown.cmd1) = sent.rt
            /\ SaOf(shown.cmd1) = sent.sa
            /\ TrOf(shown.cmd1) = 1 <=> sent.mode = "RT_TO_BC"
            /\ Len(shown.words) = words
            /\ \A i \in 1..words :
                   shown.words[i] = IF sent.data[i] = NotHex THEN 0 ELSE sent.data[i] % 65536

(***************************************************************************)
(* Every packet the bus controller writes is a whole packet the parser     *)
(* accepts, so the monitor never loses sync on the program's own traffic.  *)
(***************************************************************************)
PacketAccepted ==
    step # "edited" =>
        /\ Len(packet) = 6 + 2 * MaxWords
        /\ packet[1] = 170 /\ packet[2] = 85 /\ packet[3] \in {0, 1}

(***************************************************************************)
(* The words of an answer appear in the frame's data, as many as the       *)
(* answer says it has.                                                     *)
(***************************************************************************)
AnswerShown ==
    step = "updated" /\ config.mode = "RT_TO_BC" =>
        \A i \in 1..(IF reply.wc \in 1..MaxWords THEN reply.wc ELSE MaxWords) :
            config.data[i] = reply.words[i]

(***************************************************************************)
(* An RT -> BC command carries no data of its own: its payload is zero.    *)
(***************************************************************************)
TransmitPayloadZero ==
    step # "edited" /\ sent.mode = "RT_TO_BC" =>
        \A i \in (HeaderBytes + 1)..Len(packet) : packet[i] = 0

\* The command word in brackets in the frame's summary line.
SummaryCommandWord(c) == 2048 * (c.rt % 32) + 32 * c.sa + (c.wc % 32)

(***************************************************************************)
(* The command word in the frame's summary is the one on the bus.          *)
(***************************************************************************)
SummaryMatches == Monitored => SummaryCommandWord(sent) = shown.cmd1

(***************************************************************************)
(* Sending a frame changes its data only to words that were received.      *)
(***************************************************************************)
OnlyReceivedData ==
    step = "updated" =>
        \A i \in 1..MaxWords :
            config.data[i] # sent.data[i] =>
                /\ config.mode = "RT_TO_BC"
                /\ i <= ReceivedWords(reply)
============================================================================
