----------------------------- MODULE PcapReplay ----------------------------
(***************************************************************************)
(* The device manager that reads packets from capture files: FilesDevMgrImp*)
(* (dev_mgr.cpp), PcapFilesReader and PcapFilesWriter (pcap_file.cpp).  One *)
(* file per port is read and one is written.  A packet is its time; the    *)
(* packets of a file are sorted by time, as pcap_file.h assumes.  The      *)
(* vector of files has no lock: a port that is added while the reader goes *)
(* over it is seen from the next scan on.                                  *)
(***************************************************************************)
EXTENDS PacketPipe, FiniteSets, FiniteSetsExt

CONSTANTS
  ReplayInputs,    \* contents of the files: sets of sequences of times
  ReplayPorts,     \* ports that packets are sent to
  ReplayMaxFiles,  \* bound on ports that are added
  ReplayMaxTime,   \* bound on the clock
  ReplayMaxOut     \* bound on packets that are sent out

ASSUME ReplayAssumption ==
  /\ ReplayMaxTime \in Nat
  /\ \A f \in ReplayInputs : f \in Seq(Nat) /\ \A i \in 1..Len(f) - 1 : f[i] <= f[i + 1]

VARIABLES
  rpTiming,        \* respectTiming
  rpFiles,         \* files: [port, times, pos, state]
  rpOut,           \* packets written, for each port that has a file
  rpThread,        \* "none", "start", "scan", "sleep", "fire", "end" or "exit"
  rpNonEmpty,      \* nonEmptyFiles
  rpIndex,         \* scheduledIndex
  rpFirst,         \* firstPacketTime
  rpStart,         \* startTime
  rpNow, rpUntil,  \* the clock, and when the sleep ends
  rpSent,          \* packets handed over: [file, time, at] (history)
  rpLate           \* files added after start had gone over them (history)

rpVars == <<rpTiming, rpFiles, rpOut, rpThread, rpNonEmpty, rpIndex, rpFirst, rpStart,
            rpNow, rpUntil, rpSent, rpLate>>

ReplayInit ==
  /\ rpTiming \in BOOLEAN
  /\ rpFiles = <<>> /\ rpOut = <<>>
  /\ rpThread = "none" /\ rpNonEmpty = 0 /\ rpIndex = 0
  /\ rpFirst = 0 /\ rpStart = 0 /\ rpNow = 0 /\ rpUntil = 0
  /\ rpSent = <<>> /\ rpLate = {}

-----------------------------------------------------------------------------
\* moveNext: the file goes to its next packet, or to its end.
MoveNext(f) ==
  IF f.state # "AtEnd" /\ f.pos < Len(f.times)
  THEN [f EXCEPT !.pos = @ + 1, !.state = "Reading"]
  ELSE [f EXCEPT !.state = "AtEnd"]

\* current(): the time of the packet a file is at.
TimeOf(i) == rpFiles[i].times[rpFiles[i].pos]

\* port_add_: a file to read and one to write.  A port that is added again gets
\* a second file to read and keeps the first one to write.
ReplayPortAdd(p, times) ==
  /\ rpThread # "exit" /\ Len(rpFiles) < ReplayMaxFiles
  /\ rpFiles' = Append(rpFiles, [port |-> p, times |-> times, pos |-> 0, state |-> "Opened"])
  /\ rpOut' = [q \in DOMAIN rpOut \cup {p} |-> IF q \in DOMAIN rpOut THEN rpOut[q] ELSE 0]
  /\ rpLate' = IF rpThread \in {"none", "start"} THEN rpLate
               ELSE rpLate \cup {Len(rpFiles) + 1}
  /\ UNCHANGED <<rpTiming, rpThread, rpNonEmpty, rpIndex, rpFirst, rpStart, rpNow, rpUntil,
                 rpSent>>

\* start_: the reader's thread begins with the wait for the switch.
ReplayStart ==
  /\ rpThread = "none" /\ rpThread' = "start"
  /\ UNCHANGED <<rpTiming, rpFiles, rpOut, rpNonEmpty, rpIndex, rpFirst, rpStart, rpNow,
                 rpUntil, rpSent, rpLate>>

\* PcapFilesReader::start, from the wait on.
ReaderStart ==
  LET moved == [i \in DOMAIN rpFiles |-> MoveNext(rpFiles[i])]
      reading == {i \in DOMAIN moved : moved[i].state = "Reading"}
  IN /\ rpThread = "start" /\ rpThread' = "scan"
     /\ rpFiles' = moved
     /\ rpNonEmpty' = Cardinality(reading)
     /\ rpFirst' = IF reading = {} THEN rpFirst ELSE Min({moved[i].times[1] : i \in reading})
     /\ rpStart' = rpNow
     /\ UNCHANGED <<rpTiming, rpOut, rpIndex, rpNow, rpUntil, rpSent, rpLate>>

\* The file scan chooses among those in S: the first one with the least time.
Earliest(S) ==
  CHOOSE i \in S : \A j \in S : TimeOf(i) < TimeOf(j) \/ (TimeOf(i) = TimeOf(j) /\ i <= j)

ScanEnd ==
  /\ rpThread = "scan" /\ rpNonEmpty = 0
  /\ rpThread' = "end"
  /\ UNCHANGED <<rpTiming, rpFiles, rpOut, rpNonEmpty, rpIndex, rpFirst, rpStart, rpNow,
                 rpUntil, rpSent, rpLate>>

\* current() of a file nobody called moveNext for is a fatal error: exit(1).
ScanFatal ==
  /\ rpThread = "scan" /\ rpNonEmpty > 0
  /\ \E i \in DOMAIN rpFiles : rpFiles[i].state = "Opened"
  /\ rpThread' = "exit"
  /\ UNCHANGED <<rpTiming, rpFiles, rpOut, rpNonEmpty, rpIndex, rpFirst, rpStart, rpNow,
                 rpUntil, rpSent, rpLate>>

\* scan and schedulePacket: how long the earliest packet has to wait.
ScanFiles ==
  LET open == {i \in DOMAIN rpFiles : rpFiles[i].state # "AtEnd"}
      next == Earliest(open)
      delay == IF rpTiming THEN (TimeOf(next) - rpFirst) - (rpNow - rpStart) ELSE 0
  IN /\ rpThread = "scan" /\ rpNonEmpty > 0
     /\ \A i \in open : rpFiles[i].state = "Reading"
     /\ rpIndex' = next
     /\ rpThread' = IF delay <= 0 THEN "fire" ELSE "sleep"
     /\ rpUntil' = rpNow + delay
     /\ UNCHANGED <<rpTiming, rpFiles, rpOut, rpNonEmpty, rpFirst, rpStart, rpNow, rpSent,
                    rpLate>>

\* timerFired: the packet goes to the handler, and the file moves on.
TimerFired ==
  LET f == MoveNext(rpFiles[rpIndex])
  IN /\ rpThread = "fire" \/ (rpThread = "sleep" /\ rpNow >= rpUntil)
     /\ rpSent' = Append(rpSent, [file |-> rpIndex, time |-> TimeOf(rpIndex), at |-> rpNow])
     /\ rpFiles' = [rpFiles EXCEPT ![rpIndex] = f]
     /\ rpNonEmpty' = IF f.state = "AtEnd" THEN rpNonEmpty - 1 ELSE rpNonEmpty
     /\ rpThread' = "scan"
     /\ UNCHANGED <<rpTiming, rpOut, rpIndex, rpFirst, rpStart, rpNow, rpUntil, rpLate>>

\* PcapFilesWriter::send_packet: a port without a file is ignored.
ReplaySend(p) ==
  /\ rpThread # "exit"
  /\ p \in DOMAIN rpOut /\ rpOut[p] < ReplayMaxOut
  /\ rpOut' = [rpOut EXCEPT ![p] = @ + 1]
  /\ UNCHANGED <<rpTiming, rpFiles, rpThread, rpNonEmpty, rpIndex, rpFirst, rpStart, rpNow,
                 rpUntil, rpSent, rpLate>>

ReplayClock ==
  /\ rpNow < ReplayMaxTime /\ rpNow' = rpNow + 1
  /\ UNCHANGED <<rpTiming, rpFiles, rpOut, rpThread, rpNonEmpty, rpIndex, rpFirst, rpStart,
                 rpUntil, rpSent, rpLate>>

ReplayNext ==
  \/ \E p \in ReplayPorts, times \in ReplayInputs : ReplayPortAdd(p, times)
  \/ ReplayStart \/ ReaderStart
  \/ ScanEnd \/ ScanFatal \/ ScanFiles \/ TimerFired
  \/ \E p \in ReplayPorts : ReplaySend(p)
  \/ ReplayClock

ReplaySpec == ReplayInit /\ [][ReplayNext]_rpVars

-----------------------------------------------------------------------------
ReplayTypeOK ==
  /\ \A i \in DOMAIN rpFiles : rpFiles[i].state \in {"Opened", "Reading", "AtEnd"}
  /\ rpIndex \in 0..Len(rpFiles) /\ rpNow \in 0..ReplayMaxTime
  /\ rpNonEmpty \in 0..Len(rpFiles)

\* How many packets of file i were handed over.
SentOf(i) == Cardinality({k \in DOMAIN rpSent : rpSent[k].file = i})

\* In the order of their times across the files, ties in the order of the files.
InTimeOrder ==
  \A k \in 1..Len(rpSent) - 1 :
    \/ rpSent[k].time < rpSent[k + 1].time
    \/ rpSent[k].time = rpSent[k + 1].time /\ rpSent[k].file <= rpSent[k + 1].file
NeverEarly ==
  rpTiming => \A k \in DOMAIN rpSent : rpSent[k].at - rpStart >= rpSent[k].time - rpFirst
EachOnce ==
  \A i \in DOMAIN rpFiles :
    SentOf(i) = IF rpFiles[i].state = "Reading" THEN rpFiles[i].pos - 1 ELSE rpFiles[i].pos

\* "returns packets in order of their timestamps", "only emits packets at the
\* proper times" (pcap_file.h); every packet once, all of them when the reader
\* ends; and the process exits only when a port was added while files were being
\* read.
ReplayedInOrder ==
  /\ InTimeOrder /\ NeverEarly /\ EachOnce
  /\ rpThread = "end" =>
       \A i \in DOMAIN rpFiles \ rpLate : SentOf(i) = Len(rpFiles[i].times)
  /\ rpThread = "exit" => rpLate # {}

\* Packets come and go through the ports the messages have set
\* (dev_mgr_packet_in.cpp), and those of capture files in the order of their
\* times (pcap_file.cpp).
PipeSound == PkTypeOK /\ PacketsFollowTheirPorts /\ ReplayTypeOK /\ ReplayedInOrder

-----------------------------------------------------------------------------
(* Why ReplayedInOrder holds.                                              *)
ReplayFile == [port : ReplayPorts, times : ReplayInputs, pos : Nat,
               state : {"Opened", "Reading", "AtEnd"}]
ReadingFiles == {i \in DOMAIN rpFiles : rpFiles[i].state = "Reading"}

ReplayTypes ==
  /\ rpTiming \in BOOLEAN
  /\ rpThread \in {"none", "start", "scan", "sleep", "fire", "end", "exit"}
  /\ rpFiles \in Seq(ReplayFile)
  /\ \A i \in DOMAIN rpFiles :
       /\ rpFiles[i].pos <= Len(rpFiles[i].times)
       /\ rpFiles[i].state = "Opened" => rpFiles[i].pos = 0
       /\ rpFiles[i].state = "Reading" => rpFiles[i].pos > 0
       /\ rpFiles[i].state = "AtEnd" => rpFiles[i].pos = Len(rpFiles[i].times)
  /\ rpNonEmpty = Cardinality(ReadingFiles)
  /\ rpIndex \in 0..Len(rpFiles)
  /\ rpFirst \in Nat /\ rpStart \in Nat /\ rpNow \in 0..ReplayMaxTime /\ rpUntil \in Int
  /\ rpSent \in Seq([file : Nat, time : Nat, at : Nat])
  /\ \A k \in DOMAIN rpSent : rpSent[k].file \in DOMAIN rpFiles

\* File i, at time t, comes no later than file j at its packet.
ComesBefore(i, t, j) == t < TimeOf(j) \/ (t = TimeOf(j) /\ i <= j)

\* Before start has gone over the files, nothing is read; afterwards only the
\* files added late have not been.
ReplayBegun ==
  IF rpThread \in {"none", "start"}
  THEN rpSent = <<>> /\ rpLate = {} /\ \A i \in DOMAIN rpFiles : rpFiles[i].state = "Opened"
  ELSE \A i \in DOMAIN rpFiles : rpFiles[i].state = "Opened" => i \in rpLate

\* The packet that is scheduled is the earliest of those that are being read, and
\* the sleep lasts until it is due.
ReplayScheduled ==
  rpThread \in {"fire", "sleep"} =>
    /\ rpIndex \in ReadingFiles
    /\ \A j \in ReadingFiles : ComesBefore(rpIndex, TimeOf(rpIndex), j)
    /\ rpTiming => (IF rpThread = "fire" THEN rpNow ELSE rpUntil) - rpStart
                     >= TimeOf(rpIndex) - rpFirst

\* Every packet that is still to come comes after the last one handed over.
ReplayAhead ==
  rpSent # <<>> =>
    \A j \in ReadingFiles :
      ComesBefore(rpSent[Len(rpSent)].file, rpSent[Len(rpSent)].time, j)

ReplayInv ==
  /\ ReplayTypes /\ ReplayBegun /\ ReplayScheduled /\ ReplayAhead /\ ReplayedInOrder
  /\ rpThread = "end" => rpNonEmpty = 0
=============================================================================
