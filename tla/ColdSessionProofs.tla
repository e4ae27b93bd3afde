-------------------------- MODULE ColdSessionProofs --------------------------
(***************************************************************************)
(* Proofs about what a user client keeps pinned for DMA, for any number of *)
(* packages, memory objects, sections, generated buffers and chunks: every *)
(* object has one owner, what is ready is complete, visible and            *)
(* consistent, and the client implements ColdClient.                       *)
(***************************************************************************)
EXTENDS ColdSession, TLAPS

-----------------------------------------------------------------------------
(***************************************************************************)
(* The inductive invariant.                                                *)
(***************************************************************************)

\* TypeOK, with names for the sets it is built from.
MemoryOrNone  == Memories \cup {None}
PackageOrNone == Packages \cup {None}
CommandSets   == SUBSET Chunks
Devices       == [Chunks -> Contents]
Methods       == {"none", "stage", "prepare"}
Indexes       == 1..(SectionCount + GeneratedCount)
Calls ==
  [method : Methods, step : Steps, package : PackageOrNone, index : Indexes, chunk : Chunks,
   out : Buffers, summary : Addresses]
StageStatuses   == StageFailures \cup {"Idle", "Ok"}
SessionStatuses == SessionFailures \cup {"Idle", "Ok"}
Objects ==
  [kind : {"memory", "array", "pages", "command"}, memory : Memories, chunk : 0..ChunkCount]

TypeInv ==
  /\ driver \in {"open", "closed"}
  /\ client \in {"none", "running", "stopped"}
  /\ staged \in [ready : BOOLEAN, status : StageStatuses, packageDigest : PackageOrNone]
  /\ session \in [ready : BOOLEAN, status : SessionStatuses, addresses : Addresses]
  /\ buf \in [Slots -> Buffers]
  /\ live \subseteq Objects
  /\ call \in Calls
  /\ call.method # "none" => call.index <= Count

\* Nothing hangs on a null memory pointer.
Tidy(b) == b.memory = None => Holds(b) = {}

OwnedInv ==
  /\ EveryObjectOwnedOnce
  /\ \A s \in Slots : Tidy(buf[s])
  /\ Tidy(call.out)

\* A package or session is ready exactly if its status is Ok, a session only on a ready
\* package, and what no call is working on is empty unless it is ready.
ReadyInv ==
  /\ staged.ready <=> staged.status = "Ok"
  /\ session.ready <=> session.status = "Ok"
  /\ staged.ready => staged.packageDigest \in Packages
  /\ session.ready => staged.ready
  /\ call.method # "stage" \/ call.step = "getPci" =>
       (~staged.ready => \A s \in SectionSlots : buf[s] = EmptyBuffer)
  /\ call.method # "prepare" \/ call.step = "getPci" =>
       (~session.ready => \A s \in GeneratedSlots : buf[s] = EmptyBuffer)

StageSteps ==
  {"getPci", "plan", "lookup", "memory", "array", "chunk", "copy", "sync", "pages", "collect",
   "resolve"}
PrepareSteps ==
  {"getPci", "staged", "profile", "summary", "memory", "array", "chunk", "pages", "collect",
   "resolve", "artifacts", "copy", "sync", "sequence"}

\* The locals of a call, and the buffer it is building.
CallInv ==
  /\ call.method = "none" => call = NoCall
  /\ call.method # "none" => call.package \in Packages
  /\ call.method = "stage" => call.step \in StageSteps
  /\ call.method = "prepare" => call.step \in PrepareSteps
  /\ call.step \in {"getPci", "plan", "staged", "profile", "summary", "resolve", "artifacts"} =>
       call.index = 1
  /\ call.step \notin {"array", "chunk"} => call.out = EmptyBuffer
  /\ call.step \in {"array", "chunk"} => call.out.memory # None
  /\ call.step = "array" => call.out.commands = {}
  /\ call.step = "chunk" => call.out.array /\ call.out.commands = 1..(call.chunk - 1)

\* A stage call works on nothing but its own package.
StageInv ==
  call.method = "stage" /\ call.step # "getPci" => ~staged.ready /\ ~session.ready

\* The addresses a session takes over, from the summary or resolved.
ReusedFrom(addresses) ==
  \A i \in Reused : addresses[<<"section", i>>] = buf[<<"section", i>>].memory

\* A prepare call works on the package that is staged.
PrepareInv ==
  call.method = "prepare" /\ call.step # "getPci" =>
    /\ ~session.ready
    /\ call.step # "staged" => staged.ready /\ staged.packageDigest = call.package
    /\ call.step \notin {"staged", "profile", "summary"} => ReusedFrom(call.summary)
    /\ call.step \in {"artifacts", "copy", "sync", "sequence"} =>
         /\ ReusedFrom(session.addresses)
         /\ \A s \in GeneratedSlots : session.addresses[s] = buf[s].memory

Working == call.method # "none" /\ call.step # "getPci"

Own == IF call.method = "stage" THEN SectionSlots ELSE GeneratedSlots

\* The steps before the current buffer is there, and the loop that makes the buffers.
Opening == {"plan", "lookup", "staged", "profile", "summary", "memory", "array", "chunk"}
Looping ==
  Opening \cup {"pages", "collect"}
    \cup (IF call.method = "stage" THEN {"copy", "sync"} ELSE {})

\* The buffers the device already sees the contents of.
Done(s) ==
  IF call.method = "stage"
    THEN \/ call.step = "resolve"
         \/ s[2] < call.index
         \/ s[2] = call.index /\ call.step \in {"pages", "collect"}
    ELSE \/ call.step = "sequence"
         \/ s[2] < call.index /\ call.step \in {"copy", "sync"}

Allocated(s) == buf[s].memory # None /\ buf[s].array /\ buf[s].commands = Chunks

\* How far the buffers of the running call are.
WorkInv ==
  Working =>
    \A s \in Own :
      /\ call.step \in Looping /\ s[2] > call.index => buf[s] = EmptyBuffer
      /\ call.step \in Opening /\ s[2] = call.index => buf[s] = EmptyBuffer
      /\ call.step \in Looping \ Opening /\ s[2] = call.index => Allocated(s)
      /\ call.step = "collect" /\ s[2] = call.index => buf[s].pages
      /\ call.step \in Looping => (s[2] < call.index => Complete(s))
      /\ call.step \notin Looping => Complete(s)
      /\ Done(s) => Visible(s, SourceOf(s))
      /\ call.step = "sync" /\ s[2] = call.index =>
           /\ buf[s].host = SourceOf(s)
           /\ \A c \in 1..(call.chunk - 1) : buf[s].device[c] = SourceOf(s)

IInv == /\ TypeInv /\ OwnedInv /\ ReadyInv /\ CallInv /\ StageInv /\ PrepareInv /\ WorkInv
        /\ ReadyPackageIsVisible /\ ReadySessionIsConsistent

-----------------------------------------------------------------------------
(***************************************************************************)
(* Slots, buffers and the objects they hold.                               *)
(***************************************************************************)

LEMMA TypeInvIsTypeOK == TypeInv <=> TypeOK
BY DEF TypeInv, TypeOK, MemoryOrNone, PackageOrNone, CommandSets, Devices, Methods, Indexes,
   Calls, StageStatuses, SessionStatuses, Objects

LEMMA SlotFacts ==
  /\ \A i \in 1..SectionCount : <<"section", i>> \in SectionSlots
  /\ \A i \in 1..GeneratedCount : <<"generated", i>> \in GeneratedSlots
  /\ \A s \in SectionSlots : s[2] \in 1..SectionCount /\ s = <<"section", s[2]>>
                             /\ s \in Slots /\ s \notin GeneratedSlots
  /\ \A s \in GeneratedSlots : s[2] \in 1..GeneratedCount /\ s = <<"generated", s[2]>>
                               /\ s \in Slots /\ s \notin SectionSlots
BY DEF SectionSlots, GeneratedSlots, Slots

LEMMA ReusedSlots ==
  ASSUME NEW i \in Reused
  PROVE  <<"section", i>> \in SectionSlots /\ <<"section", i>> \in Slots
<1>1. i \in 1..SectionCount
  BY CountAssumption
<1> QED
  BY <1>1 DEF SectionSlots, Slots

\* The slot a call works on is one of its own, the only one with the call's index.
LEMMA CurrentSlot ==
  ASSUME TypeInv, call.method # "none"
  PROVE  /\ Slot \in Own /\ Slot[2] = call.index /\ Slot \in Slots
         /\ \A s \in Own : s \in Slots /\ s[2] \in 1..Count /\ (s[2] = call.index => s = Slot)
         /\ Own = (IF call.method = "stage" THEN SectionSlots ELSE GeneratedSlots)
         /\ call.index \in 1..Count /\ call.index \in Int /\ Count \in Nat
<1>1. call.index \in 1..Count /\ Count \in Nat /\ call.index \in Int
  BY CountAssumption DEF TypeInv, Calls, Indexes, Count
<1>2. Slot[2] = call.index
  BY DEF Slot
<1>3. CASE call.method = "stage"
  BY <1>1, <1>2, <1>3, SlotFacts DEF Slot, Own, Count
<1>4. CASE call.method # "stage"
  BY <1>1, <1>2, <1>4, SlotFacts DEF Slot, Own, Count
<1> QED
  BY <1>1, <1>2, <1>3, <1>4

LEMMA BufferShape ==
  Buffers = [memory : MemoryOrNone, array : BOOLEAN, commands : CommandSets, pages : BOOLEAN,
             contiguous : BOOLEAN, host : Contents, device : Devices]
BY DEF Buffers, MemoryOrNone, CommandSets, Devices

LEMMA ContentTypes ==
  /\ NoAddresses \in Addresses /\ Unwritten \in Contents /\ Zeroes \in Contents
  /\ \A p \in Packages, a \in Addresses : Content(p, a) \in Contents
<1>1. NoAddresses \in Addresses
  BY DEF NoAddresses, Addresses
<1>2. \A p \in Packages \cup {None, Zero}, a \in Addresses : Content(p, a) \in Contents
  BY DEF Content, Contents
<1> QED
  BY <1>1, <1>2 DEF Unwritten, Zeroes

LEMMA EmptyFacts ==
  /\ EmptyBuffer \in Buffers /\ EmptyBuffer.memory = None /\ EmptyBuffer.commands = {}
  /\ Holds(EmptyBuffer) = {}
<1>1. EmptyBuffer \in Buffers
  <2>1. [c \in Chunks |-> Unwritten] \in Devices
    BY ContentTypes DEF Devices
  <2>2. None \in MemoryOrNone /\ {} \in CommandSets
    BY DEF MemoryOrNone, CommandSets
  <2> QED
    BY <2>1, <2>2, ContentTypes, BufferShape DEF EmptyBuffer
<1>2. EmptyBuffer.memory = None /\ EmptyBuffer.commands = {} /\ EmptyBuffer.array = FALSE
      /\ EmptyBuffer.pages = FALSE
  BY DEF EmptyBuffer
<1>3. Holds(EmptyBuffer) = {}
  BY <1>2 DEF Holds
<1> QED
  BY <1>1, <1>2, <1>3

LEMMA HoldsFacts ==
  ASSUME NEW b, NEW o
  PROVE  /\ o \in Holds(b) <=>
              \/ b.memory # None /\ o = Object("memory", b.memory, 0)
              \/ b.array /\ o = Object("array", b.memory, 0)
              \/ b.pages /\ o = Object("pages", b.memory, 0)
              \/ \E c \in b.commands : o = Object("command", b.memory, c)
         /\ o \in Holds(b) => o.memory = b.memory
<1>1. o \in Holds(b) <=>
        \/ b.memory # None /\ o = Object("memory", b.memory, 0)
        \/ b.array /\ o = Object("array", b.memory, 0)
        \/ b.pages /\ o = Object("pages", b.memory, 0)
        \/ \E c \in b.commands : o = Object("command", b.memory, c)
  BY DEF Holds
<1>2. \A k, m, c : Object(k, m, c).memory = m
  BY DEF Object
<1> QED
  BY <1>1, <1>2

LEMMA HoldsCommand ==
  ASSUME NEW a, NEW b, NEW c, b.memory = a.memory, b.array = a.array, b.pages = a.pages,
         b.commands = a.commands \cup {c}
  PROVE  \A x : x \in Holds(b) <=> x \in Holds(a) \/ x \in {Object("command", a.memory, c)}
<1> SUFFICES ASSUME NEW x
             PROVE  x \in Holds(b) <=> x \in Holds(a) \/ x = Object("command", a.memory, c)
  OBVIOUS
<1>1. (\E d \in b.commands : x = Object("command", b.memory, d)) <=>
        (\E d \in a.commands : x = Object("command", a.memory, d))
          \/ x = Object("command", a.memory, c)
  OBVIOUS
<1> QED
  BY <1>1, HoldsFacts

LEMMA ReleasedFacts ==
  ASSUME NEW S, NEW o
  PROVE  o \in Released(S) <=> \E s \in S : o \in Holds(buf[s])
BY DEF Released

-----------------------------------------------------------------------------
(***************************************************************************)
(* Ownership.                                                              *)
(***************************************************************************)

\* An object is reachable from one place only.
LEMMA OneOwner ==
  ASSUME OwnedInv
  PROVE  /\ \A o : o \in live <=>
                     (\E s \in Slots : o \in Holds(buf[s])) \/ o \in Holds(call.out)
         /\ \A s, t \in Slots : \A o : o \in Holds(buf[s]) /\ o \in Holds(buf[t]) => s = t
         /\ \A s \in Slots : \A o : o \in Holds(buf[s]) => o \notin Holds(call.out)
<1>1. \A o : o \in live <=>
               (\E s \in Slots : o \in Holds(buf[s])) \/ o \in Holds(call.out)
  BY ReleasedFacts DEF OwnedInv, EveryObjectOwnedOnce
<1>2. ASSUME NEW s \in Slots, NEW t \in Slots, NEW o, o \in Holds(buf[s]), o \in Holds(buf[t])
      PROVE  s = t
  <2>1. o.memory = buf[s].memory /\ o.memory = buf[t].memory
    BY <1>2, HoldsFacts
  <2>2. buf[s].memory # None
    BY <1>2 DEF OwnedInv, Tidy
  <2> QED
    BY <2>1, <2>2 DEF OwnedInv, EveryObjectOwnedOnce
<1>3. ASSUME NEW s \in Slots, NEW o, o \in Holds(buf[s]), o \in Holds(call.out)
      PROVE  FALSE
  <2>1. o.memory = buf[s].memory /\ o.memory = call.out.memory
    BY <1>3, HoldsFacts
  <2>2. call.out.memory # None
    BY <1>3 DEF OwnedInv, Tidy
  <2> QED
    BY <2>1, <2>2 DEF OwnedInv, EveryObjectOwnedOnce
<1> QED
  BY <1>1, <1>2, <1>3

\* What the next state has to show.
LEMMA OwnedNext ==
  ASSUME \A o : o \in live' <=>
                  (\E s \in Slots : o \in Holds(buf'[s])) \/ o \in Holds(call'.out),
         \A s, t \in Slots :
           s # t /\ buf'[s].memory # None => buf'[s].memory # buf'[t].memory,
         \A s \in Slots : call'.out.memory # None => buf'[s].memory # call'.out.memory,
         \A s \in Slots : Tidy(buf'[s]), Tidy(call'.out)
  PROVE  OwnedInv'
<1>1. \A o : o \in Released(Slots)' <=> \E s \in Slots : o \in Holds(buf'[s])
  BY DEF Released
<1>2. live' = Released(Slots)' \cup Holds(call'.out)
  BY <1>1
<1> QED
  BY <1>2 DEF OwnedInv, EveryObjectOwnedOnce

\* Buffers are released, and the one being built with them.
LEMMA ReleaseOwned ==
  ASSUME OwnedInv, NEW S \in SUBSET Slots, buf' = ReleaseBuffers(S),
         live' = live \ (Holds(call.out) \cup Released(S)), call'.out = EmptyBuffer
  PROVE  OwnedInv'
<1>1. \A s \in Slots : buf'[s] = IF s \in S THEN EmptyBuffer ELSE buf[s]
  BY DEF ReleaseBuffers
<1>2. \A o : o \in live' <=>
               (\E s \in Slots : o \in Holds(buf'[s])) \/ o \in Holds(call'.out)
  <2> SUFFICES ASSUME NEW o
               PROVE  o \in live' <=> \E s \in Slots : o \in Holds(buf'[s])
    BY EmptyFacts
  <2>1. o \in live' <=> o \in live /\ o \notin Holds(call.out) /\ o \notin Released(S)
    OBVIOUS
  <2>2. o \in live' <=> \E s \in Slots \ S : o \in Holds(buf[s])
    BY <2>1, OneOwner, ReleasedFacts
  <2> QED
    BY <1>1, <2>2, EmptyFacts
<1>3. \A s, t \in Slots :
        s # t /\ buf'[s].memory # None => buf'[s].memory # buf'[t].memory
  BY <1>1, EmptyFacts DEF OwnedInv, EveryObjectOwnedOnce
<1>4. \A s \in Slots : Tidy(buf'[s])
  BY <1>1, EmptyFacts DEF OwnedInv, Tidy
<1>5. Tidy(call'.out)
  BY EmptyFacts DEF Tidy
<1> QED
  BY <1>2, <1>3, <1>4, <1>5, EmptyFacts, OwnedNext

\* The buffer being built gets one more object.
LEMMA BuildOwned ==
  ASSUME OwnedInv, UNCHANGED buf, NEW o, live' = live \cup {o},
         \A x : x \in Holds(call'.out) <=> x \in Holds(call.out) \/ x = o,
         call'.out.memory # None,
         call'.out.memory = call.out.memory \/ \A s \in Slots : buf[s].memory # call'.out.memory
  PROVE  OwnedInv'
<1>1. \A x : x \in live' <=>
               (\E s \in Slots : x \in Holds(buf'[s])) \/ x \in Holds(call'.out)
  BY OneOwner
<1>2. Tidy(call'.out)
  BY DEF Tidy
<1> QED
  BY <1>1, <1>2, OwnedNext DEF OwnedInv, EveryObjectOwnedOnce

\* The buffer of one slot is replaced: it takes what it held, what the call was building
\* and one or no new object of the same memory.
LEMMA SlotOwned ==
  ASSUME OwnedInv, NEW t \in Slots, NEW b, NEW X, live' = live \cup X,
         \A s \in Slots : buf'[s] = IF s = t THEN b ELSE buf[s],
         \/ call'.out = call.out /\ b.memory = buf[t].memory
            /\ (X = {} \/ b.memory # None)
            /\ \A x : x \in Holds(b) <=> x \in Holds(buf[t]) \/ x \in X
         \/ call'.out = EmptyBuffer /\ buf[t] = EmptyBuffer /\ b.memory = call.out.memory
            /\ b.memory # None
            /\ \A x : x \in Holds(b) <=> x \in Holds(call.out) \/ x \in X
  PROVE  OwnedInv'
<1>1. \A x : x \in live' <=>
               (\E s \in Slots : x \in Holds(buf'[s])) \/ x \in Holds(call'.out)
  <2> SUFFICES ASSUME NEW x
               PROVE  x \in live' <=>
                        (\E s \in Slots : x \in Holds(buf'[s])) \/ x \in Holds(call'.out)
    OBVIOUS
  <2>1. x \in live' <=> x \in live \/ x \in X
    OBVIOUS
  <2>2. (\E s \in Slots : x \in Holds(buf'[s])) <=>
          x \in Holds(b) \/ \E s \in Slots \ {t} : x \in Holds(buf[s])
    OBVIOUS
  <2>3. (\E s \in Slots : x \in Holds(buf[s])) <=>
          x \in Holds(buf[t]) \/ \E s \in Slots \ {t} : x \in Holds(buf[s])
    OBVIOUS
  <2> QED
    BY <2>1, <2>2, <2>3, OneOwner, EmptyFacts
<1>2. \A s \in Slots : Tidy(buf'[s])
  BY DEF OwnedInv, Tidy
<1>3. Tidy(call'.out)
  BY EmptyFacts DEF OwnedInv, Tidy
<1>4. \A r, s \in Slots :
        r # s /\ buf'[r].memory # None => buf'[r].memory # buf'[s].memory
  BY EmptyFacts DEF OwnedInv, EveryObjectOwnedOnce
<1>5. \A s \in Slots : call'.out.memory # None => buf'[s].memory # call'.out.memory
  BY EmptyFacts DEF OwnedInv, EveryObjectOwnedOnce
<1> QED
  BY <1>1, <1>2, <1>3, <1>4, <1>5, OwnedNext

LEMMA SlotKept ==
  ASSUME OwnedInv, NEW t \in Slots, NEW b, UNCHANGED live, call'.out = call.out,
         \A s \in Slots : buf'[s] = IF s = t THEN b ELSE buf[s],
         b.memory = buf[t].memory, \A x : x \in Holds(b) <=> x \in Holds(buf[t])
  PROVE  OwnedInv'
<1> DEFINE X == {}
<1>1. live' = live \cup X /\ X = {} /\ \A x : x \in Holds(b) <=> x \in Holds(buf[t]) \/ x \in X
  OBVIOUS
<1> HIDE DEF X
<1> QED
  BY <1>1, SlotOwned

-----------------------------------------------------------------------------
(***************************************************************************)
(* What is ready stays so while its buffers stay.                          *)
(***************************************************************************)

LEMMA PackageKept ==
  ASSUME ReadyPackageIsVisible,
         staged'.ready => /\ staged.ready /\ staged'.packageDigest = staged.packageDigest
                          /\ \A s \in SectionSlots : buf'[s] = buf[s]
  PROVE  ReadyPackageIsVisible'
BY DEF ReadyPackageIsVisible, Complete, Visible

LEMMA SessionKept ==
  ASSUME ReadySessionIsConsistent,
         session'.ready => /\ session.ready /\ staged' = staged
                           /\ session'.addresses = session.addresses
                           /\ \A s \in Slots : buf'[s] = buf[s]
  PROVE  ReadySessionIsConsistent'
<1> SUFFICES ASSUME session'.ready PROVE ReadySessionIsConsistent'
  BY DEF ReadySessionIsConsistent
<1>1. /\ session.ready /\ staged' = staged /\ session'.addresses = session.addresses
      /\ \A s \in Slots : buf'[s] = buf[s]
  OBVIOUS
<1>2. staged'.ready
  BY <1>1 DEF ReadySessionIsConsistent
<1>3. \A i \in Reused :
        session'.addresses[<<"section", i>>] = buf'[<<"section", i>>].memory
  <2> SUFFICES ASSUME NEW i \in Reused
               PROVE  session'.addresses[<<"section", i>>] = buf'[<<"section", i>>].memory
    OBVIOUS
  <2> DEFINE s == <<"section", i>>
  <2>1. s \in Slots
    BY ReusedSlots
  <2>2. session.addresses[s] = buf[s].memory
    BY <1>1 DEF ReadySessionIsConsistent
  <2> HIDE DEF s
  <2>3. session'.addresses[s] = buf'[s].memory
    BY <1>1, <2>1, <2>2
  <2> QED
    BY <2>3 DEF s
<1>4. ASSUME NEW s \in GeneratedSlots
      PROVE  /\ Complete(s)' /\ session'.addresses[s] = buf'[s].memory
             /\ Visible(s, IF s[2] <= ArtifactCount
                             THEN Content(staged.packageDigest, session.addresses)
                             ELSE Zeroes)'
  <2>1. buf'[s] = buf[s]
    BY <1>1, SlotFacts
  <2>2. Complete(s)' /\ session'.addresses[s] = buf'[s].memory
    BY <1>1, <2>1 DEF ReadySessionIsConsistent, Complete
  <2>3. Visible(s, IF s[2] <= ArtifactCount
                     THEN Content(staged.packageDigest, session.addresses) ELSE Zeroes)
    BY <1>1 DEF ReadySessionIsConsistent
  <2> QED
    BY <1>1, <2>1, <2>2, <2>3 DEF Visible
<1> QED
  BY <1>2, <1>3, <1>4 DEF ReadySessionIsConsistent

\* No call runs.
LEMMA NoCallFacts ==
  /\ NoCall \in Calls /\ NoCall.method = "none" /\ NoCall.out = EmptyBuffer
  /\ NoCall.step = "none" /\ NoCall.index = 1 /\ NoCall.chunk = 1
<1>1. 1 \in Indexes /\ 1 \in Chunks /\ None \in PackageOrNone /\ "none" \in Methods
      /\ "none" \in Steps
  BY CountAssumption DEF Indexes, Chunks, PackageOrNone, Methods, Steps
<1> QED
  BY <1>1, EmptyFacts, ContentTypes DEF NoCall, Calls

LEMMA NoCallNext ==
  ASSUME call' = NoCall
  PROVE  (CallInv /\ StageInv /\ PrepareInv /\ WorkInv)'
<1>1. call'.method = "none" /\ call'.out = EmptyBuffer /\ call'.step = "none"
  BY NoCallFacts
<1> QED
  BY <1>1 DEF CallInv, StageInv, PrepareInv, WorkInv, Working

\* A call fails and gives back what it had.
LEMMA FailInv ==
  ASSUME IInv, Working, NEW status, FailCall(status),
         status \in (IF call.method = "stage" THEN StageFailures ELSE SessionFailures)
  PROVE  IInv'
<1>1. /\ buf' = ReleaseBuffers(Own) /\ live' = live \ (Holds(call.out) \cup Released(Own))
      /\ call' = NoCall /\ UNCHANGED <<driver, client>>
  BY DEF FailCall, Own
<1>2. Own \in SUBSET Slots /\ \A s \in Slots : buf'[s] = IF s \in Own THEN EmptyBuffer ELSE buf[s]
  BY <1>1 DEF ReleaseBuffers, Own, Slots
<1>3. call.method \in {"stage", "prepare"}
  BY DEF Working, IInv, TypeInv, Calls, Methods
<1>4. IF call.method = "stage"
        THEN staged' = [IdleStaged EXCEPT !.status = status] /\ session' = session
        ELSE session' = [IdleSession EXCEPT !.status = status] /\ staged' = staged
  BY DEF FailCall
<1>5. OwnedInv'
  BY <1>1, <1>2, NoCallFacts, ReleaseOwned DEF IInv
<1>6. (CallInv /\ StageInv /\ PrepareInv /\ WorkInv)'
  BY <1>1, NoCallNext
<1>7. \/ /\ call.method = "stage" /\ ~staged'.ready /\ staged'.status = status
         /\ staged' \in [ready : BOOLEAN, status : StageStatuses, packageDigest : PackageOrNone]
         /\ session' = session /\ ~session.ready /\ Own = SectionSlots /\ status # "Ok"
      \/ /\ call.method = "prepare" /\ ~session'.ready /\ session'.status = status
         /\ session' \in [ready : BOOLEAN, status : SessionStatuses, addresses : Addresses]
         /\ staged' = staged /\ Own = GeneratedSlots /\ status # "Ok"
  <2>1. CASE call.method = "stage"
    <3>1. status \in StageStatuses /\ status # "Ok" /\ None \in PackageOrNone
      BY <2>1 DEF StageStatuses, StageFailures, PackageOrNone
    <3>2. ~session.ready
      BY <2>1 DEF IInv, StageInv, Working
    <3> QED
      BY <1>4, <2>1, <3>1, <3>2 DEF IdleStaged, Own
  <2>2. CASE call.method = "prepare"
    <3>1. status \in SessionStatuses /\ status # "Ok"
      BY <2>2 DEF SessionStatuses, SessionFailures
    <3> QED
      BY <1>4, <2>2, <3>1, ContentTypes DEF IdleSession, Own
  <2> QED
    BY <1>3, <2>1, <2>2
<1>8. TypeInv'
  <2>1. buf' \in [Slots -> Buffers]
    BY <1>1, EmptyFacts DEF ReleaseBuffers, IInv, TypeInv
  <2>2. live' \subseteq Objects /\ call' \in Calls /\ call'.method = "none"
    BY <1>1, NoCallFacts DEF IInv, TypeInv
  <2>3. staged' \in [ready : BOOLEAN, status : StageStatuses, packageDigest : PackageOrNone]
        /\ session' \in [ready : BOOLEAN, status : SessionStatuses, addresses : Addresses]
    BY <1>7 DEF IInv, TypeInv
  <2> QED
    BY <1>1, <2>1, <2>2, <2>3 DEF IInv, TypeInv
<1>9. ReadyInv'
  <2>1. CASE call.method = "stage"
    BY <1>2, <1>7, <2>1, SlotFacts DEF IInv, ReadyInv
  <2>2. CASE call.method = "prepare"
    BY <1>2, <1>7, <2>2, SlotFacts DEF IInv, ReadyInv
  <2> QED
    BY <1>3, <2>1, <2>2
<1>10. ReadyPackageIsVisible'
  BY <1>2, <1>7, SlotFacts, PackageKept DEF IInv
<1>11. ReadySessionIsConsistent'
  BY <1>7, SessionKept DEF IInv
<1> QED
  BY <1>5, <1>6, <1>8, <1>9, <1>10, <1>11 DEF IInv

-----------------------------------------------------------------------------
(***************************************************************************)
(* Releases.                                                               *)
(***************************************************************************)

\* A call at its first step, or none, holds nothing of its own.
LEMMA NothingBuilt ==
  ASSUME IInv, call = NoCall \/ call.step = "getPci"
  PROVE  call.out = EmptyBuffer /\ Holds(call.out) = {}
BY NoCallFacts, EmptyFacts DEF IInv, CallInv

LEMMA StepTo ==
  ASSUME call \in Calls, NEW st \in Steps, call' = [call EXCEPT !.step = st]
  PROVE  /\ call' \in Calls /\ call'.step = st /\ call'.method = call.method
         /\ call'.package = call.package /\ call'.index = call.index
         /\ call'.chunk = call.chunk /\ call'.out = call.out /\ call'.summary = call.summary
BY DEF Calls

\* The call goes to another step, buffer and chunk.
LEMMA MoveTo ==
  ASSUME call \in Calls, NEW st \in Steps, NEW i \in Indexes, NEW k \in Chunks,
         call' = [call EXCEPT !.step = st, !.chunk = k, !.index = i]
  PROVE  /\ call' \in Calls /\ call'.step = st /\ call'.method = call.method
         /\ call'.package = call.package /\ call'.index = i /\ call'.chunk = k
         /\ call'.out = call.out /\ call'.summary = call.summary
BY DEF Calls

LEMMA IdleTypes ==
  /\ \A st \in StageStatuses :
       [IdleStaged EXCEPT !.status = st] \in
         [ready : BOOLEAN, status : StageStatuses, packageDigest : PackageOrNone]
  /\ \A st \in SessionStatuses :
       [IdleSession EXCEPT !.status = st] \in
         [ready : BOOLEAN, status : SessionStatuses, addresses : Addresses]
  /\ IdleStaged \in [ready : BOOLEAN, status : StageStatuses, packageDigest : PackageOrNone]
  /\ IdleSession \in [ready : BOOLEAN, status : SessionStatuses, addresses : Addresses]
  /\ "BadArgument" \in StageStatuses /\ "BadArgument" \in SessionStatuses
<1>1. None \in PackageOrNone /\ "Idle" \in StageStatuses /\ "Idle" \in SessionStatuses
      /\ "BadArgument" \in StageStatuses /\ "BadArgument" \in SessionStatuses
  BY DEF PackageOrNone, StageStatuses, SessionStatuses, StageFailures, SessionFailures
<1> QED
  BY <1>1, ContentTypes DEF IdleStaged, IdleSession

\* Both are released: the package is rejected or about to be staged, or the client ends.
LEMMA ReleaseBothInv ==
  ASSUME IInv, ReleaseBoth, call = NoCall \/ (call.method = "stage" /\ call.step = "getPci"),
         session' = IdleSession,
         staged' \in {IdleStaged, [IdleStaged EXCEPT !.status = "BadArgument"]},
         driver' \in {"open", "closed"}, client' \in {"none", "running", "stopped"},
         \/ call' = NoCall
         \/ /\ call.method = "stage" /\ call.step = "getPci"
            /\ call' = [call EXCEPT !.step = "plan"]
  PROVE  IInv'
<1>1. buf' = ReleaseBuffers(Slots) /\ live' = live \ Released(Slots)
      /\ \A s \in Slots : buf'[s] = EmptyBuffer
  BY DEF ReleaseBoth, ReleaseBuffers
<1>2. call.out = EmptyBuffer /\ Holds(call.out) = {} /\ call \in Calls
  BY NothingBuilt DEF IInv, TypeInv
<1>3. ~session'.ready /\ session'.status # "Ok" /\ ~staged'.ready /\ staged'.status # "Ok"
  BY DEF IdleSession, IdleStaged
<1>4. \/ call' = NoCall
      \/ /\ call' \in Calls /\ call'.step = "plan" /\ call'.method = "stage"
         /\ call'.package = call.package /\ call'.index = call.index /\ call'.out = call.out
         /\ call.method = "stage" /\ call.step = "getPci"
  BY <1>2, StepTo DEF Steps
<1>5. call' \in Calls /\ call'.out = EmptyBuffer
  BY <1>2, <1>4, NoCallFacts
<1>6. TypeInv'
  <2>1. buf' \in [Slots -> Buffers]
    BY <1>1, EmptyFacts DEF ReleaseBuffers
  <2>2. call'.method # "none" => (call.index <= Count)'
    BY <1>4, NoCallFacts DEF IInv, TypeInv, Count
  <2>3. live' \subseteq Objects
    BY <1>1 DEF IInv, TypeInv
  <2>4. staged' \in [ready : BOOLEAN, status : StageStatuses, packageDigest : PackageOrNone]
        /\ session' \in [ready : BOOLEAN, status : SessionStatuses, addresses : Addresses]
    BY IdleTypes
  <2> QED
    BY <1>5, <2>1, <2>2, <2>3, <2>4 DEF TypeInv
<1>7. OwnedInv'
  <2>1. live' = live \ (Holds(call.out) \cup Released(Slots))
    BY <1>1, <1>2
  <2> QED
    BY <1>1, <1>5, <2>1, ReleaseOwned DEF IInv
<1>8. ReadyInv'
  BY <1>1, <1>3, SlotFacts DEF ReadyInv
<1>9. (CallInv /\ StageInv /\ PrepareInv /\ WorkInv)'
  <2>1. CASE call' = NoCall
    BY <2>1, NoCallNext
  <2>2. CASE call' # NoCall
    <3>1. /\ call'.step = "plan" /\ call'.method = "stage" /\ call'.package \in Packages
          /\ call'.index = 1 /\ call'.out = EmptyBuffer
      BY <1>2, <1>4, <2>2 DEF IInv, CallInv
    <3>2. CallInv'
      BY <3>1 DEF CallInv, StageSteps
    <3>3. StageInv' /\ PrepareInv'
      BY <1>3, <3>1 DEF StageInv, PrepareInv
    <3>4. WorkInv'
      <4> SUFFICES ASSUME NEW s \in SectionSlots
                   PROVE  buf'[s] = EmptyBuffer /\ ~(s[2] < 1)
        BY <3>1 DEF WorkInv, Own, Looping, Opening, Done
      <4> QED
        BY <1>1, SlotFacts, CountAssumption
    <3> QED
      BY <3>2, <3>3, <3>4
  <2> QED
    BY <2>1, <2>2
<1>10. ReadyPackageIsVisible' /\ ReadySessionIsConsistent'
  BY <1>3, PackageKept, SessionKept DEF IInv
<1> QED
  BY <1>6, <1>7, <1>8, <1>9, <1>10 DEF IInv

\* The session alone is released: rejected, or about to be prepared.
LEMMA ReleaseSessionInv ==
  ASSUME IInv, ReleaseSession,
         call = NoCall \/ (call.method = "prepare" /\ call.step = "getPci"),
         session' \in {IdleSession, [IdleSession EXCEPT !.status = "BadArgument"]},
         UNCHANGED <<driver, client, staged>>,
         \/ call' = NoCall
         \/ /\ call.method = "prepare" /\ call.step = "getPci"
            /\ call' = [call EXCEPT !.step = "staged"]
  PROVE  IInv'
<1>1. buf' = ReleaseBuffers(GeneratedSlots) /\ live' = live \ Released(GeneratedSlots)
      /\ (\A s \in GeneratedSlots : buf'[s] = EmptyBuffer)
      /\ (\A s \in SectionSlots : buf'[s] = buf[s])
  BY SlotFacts DEF ReleaseSession, ReleaseBuffers
<1>2. call.out = EmptyBuffer /\ Holds(call.out) = {} /\ call \in Calls
  BY NothingBuilt DEF IInv, TypeInv
<1>3. ~session'.ready /\ session'.status # "Ok"
  BY DEF IdleSession
<1>4. \/ call' = NoCall
      \/ /\ call' \in Calls /\ call'.step = "staged" /\ call'.method = "prepare"
         /\ call'.package = call.package /\ call'.index = call.index /\ call'.out = call.out
         /\ call.method = "prepare" /\ call.step = "getPci"
  BY <1>2, StepTo DEF Steps
<1>5. call' \in Calls /\ call'.out = EmptyBuffer
  BY <1>2, <1>4, NoCallFacts
<1>6. TypeInv'
  <2>1. buf' \in [Slots -> Buffers]
    BY <1>1, EmptyFacts DEF ReleaseBuffers, IInv, TypeInv
  <2>2. call'.method # "none" => (call.index <= Count)'
    BY <1>4, NoCallFacts DEF IInv, TypeInv, Count
  <2>3. live' \subseteq Objects
    BY <1>1 DEF IInv, TypeInv
  <2>4. session' \in [ready : BOOLEAN, status : SessionStatuses, addresses : Addresses]
    BY IdleTypes
  <2> QED
    BY <1>5, <2>1, <2>2, <2>3, <2>4 DEF IInv, TypeInv
<1>7. OwnedInv'
  <2>1. live' = live \ (Holds(call.out) \cup Released(GeneratedSlots))
        /\ GeneratedSlots \in SUBSET Slots
    BY <1>1, <1>2, SlotFacts
  <2> QED
    BY <1>1, <1>5, <2>1, ReleaseOwned DEF IInv
<1>8. ReadyInv'
  <2>1. call.method # "stage"
    BY NoCallFacts
  <2> QED
    BY <1>1, <1>3, <2>1 DEF IInv, ReadyInv
<1>9. (CallInv /\ StageInv /\ PrepareInv /\ WorkInv)'
  <2>1. CASE call' = NoCall
    BY <2>1, NoCallNext
  <2>2. CASE call' # NoCall
    <3>1. /\ call'.step = "staged" /\ call'.method = "prepare" /\ call'.package \in Packages
          /\ call'.index = 1 /\ call'.out = EmptyBuffer
      BY <1>2, <1>4, <2>2 DEF IInv, CallInv
    <3>2. CallInv'
      BY <3>1 DEF CallInv, PrepareSteps
    <3>3. StageInv' /\ PrepareInv'
      BY <1>3, <3>1 DEF StageInv, PrepareInv
    <3>4. WorkInv'
      <4> SUFFICES ASSUME NEW s \in GeneratedSlots
                   PROVE  buf'[s] = EmptyBuffer /\ ~(s[2] < 1)
        BY <3>1 DEF WorkInv, Own, Looping, Opening, Done
      <4> QED
        BY <1>1, SlotFacts, CountAssumption
    <3> QED
      BY <3>2, <3>3, <3>4
  <2> QED
    BY <2>1, <2>2
<1>10. ReadyPackageIsVisible' /\ ReadySessionIsConsistent'
  BY <1>1, <1>3, PackageKept, SessionKept DEF IInv
<1> QED
  BY <1>6, <1>7, <1>8, <1>9, <1>10 DEF IInv

-----------------------------------------------------------------------------
(***************************************************************************)
(* Steps that touch nothing but the locals of the call.                    *)
(***************************************************************************)

Held == UNCHANGED <<driver, client, staged, session, buf, live>>

\* With nothing else changed, only the locals have to be looked at.
LEMMA LocalsInv ==
  ASSUME IInv, Held, call' \in Calls, call'.out = call.out, call'.method # "none",
         (call.index <= Count)', (CallInv /\ StageInv /\ PrepareInv /\ WorkInv)',
         (call.method # "stage" \/ call.step = "getPci")' =>
           call.method # "stage" \/ call.step = "getPci",
         (call.method # "prepare" \/ call.step = "getPci")' =>
           call.method # "prepare" \/ call.step = "getPci"
  PROVE  IInv'
<1>1. TypeInv'
  BY DEF IInv, TypeInv, Held
<1>2. OwnedInv'
  <2>1. Released(Slots)' = Released(Slots)
    BY DEF Released, Held
  <2> QED
    BY <2>1 DEF IInv, OwnedInv, EveryObjectOwnedOnce, Held
<1>3. ReadyInv'
  BY DEF IInv, ReadyInv, Held
<1>4. ReadyPackageIsVisible' /\ ReadySessionIsConsistent'
  BY PackageKept, SessionKept DEF IInv, Held
<1> QED
  BY <1>1, <1>2, <1>3, <1>4 DEF IInv

\* A method is called with a package that was accepted.
LEMMA AcceptedInv ==
  ASSUME IInv, NEW method \in {"stage", "prepare"}, NEW p \in Packages, Accepted(method, p)
  PROVE  IInv'
<1>1. call = NoCall /\ Held
      /\ call' = [NoCall EXCEPT !.method = method, !.step = "getPci", !.package = p]
  BY DEF Accepted, GoOn, Held
<1>2. /\ call' \in Calls /\ call'.method = method /\ call'.step = "getPci"
      /\ call'.package = p /\ call'.index = 1 /\ call'.out = EmptyBuffer
  <2>1. method \in Methods /\ "getPci" \in Steps /\ p \in PackageOrNone
    BY DEF Methods, Steps, PackageOrNone
  <2> QED
    BY <1>1, <2>1, NoCallFacts DEF Calls
<1>3. (call.index <= Count)'
  BY <1>2, CountAssumption DEF Count
<1>4. CallInv'
  BY <1>2 DEF CallInv, StageSteps, PrepareSteps
<1>5. (StageInv /\ PrepareInv /\ WorkInv)'
  BY <1>2 DEF StageInv, PrepareInv, WorkInv, Working
<1> QED
  BY <1>1, <1>2, <1>3, <1>4, <1>5, NoCallFacts, LocalsInv

\* A check passed; the current buffer is not there yet.
LEMMA OpeningInv ==
  ASSUME IInv, Held, Working,
         call.step \in {"plan", "lookup", "staged", "profile", "summary"},
         call' \in Calls, call'.method = call.method, call'.package = call.package,
         call'.index = call.index, call'.out = call.out,
         \/ call.method = "stage" /\ call'.step \in {"lookup", "memory"}
         \/ call.method = "prepare" /\ call'.step \in {"profile", "summary", "memory"}
            /\ call.step \in {"staged", "profile", "summary"},
         PrepareInv'
  PROVE  IInv'
<1>1. (call.index <= Count)'
  BY DEF IInv, TypeInv, Count, Working
<1>2. CallInv'
  BY DEF IInv, CallInv, StageSteps, PrepareSteps
<1>3. StageInv'
  BY DEF IInv, StageInv, Held, Working
<1>4. WorkInv'
  <2>1. Own' = Own
    BY DEF Own
  <2>2. ASSUME NEW s \in Own
        PROVE  /\ s[2] >= call.index => buf'[s] = EmptyBuffer
               /\ s[2] < call.index => Complete(s)'
               /\ Done(s)' => Visible(s, SourceOf(s))'
    <3>1. call.index \in Int /\ s[2] \in Int
      BY <2>2, CurrentSlot DEF IInv, Working
    <3>2. call.step \in Opening /\ call.step \in Looping
      BY DEF Opening, Looping
    <3>3. s[2] >= call.index => buf'[s] = EmptyBuffer
      BY <3>1, <3>2 DEF IInv, WorkInv, Held
    <3>4. s[2] < call.index => Complete(s)'
      BY <3>2 DEF IInv, WorkInv, Held, Complete
    <3>5. Done(s)' => Visible(s, SourceOf(s))'
      BY DEF IInv, WorkInv, Held, Done, Visible, SourceOf
    <3> QED
      BY <3>3, <3>4, <3>5
  <2>3. \A s \in Own : s[2] \in Int /\ call.index \in Int
    BY CurrentSlot DEF IInv, Working
  <2>4. call'.step \in Opening /\ call'.step \in Looping' /\ call'.step \notin {"collect", "sync"}
    BY DEF Opening, Looping
  <2> QED
    BY <2>1, <2>2, <2>3, <2>4 DEF WorkInv
<1> QED
  BY <1>1, <1>2, <1>3, <1>4, LocalsInv DEF Working

LEMMA MethodOf ==
  ASSUME IInv, call.method # "none"
  PROVE  /\ call.method \in {"stage", "prepare"}
         /\ call.step \in {"plan", "lookup"} => call.method = "stage"
         /\ call.step \in {"staged", "profile", "summary", "artifacts", "sequence"} =>
              call.method = "prepare"
<1>1. call.method \in {"stage", "prepare"}
  BY DEF IInv, TypeInv, Calls, Methods
<1> QED
  BY <1>1 DEF IInv, CallInv, StageSteps, PrepareSteps

LEMMA StagePlanInv == IInv /\ (StagePlan \/ FindSection) => IInv'
<1> SUFFICES ASSUME IInv, StagePlan \/ FindSection PROVE IInv'
  OBVIOUS
<1>1. Working /\ call.method = "stage" /\ call.step \in {"plan", "lookup"}
  BY MethodOf DEF StagePlan, FindSection, At, Working
<1>2. CASE FailCall("PlanRejected") \/ FailCall("SectionLookupFailed")
  BY <1>1, <1>2, FailInv DEF StageFailures
<1>3. CASE \E st \in {"lookup", "memory"} : GoOn([call EXCEPT !.step = st])
  <2>1. PICK st \in {"lookup", "memory"} : GoOn([call EXCEPT !.step = st])
    BY <1>3
  <2>2. Held /\ call' = [call EXCEPT !.step = st] /\ call \in Calls /\ st \in Steps
    BY <2>1 DEF GoOn, Held, IInv, TypeInv, Steps
  <2>3. /\ call' \in Calls /\ call'.step = st /\ call'.method = call.method
        /\ call'.package = call.package /\ call'.index = call.index /\ call'.out = call.out
    BY <2>2, StepTo
  <2>4. PrepareInv'
    BY <1>1, <2>3 DEF PrepareInv
  <2> QED
    BY <1>1, <2>2, <2>3, <2>4, OpeningInv
<1> QED
  BY <1>2, <1>3 DEF StagePlan, FindSection

LEMMA CheckStagedInv == IInv /\ CheckStaged => IInv'
<1> SUFFICES ASSUME IInv, CheckStaged PROVE IInv'
  OBVIOUS
<1>1. Working /\ call.method = "prepare" /\ call.step = "staged"
  BY MethodOf DEF CheckStaged, At, Working
<1>2. CASE FailCall("PackageNotReady") \/ FailCall("PackageMismatch")
  BY <1>1, <1>2, FailInv DEF SessionFailures
<1>3. CASE /\ staged.ready /\ staged.packageDigest = call.package
           /\ GoOn([call EXCEPT !.step = "profile"])
  <2>2. Held /\ call' = [call EXCEPT !.step = "profile"] /\ call \in Calls
        /\ "profile" \in Steps
    BY <1>3 DEF GoOn, Held, IInv, TypeInv, Steps
  <2>3. /\ call' \in Calls /\ call'.step = "profile" /\ call'.method = call.method
        /\ call'.package = call.package /\ call'.index = call.index /\ call'.out = call.out
    BY <2>2, StepTo
  <2>4. PrepareInv'
    BY <1>1, <1>3, <2>2, <2>3 DEF IInv, PrepareInv, Held
  <2> QED
    BY <1>1, <2>2, <2>3, <2>4, OpeningInv
<1> QED
  BY <1>2, <1>3 DEF CheckStaged

LEMMA CheckProfileInv == IInv /\ CheckProfile => IInv'
<1> SUFFICES ASSUME IInv, CheckProfile PROVE IInv'
  OBVIOUS
<1>1. Working /\ call.method = "prepare" /\ call.step = "profile"
  BY MethodOf DEF CheckProfile, At, Working
<1>2. CASE \E status \in {"BoundaryRejected", "ProfileRejected", "PlanRejected"} :
             FailCall(status)
  BY <1>1, <1>2, FailInv DEF SessionFailures
<1>3. CASE GoOn([call EXCEPT !.step = "summary"])
  <2>2. Held /\ call' = [call EXCEPT !.step = "summary"] /\ call \in Calls
        /\ "summary" \in Steps
    BY <1>3 DEF GoOn, Held, IInv, TypeInv, Steps
  <2>3. /\ call' \in Calls /\ call'.step = "summary" /\ call'.method = call.method
        /\ call'.package = call.package /\ call'.index = call.index /\ call'.out = call.out
    BY <2>2, StepTo
  <2>4. PrepareInv'
    BY <1>1, <2>2, <2>3 DEF IInv, PrepareInv, Held
  <2> QED
    BY <1>1, <2>2, <2>3, <2>4, OpeningInv
<1> QED
  BY <1>2, <1>3 DEF CheckProfile

\* The addresses of the sections are read while the package they belong to is held.
LEMMA DescribeInv == IInv /\ DescribeStagedPackageDma => IInv'
<1> SUFFICES ASSUME IInv, DescribeStagedPackageDma PROVE IInv'
  OBVIOUS
<1> DEFINE summary == [s \in Slots |-> IF s \in SectionSlots THEN buf[s].memory ELSE None]
<1>1. Working /\ call.method = "prepare" /\ call.step = "summary"
  BY MethodOf DEF DescribeStagedPackageDma, At, Working
<1>2. CASE FailCall("PackageSummaryRejected")
  BY <1>1, <1>2, FailInv DEF SessionFailures
<1>3. CASE GoOn([call EXCEPT !.step = "memory", !.summary = summary])
  <2>1. summary \in Addresses
    <3>1. \A s \in Slots : buf[s] \in Buffers
      BY DEF IInv, TypeInv
    <3>2. \A s \in Slots : buf[s].memory \in MemoryOrNone
      BY <3>1, BufferShape
    <3> QED
      BY <3>2 DEF Addresses, MemoryOrNone
  <2> HIDE DEF summary
  <2>2. Held /\ call' = [call EXCEPT !.step = "memory", !.summary = summary] /\ call \in Calls
        /\ "memory" \in Steps
    BY <1>3 DEF GoOn, Held, IInv, TypeInv, Steps
  <2>3. /\ call' \in Calls /\ call'.step = "memory" /\ call'.method = call.method
        /\ call'.package = call.package /\ call'.index = call.index /\ call'.out = call.out
        /\ call'.summary = summary
    BY <2>1, <2>2 DEF Calls
  <2>4. PrepareInv'
    <3>1. \A s \in SectionSlots : summary[s] = buf'[s].memory
      BY <2>2, SlotFacts DEF summary, Held
    <3>2. ReusedFrom(call.summary)'
      BY <2>3, <3>1, ReusedSlots DEF ReusedFrom
    <3> QED
      BY <1>1, <2>2, <2>3, <3>2 DEF IInv, PrepareInv, Held
  <2> QED
    BY <1>1, <2>2, <2>3, <2>4, OpeningInv
<1> QED
  BY <1>2, <1>3 DEF DescribeStagedPackageDma

LEMMA BuildArtifactsInv == IInv /\ BuildArtifacts => IInv'
<1> SUFFICES ASSUME IInv, BuildArtifacts PROVE IInv'
  OBVIOUS
<1>1. Working /\ call.method = "prepare" /\ call.step = "artifacts"
  BY MethodOf DEF BuildArtifacts, At, Working
<1>2. CASE \E status \in {"SystemInfoFailed", "ArtifactBuildFailed"} : FailCall(status)
  BY <1>1, <1>2, FailInv DEF SessionFailures
<1>3. CASE GoOn([call EXCEPT !.step = "copy", !.index = 1])
  <2>1. Held /\ call' = [call EXCEPT !.step = "copy", !.index = 1] /\ call \in Calls
        /\ "copy" \in Steps /\ 1 \in Indexes
    BY <1>3, CountAssumption DEF GoOn, Held, IInv, TypeInv, Steps, Indexes
  <2>2. /\ call' \in Calls /\ call'.step = "copy" /\ call'.method = call.method
        /\ call'.package = call.package /\ call'.index = 1 /\ call'.out = call.out
        /\ call'.summary = call.summary
    BY <2>1 DEF Calls
  <2>3. (call.index <= Count)'
    BY <2>2, CountAssumption DEF Count
  <2>4. CallInv'
    BY <1>1, <2>2 DEF IInv, CallInv, PrepareSteps
  <2>5. StageInv'
    BY <1>1, <2>2 DEF StageInv
  <2>6. PrepareInv'
    BY <1>1, <2>1, <2>2 DEF IInv, PrepareInv, ReusedFrom, Held
  <2>7. WorkInv'
    <3>1. \A s \in GeneratedSlots : Complete(s)' /\ s[2] >= 1 /\ s[2] \in Int
      BY <1>1, <2>1, SlotFacts, CountAssumption
         DEF IInv, WorkInv, Own, Looping, Opening, Complete, Held
    <3>2. call'.step \notin Looping'
      BY <1>1, <2>2 DEF Looping, Opening
    <3>3. Own' = GeneratedSlots
      BY <1>1, <2>2 DEF Own
    <3>4. \A s \in GeneratedSlots : ~Done(s)'
      BY <1>1, <2>2, <3>1 DEF Done
    <3>5. call'.step \notin Opening
      BY <2>2 DEF Opening
    <3> QED
      BY <2>2, <3>1, <3>2, <3>3, <3>4, <3>5 DEF WorkInv
  <2> QED
    BY <1>1, <2>1, <2>2, <2>3, <2>4, <2>5, <2>6, <2>7, LocalsInv
<1> QED
  BY <1>2, <1>3 DEF BuildArtifacts

-----------------------------------------------------------------------------
(***************************************************************************)
(* RTXMacAllocateAndPrepareDmaBuffer.                                      *)
(***************************************************************************)

\* The buffer being built gets its memory, its array or a command.
LEMMA BuildInv ==
  ASSUME IInv, Working, call.step \in {"memory", "array", "chunk"},
         UNCHANGED <<driver, client, staged, session, buf>>,
         call' \in Calls, call'.method = call.method, call'.package = call.package,
         call'.index = call.index, call'.summary = call.summary,
         call'.step \in {"array", "chunk"}, live' \subseteq Objects, OwnedInv', CallInv'
  PROVE  IInv'
<1>1. TypeInv'
  BY DEF IInv, TypeInv, Count
<1>2. ReadyInv'
  BY DEF IInv, ReadyInv
<1>3. StageInv' /\ PrepareInv'
  BY DEF IInv, StageInv, PrepareInv, ReusedFrom
<1>4. WorkInv'
  <2>1. Own' = Own /\ Looping' = Looping
    BY DEF Own, Looping
  <2>2. call.step \in Opening /\ call.step \in Looping /\ call'.step \in Opening
        /\ call'.step \in Looping
    BY DEF Opening, Looping
  <2>3. ASSUME NEW s \in Own
        PROVE  /\ s[2] > call.index => buf'[s] = EmptyBuffer
               /\ s[2] = call.index => buf'[s] = EmptyBuffer
               /\ s[2] < call.index => Complete(s)'
               /\ Done(s)' => Visible(s, SourceOf(s))'
    BY <2>2 DEF IInv, WorkInv, Complete, Done, Visible, SourceOf, Working
  <2> QED
    BY <2>1, <2>2, <2>3 DEF WorkInv
<1>5. ReadyPackageIsVisible' /\ ReadySessionIsConsistent'
  BY PackageKept, SessionKept DEF IInv
<1> QED
  BY <1>1, <1>2, <1>3, <1>4, <1>5 DEF IInv

LEMMA CreateMemoryInv ==
  ASSUME IInv, NEW m \in Memories, CreateMemory(m)
  PROVE  IInv'
<1> DEFINE out == [EmptyBuffer EXCEPT !.memory = m]
<1>1. /\ Working /\ call.step = "memory" /\ call \in Calls /\ m # None
      /\ live' = live \cup {Object("memory", m, 0)}
      /\ call' = [call EXCEPT !.step = "array", !.out = out]
      /\ UNCHANGED <<driver, client, staged, session, buf>>
  BY NoneAssumption DEF CreateMemory, At, Working, IInv, TypeInv
<1>2. out \in Buffers /\ out.memory = m /\ out.commands = {} /\ out.array = FALSE
      /\ out.pages = FALSE
  <2>1. m \in MemoryOrNone
    BY DEF MemoryOrNone
  <2>2. out \in Buffers
    BY <2>1, EmptyFacts, BufferShape
  <2> QED
    BY <2>2 DEF EmptyBuffer
<1>3. \A x : x \in Holds(out) <=> x = Object("memory", m, 0)
  BY <1>1, <1>2, HoldsFacts
<1> HIDE DEF out
<1>4. /\ call' \in Calls /\ call'.step = "array" /\ call'.out = out
      /\ call'.method = call.method /\ call'.package = call.package
      /\ call'.index = call.index /\ call'.summary = call.summary
  BY <1>1, <1>2 DEF Calls, Steps
<1>5. live' \subseteq Objects
  <2>1. Object("memory", m, 0) \in Objects
    BY CountAssumption DEF Object, Objects
  <2> QED
    BY <1>1, <2>1 DEF IInv, TypeInv
<1>6. OwnedInv'
  <2>1. call.out = EmptyBuffer
    BY <1>1 DEF IInv, CallInv
  <2>2. ASSUME NEW s \in Slots, buf[s].memory = m PROVE FALSE
    <3>1. Object("memory", m, 0) \in Holds(buf[s])
      BY <1>1, <2>2, HoldsFacts
    <3>2. Object("memory", m, 0) \in live
      BY <3>1, OneOwner DEF IInv
    <3>3. Object("memory", m, 0).memory = m
      BY DEF Object
    <3> QED
      BY <3>2, <3>3 DEF CreateMemory
  <2> QED
    BY <1>1, <1>2, <1>3, <1>4, <2>1, <2>2, EmptyFacts, BuildOwned DEF IInv
<1>7. CallInv'
  BY <1>1, <1>2, <1>4 DEF IInv, CallInv, Working, StageSteps, PrepareSteps
<1> QED
  BY <1>1, <1>4, <1>5, <1>6, <1>7, BuildInv

LEMMA CreateArrayInv == IInv /\ CreateArray => IInv'
<1> SUFFICES ASSUME IInv, CreateArray PROVE IInv'
  OBVIOUS
<1> DEFINE m   == call.out.memory
           out == [call.out EXCEPT !.array = TRUE]
<1>1. /\ Working /\ call.step = "array" /\ call \in Calls
      /\ live' = live \cup {Object("array", m, 0)}
      /\ call' = [call EXCEPT !.step = "chunk", !.chunk = 1, !.out = out]
      /\ UNCHANGED <<driver, client, staged, session, buf>>
  BY DEF CreateArray, At, Working, IInv, TypeInv
<1>2. call.out \in Buffers /\ m \in MemoryOrNone /\ m # None /\ call.out.commands = {}
  BY <1>1, BufferShape DEF Calls, IInv, CallInv
<1>3. out \in Buffers /\ out.memory = m /\ out.commands = {} /\ out.array = TRUE
      /\ out.pages = call.out.pages
  BY <1>2, BufferShape
<1> HIDE DEF out
<1>4. \A x : x \in Holds(out) <=> x \in Holds(call.out) \/ x = Object("array", m, 0)
  BY <1>2, <1>3, HoldsFacts
<1>5. /\ call' \in Calls /\ call'.step = "chunk" /\ call'.out = out /\ call'.chunk = 1
      /\ call'.method = call.method /\ call'.package = call.package
      /\ call'.index = call.index /\ call'.summary = call.summary
  <2>1. 1 \in Chunks /\ "chunk" \in Steps
    BY CountAssumption DEF Chunks, Steps
  <2> QED
    BY <1>1, <1>3, <2>1 DEF Calls
<1>6. live' \subseteq Objects
  <2>1. Object("array", m, 0) \in Objects
    BY <1>2, CountAssumption DEF Object, Objects, MemoryOrNone
  <2> QED
    BY <1>1, <2>1 DEF IInv, TypeInv
<1>7. OwnedInv'
  BY <1>1, <1>2, <1>3, <1>4, <1>5, BuildOwned DEF IInv
<1>8. CallInv'
  BY <1>1, <1>2, <1>3, <1>5 DEF IInv, CallInv, Working, StageSteps, PrepareSteps
<1> QED
  BY <1>1, <1>5, <1>6, <1>7, <1>8, BuildInv

\* The buffer of the current slot changes, in a call that has begun to make buffers.
LEMMA SlotFrame ==
  ASSUME TypeInv, call.method # "none", call'.method = call.method,
         call'.package = call.package, session' = session, NEW b,
         buf' = [buf EXCEPT ![Slot] = b]
  PROVE  /\ Own' = Own /\ buf'[Slot] = b
         /\ \A s \in Slots : buf'[s] = IF s = Slot THEN b ELSE buf[s]
         /\ \A s \in Own : SourceOf(s)' = SourceOf(s)
         /\ \A s \in Own : s # Slot =>
              /\ buf'[s] = buf[s] /\ (Complete(s)' <=> Complete(s))
              /\ (Visible(s, SourceOf(s))' <=> Visible(s, SourceOf(s)))
<1>1. Own' = Own /\ \A s : SourceOf(s)' = SourceOf(s)
  BY DEF Own, SourceOf
<1>2. \A s \in Slots : buf'[s] = IF s = Slot THEN b ELSE buf[s]
  BY DEF TypeInv
<1>3. \A s \in Own : s \in Slots
  BY CurrentSlot
<1>4. \A s \in Own : s # Slot => buf'[s] = buf[s]
  BY <1>2, <1>3
<1>5. \A s \in Own : s # Slot =>
        (Complete(s)' <=> Complete(s)) /\ (Visible(s, SourceOf(s))' <=> Visible(s, SourceOf(s)))
  BY <1>1, <1>4 DEF Complete, Visible
<1> QED
  BY <1>1, <1>2, <1>4, <1>5, CurrentSlot

Early == {"getPci", "plan", "lookup", "staged", "profile", "summary"}
Late  == {"artifacts", "copy", "sync", "sequence"}

LEMMA SlotInv ==
  ASSUME IInv, Working, call.step \notin Early, UNCHANGED <<driver, client, staged, session>>,
         NEW b \in Buffers, buf' = [buf EXCEPT ![Slot] = b],
         call' \in Calls, call'.method = call.method, call'.package = call.package,
         call'.summary = call.summary, (call.index <= Count)',
         call.method = "prepare" => call'.step \notin Early,
         call.method = "stage" => call'.step # "getPci",
         call.method = "prepare" /\ call'.step \in Late =>
           call.step \in Late /\ b.memory = buf[Slot].memory,
         live' \subseteq Objects, OwnedInv', CallInv', WorkInv'
  PROVE  IInv'
<1>1. TypeInv'
  <2>1. buf' \in [Slots -> Buffers]
    BY DEF IInv, TypeInv
  <2> QED
    BY <2>1 DEF IInv, TypeInv
<1>2. \A s \in Slots : buf'[s] = IF s = Slot THEN b ELSE buf[s]
  BY SlotFrame DEF IInv, Working
<1>3. call.method \in {"stage", "prepare"}
  BY MethodOf DEF Working
<1>4. ~session.ready /\ (call.method = "stage" => ~staged.ready)
      /\ (call.method = "prepare" => staged.ready /\ staged.packageDigest = call.package)
  BY <1>3 DEF IInv, StageInv, PrepareInv, Working, Early
<1>5. call.method = "prepare" => \A s \in SectionSlots : buf'[s] = buf[s]
  BY <1>2, SlotFacts, CurrentSlot DEF IInv, Working, Own
<1>6. call.method = "stage" => \A s \in GeneratedSlots : buf'[s] = buf[s]
  BY <1>2, SlotFacts, CurrentSlot DEF IInv, Working, Own
<1>7. ReadyInv'
  BY <1>3, <1>4, <1>5, <1>6 DEF IInv, ReadyInv, Early
<1>8. StageInv'
  BY <1>4 DEF StageInv
<1>9. PrepareInv'
  <2> SUFFICES ASSUME call.method = "prepare" PROVE PrepareInv'
    BY DEF PrepareInv
  <2>1. \A i \in Reused : buf'[<<"section", i>>] = buf[<<"section", i>>]
    BY <1>5, ReusedSlots
  <2>2. ReusedFrom(call.summary)'
    <3>1. ReusedFrom(call.summary)
      BY DEF IInv, PrepareInv, Working, Early
    <3> QED
      BY <2>1, <3>1 DEF ReusedFrom
  <2>3. ASSUME call'.step \in Late
        PROVE  /\ ReusedFrom(session.addresses)'
               /\ \A s \in GeneratedSlots : session'.addresses[s] = buf'[s].memory
    <3>1. ReusedFrom(session.addresses)
          /\ \A s \in GeneratedSlots : session.addresses[s] = buf[s].memory
      BY <2>3 DEF IInv, PrepareInv, Working, Late
    <3>2. ReusedFrom(session.addresses)'
      BY <2>1, <3>1 DEF ReusedFrom
    <3>3. \A s \in GeneratedSlots : session'.addresses[s] = buf'[s].memory
      BY <1>2, <2>3, <3>1, SlotFacts
    <3> QED
      BY <3>2, <3>3
  <2> QED
    BY <1>4, <2>2, <2>3 DEF PrepareInv, Late, Early
<1>10. ReadyPackageIsVisible' /\ ReadySessionIsConsistent'
  BY <1>3, <1>4, <1>5, PackageKept, SessionKept DEF IInv
<1> QED
  BY <1>1, <1>7, <1>8, <1>9, <1>10 DEF IInv

\* A command is prepared; the last one completes the buffer.
LEMMA PrepareChunkInv == IInv /\ PrepareChunk => IInv'
<1> SUFFICES ASSUME IInv, PrepareChunk PROVE IInv'
  OBVIOUS
<1> DEFINE m   == call.out.memory
           out == [call.out EXCEPT !.commands = @ \cup {call.chunk}]
           o   == Object("command", m, call.chunk)
<1>1. /\ Working /\ call.step = "chunk" /\ call \in Calls /\ live' = live \cup {o}
      /\ UNCHANGED <<driver, client, staged, session>>
  BY DEF PrepareChunk, At, Working, IInv, TypeInv
<1>2. /\ call.out \in Buffers /\ m \in MemoryOrNone /\ m # None /\ call.out.array
      /\ call.out.commands = 1..(call.chunk - 1) /\ call.chunk \in Chunks
      /\ call.out.commands \in CommandSets
  BY <1>1, BufferShape DEF Calls, IInv, CallInv
<1>3. call.chunk \in 1..ChunkCount /\ ChunkCount \in Nat
  BY <1>2, CountAssumption DEF Chunks
<1>4. out \in Buffers /\ out.memory = m /\ out.commands = call.out.commands \cup {call.chunk}
      /\ out.array = call.out.array /\ out.pages = call.out.pages
  <2>1. call.out.commands \cup {call.chunk} \in CommandSets
    BY <1>2 DEF CommandSets
  <2> QED
    BY <1>2, <2>1, BufferShape
<1>5. out.commands = 1..call.chunk
  BY <1>2, <1>3, <1>4
<1>6. live' \subseteq Objects
  <2>1. o \in Objects
    BY <1>2, <1>3 DEF Object, Objects, MemoryOrNone
  <2> QED
    BY <1>1, <2>1 DEF IInv, TypeInv
<1>7. CASE call.chunk < ChunkCount
  <2>1. call' = [call EXCEPT !.chunk = call.chunk + 1, !.out = out] /\ UNCHANGED buf
    BY <1>7 DEF PrepareChunk
  <2> HIDE DEF out
  <2>2. /\ call' \in Calls /\ call'.step = "chunk" /\ call'.out = out
        /\ call'.chunk = call.chunk + 1
        /\ call'.method = call.method /\ call'.package = call.package
        /\ call'.index = call.index /\ call'.summary = call.summary
    <3>1. call.chunk + 1 \in Chunks
      BY <1>3, <1>7 DEF Chunks
    <3> QED
      BY <1>1, <1>4, <2>1, <3>1 DEF Calls
  <2>3. \A x : x \in Holds(out) <=> x \in Holds(call.out) \/ x \in {o}
    BY <1>4, HoldsCommand
  <2>4. OwnedInv'
    BY <1>1, <1>2, <1>4, <2>1, <2>2, <2>3, BuildOwned DEF IInv
  <2>5. CallInv'
    <3>1. out.commands = 1..((call.chunk + 1) - 1)
      BY <1>3, <1>5
    <3> QED
      BY <1>1, <1>2, <1>4, <2>2, <3>1 DEF IInv, CallInv, Working
  <2> QED
    BY <1>1, <1>6, <2>1, <2>2, <2>4, <2>5, BuildInv
<1>8. CASE ~(call.chunk < ChunkCount)
  <2> DEFINE st == IF call.method = "stage" THEN "copy" ELSE "pages"
  <2>1. call' = [call EXCEPT !.step = st, !.chunk = 1, !.out = EmptyBuffer]
        /\ buf' = [buf EXCEPT ![Slot] = out]
    BY <1>8 DEF PrepareChunk
  <2>2. call.chunk = ChunkCount /\ out.commands = Chunks
    BY <1>3, <1>5, <1>8 DEF Chunks
  <2> HIDE DEF out
  <2>3. \A x : x \in Holds(out) <=> x \in Holds(call.out) \/ x \in {o}
    BY <1>4, HoldsCommand
  <2>4. /\ call' \in Calls /\ call'.step = st /\ call'.out = EmptyBuffer
        /\ call'.method = call.method /\ call'.package = call.package
        /\ call'.index = call.index /\ call'.summary = call.summary
    <3>1. 1 \in Chunks /\ st \in Steps
      BY CountAssumption DEF Chunks, Steps
    <3> HIDE DEF st
    <3> QED
      BY <1>1, <2>1, <3>1, EmptyFacts DEF Calls
  <2>5. /\ Slot \in Own /\ Slot[2] = call.index /\ Slot \in Slots
        /\ \A s \in Own : s \in Slots /\ s[2] \in Int /\ (s[2] = call.index => s = Slot)
        /\ call.index \in Int
    BY <1>1, CurrentSlot DEF IInv, Working
  <2>6. /\ Own' = Own /\ buf'[Slot] = out
        /\ \A s \in Slots : buf'[s] = IF s = Slot THEN out ELSE buf[s]
        /\ \A s \in Own : s # Slot =>
             /\ buf'[s] = buf[s] /\ (Complete(s)' <=> Complete(s))
             /\ (Visible(s, SourceOf(s))' <=> Visible(s, SourceOf(s)))
    BY <1>1, <2>1, <2>4, SlotFrame DEF IInv, Working
  <2>7. buf[Slot] = EmptyBuffer
    BY <1>1, <2>5 DEF IInv, WorkInv, Opening
  <2>8. OwnedInv'
    <3> DEFINE X == {o}
    <3>1. live' = live \cup X /\ \A x : x \in Holds(out) <=> x \in Holds(call.out) \/ x \in X
      BY <1>1, <2>3
    <3>2. out.memory = call.out.memory /\ out.memory # None
      BY <1>2, <1>4
    <3> HIDE DEF X
    <3> QED
      BY <2>4, <2>5, <2>6, <2>7, <3>1, <3>2, SlotOwned DEF IInv
  <2>9. CallInv'
    BY <1>1, <2>4 DEF IInv, CallInv, Working, StageSteps, PrepareSteps
  <2>10. WorkInv'
    <3>1. call.step \in Opening /\ call.step \in Looping
      BY <1>1 DEF Opening, Looping
    <3>2. call'.step \in Looping' /\ call'.step \notin Opening
          /\ call'.step \notin {"collect", "sync"}
      BY <2>4 DEF Opening, Looping
    <3>3. ASSUME NEW s \in Own
          PROVE  /\ s[2] > call.index => buf'[s] = EmptyBuffer
                 /\ s[2] = call.index => Allocated(s)'
                 /\ s[2] < call.index => Complete(s)'
                 /\ Done(s)' => Visible(s, SourceOf(s))'
      <4>1. s[2] > call.index => buf'[s] = EmptyBuffer
        BY <1>1, <2>5, <2>6, <3>1 DEF IInv, WorkInv
      <4>2. s[2] = call.index => Allocated(s)'
        BY <1>2, <1>4, <2>2, <2>5, <2>6 DEF Allocated
      <4>3. s[2] < call.index => Complete(s)'
        BY <1>1, <2>5, <2>6, <3>1 DEF IInv, WorkInv
      <4>4. Done(s)' => Done(s) /\ s[2] < call.index
        BY <1>1, <2>4 DEF Done
      <4>5. Done(s)' => Visible(s, SourceOf(s))'
        BY <1>1, <2>5, <2>6, <4>4 DEF IInv, WorkInv
      <4> QED
        BY <4>1, <4>2, <4>3, <4>5
    <3> QED
      BY <2>4, <2>6, <3>2, <3>3 DEF WorkInv
  <2>11. call'.step \notin Early /\ call.step \notin Early /\ call'.step # "getPci"
         /\ (call.method = "prepare" => call'.step \notin Late)
    BY <1>1, <2>4 DEF Early, Late
  <2>12. (call.index <= Count)'
    BY <1>1, <2>4 DEF IInv, TypeInv, Count, Working
  <2> QED
    BY <1>1, <1>4, <1>6, <2>1, <2>4, <2>8, <2>9, <2>10, <2>11, <2>12, SlotInv
<1> QED
  BY <1>7, <1>8

LEMMA AllocationFailsInv == IInv /\ AllocationFails => IInv'
<1> SUFFICES ASSUME IInv, AllocationFails PROVE IInv'
  OBVIOUS
<1>1. Working /\ FailCall(AllocationFailed)
  BY DEF AllocationFails, At, Working
<1>2. AllocationFailed \in
        (IF call.method = "stage" THEN StageFailures ELSE SessionFailures)
  BY DEF AllocationFailed, StageFailures, SessionFailures
<1> QED
  BY <1>1, <1>2, FailInv

-----------------------------------------------------------------------------
(***************************************************************************)
(* Filling a buffer and recording its pages.                               *)
(***************************************************************************)

LEMMA SourceType ==
  ASSUME IInv, Working, NEW s
  PROVE  SourceOf(s) \in Contents
<1>1. call.package \in Packages /\ session.addresses \in Addresses
  BY DEF IInv, CallInv, Working, TypeInv
<1> QED
  BY <1>1, ContentTypes DEF SourceOf

\* A buffer keeps its objects: its contents or its contiguity change, or it gets its page
\* list.
LEMMA SameObjects ==
  ASSUME NEW a, NEW b, b.memory = a.memory, b.array = a.array, b.commands = a.commands
  PROVE  /\ b.pages = a.pages => \A x : x \in Holds(b) <=> x \in Holds(a)
         /\ b.pages = TRUE =>
              \A x : x \in Holds(b) <=>
                       x \in Holds(a) \/ x \in {Object("pages", a.memory, 0)}
BY HoldsFacts

LEMMA CopyInv == IInv /\ CopyIntoPrepared => IInv'
<1> SUFFICES ASSUME IInv, CopyIntoPrepared PROVE IInv'
  OBVIOUS
<1>1. Working /\ call.step = "copy" /\ call \in Calls /\ buf \in [Slots -> Buffers]
  BY DEF CopyIntoPrepared, At, Working, IInv, TypeInv
<1>2. CASE FailCall(PopulationFailed)
  <2>1. PopulationFailed \in
          (IF call.method = "stage" THEN StageFailures ELSE SessionFailures)
    BY DEF PopulationFailed, StageFailures, SessionFailures
  <2> QED
    BY <1>1, <1>2, <2>1, FailInv
<1>3. CASE /\ buf' = [buf EXCEPT ![Slot].host = SourceOf(Slot)]
           /\ call' = [call EXCEPT !.step = "sync", !.chunk = 1]
           /\ UNCHANGED <<driver, client, staged, session, live>>
  <2> DEFINE b == [buf[Slot] EXCEPT !.host = SourceOf(Slot)]
  <2>1. /\ Slot \in Own /\ Slot[2] = call.index /\ Slot \in Slots
        /\ \A s \in Own : s \in Slots /\ s[2] \in Int /\ (s[2] = call.index => s = Slot)
        /\ call.index \in Int
    BY <1>1, CurrentSlot DEF IInv, Working
  <2>2. buf' = [buf EXCEPT ![Slot] = b]
    BY <1>3
  <2>3. /\ b \in Buffers /\ b.host = SourceOf(Slot) /\ b.memory = buf[Slot].memory
        /\ b.array = buf[Slot].array /\ b.pages = buf[Slot].pages
        /\ b.commands = buf[Slot].commands /\ b.contiguous = buf[Slot].contiguous
        /\ b.device = buf[Slot].device
    <3>1. buf[Slot] \in Buffers /\ SourceOf(Slot) \in Contents
      BY <1>1, <2>1, SourceType
    <3> QED
      BY <3>1, BufferShape
  <2> HIDE DEF b
  <2>4. /\ call' \in Calls /\ call'.step = "sync" /\ call'.chunk = 1
        /\ call'.out = call.out /\ call'.method = call.method /\ call'.package = call.package
        /\ call'.index = call.index /\ call'.summary = call.summary
    <3>1. 1 \in Chunks /\ "sync" \in Steps
      BY CountAssumption DEF Chunks, Steps
    <3> QED
      BY <1>1, <1>3, <3>1 DEF Calls
  <2>5. /\ Own' = Own /\ buf'[Slot] = b
        /\ \A s \in Slots : buf'[s] = IF s = Slot THEN b ELSE buf[s]
        /\ \A s \in Own : SourceOf(s)' = SourceOf(s)
        /\ \A s \in Own : s # Slot =>
             /\ buf'[s] = buf[s] /\ (Complete(s)' <=> Complete(s))
             /\ (Visible(s, SourceOf(s))' <=> Visible(s, SourceOf(s)))
    BY <1>1, <1>3, <2>2, <2>4, SlotFrame DEF IInv, Working
  <2>6. OwnedInv'
    <3>1. \A x : x \in Holds(b) <=> x \in Holds(buf[Slot])
      BY <2>3, SameObjects
    <3> QED
      BY <1>3, <2>1, <2>3, <2>4, <2>5, <3>1, SlotKept DEF IInv
  <2>7. CallInv'
    BY <1>1, <2>4 DEF IInv, CallInv, Working, StageSteps, PrepareSteps
  <2>8. WorkInv'
    <3>1. (call'.step \in Looping' <=> call.step \in Looping) /\ call'.step \notin Opening
          /\ call.step \notin Opening
      BY <1>1, <2>4 DEF Looping, Opening
    <3>2. ASSUME NEW s \in Own, s # Slot
          PROVE  /\ call.step \in Looping /\ s[2] > call.index => buf'[s] = EmptyBuffer
                 /\ call.step \in Looping => (s[2] < call.index => Complete(s)')
                 /\ call.step \notin Looping => Complete(s)'
                 /\ Done(s)' => Visible(s, SourceOf(s))'
                 /\ s[2] # call.index
      <4>1. Done(s)' => Done(s)
        BY <1>1, <2>4 DEF Done
      <4> QED
        BY <1>1, <2>1, <2>5, <3>2, <4>1 DEF IInv, WorkInv
    <3>3. /\ call.step \in Looping => Allocated(Slot)
          /\ call.step \notin Looping => Complete(Slot)
      BY <1>1, <2>1, <3>1 DEF IInv, WorkInv
    <3>4. ASSUME NEW s \in Own, s = Slot
          PROVE  /\ call.step \in Looping => Allocated(s)'
                 /\ call.step \notin Looping => Complete(s)'
                 /\ ~Done(s)'
                 /\ buf'[s].host = SourceOf(s)'
                 /\ s[2] = call.index
      BY <1>1, <2>1, <2>3, <2>4, <2>5, <3>3, <3>4 DEF Allocated, Complete, Done
    <3>5. 1..(call'.chunk - 1) = {}
      BY <2>4
    <3>6. \A s \in Own : s[2] \in Int /\ call.index \in Int
      BY <2>1
    <3> QED
      BY <2>4, <2>5, <3>1, <3>2, <3>4, <3>5, <3>6 DEF WorkInv
  <2>9. call'.step \notin Early /\ call.step \notin Early /\ call'.step # "getPci"
        /\ call.step \in Late
    BY <1>1, <2>4 DEF Early, Late
  <2>10. (call.index <= Count)' /\ live' \subseteq Objects
    BY <1>1, <1>3, <2>4 DEF IInv, TypeInv, Count, Working
  <2> QED
    BY <1>1, <1>3, <2>2, <2>3, <2>4, <2>6, <2>7, <2>8, <2>9, <2>10, SlotInv
<1> QED
  BY <1>2, <1>3 DEF CopyIntoPrepared

\* A chunk is made visible; the last one makes the buffer visible.
LEMMA SyncInv == IInv /\ SynchronizeChunk => IInv'
<1> SUFFICES ASSUME IInv, SynchronizeChunk PROVE IInv'
  OBVIOUS
<1>1. Working /\ call.step = "sync" /\ call \in Calls /\ buf \in [Slots -> Buffers]
      /\ call.method \in {"stage", "prepare"}
  BY MethodOf DEF SynchronizeChunk, At, Working, IInv, TypeInv
<1>2. CASE FailCall(PopulationFailed)
  <2>1. PopulationFailed \in
          (IF call.method = "stage" THEN StageFailures ELSE SessionFailures)
    BY DEF PopulationFailed, StageFailures, SessionFailures
  <2> QED
    BY <1>1, <1>2, <2>1, FailInv
<1>3. CASE /\ buf' = [buf EXCEPT ![Slot].device[call.chunk] = buf[Slot].host]
           /\ call' = AfterSync
           /\ UNCHANGED <<driver, client, staged, session, live>>
  <2> DEFINE d == [buf[Slot].device EXCEPT ![call.chunk] = buf[Slot].host]
             b == [buf[Slot] EXCEPT !.device = d]
  <2>1. /\ Slot \in Own /\ Slot[2] = call.index /\ Slot \in Slots
        /\ \A s \in Own : s \in Slots /\ s[2] \in Int /\ s[2] \in 1..Count
                          /\ (s[2] = call.index => s = Slot)
        /\ call.index \in Int /\ call.index \in 1..Count /\ Count \in Nat
    BY <1>1, CurrentSlot DEF IInv, Working
  <2>2. buf' = [buf EXCEPT ![Slot] = b]
    BY <1>3
  <2>3. call.chunk \in Chunks /\ call.chunk \in Int /\ Chunks = 1..ChunkCount
        /\ ChunkCount \in Nat \ {0}
    BY <1>1, CountAssumption DEF Calls, Chunks
  <2>4. buf[Slot] \in Buffers /\ buf[Slot].host \in Contents /\ buf[Slot].device \in Devices
    BY <1>1, <2>1, BufferShape
  <2>5. buf[Slot].host = SourceOf(Slot)
        /\ \A c \in 1..(call.chunk - 1) : buf[Slot].device[c] = SourceOf(Slot)
    BY <1>1, <2>1 DEF IInv, WorkInv
  <2>6. d \in Devices /\ \A c \in 1..call.chunk : d[c] = SourceOf(Slot)
    <3>1. d \in Devices
      BY <2>3, <2>4 DEF Devices
    <3>2. d[call.chunk] = SourceOf(Slot)
      BY <2>3, <2>4, <2>5 DEF Devices
    <3>3. ASSUME NEW c \in 1..call.chunk PROVE d[c] = SourceOf(Slot)
      <4>1. CASE c = call.chunk
        BY <3>2, <4>1
      <4>2. CASE c # call.chunk
        <5>1. c \in 1..(call.chunk - 1) /\ c \in Chunks
          BY <2>3, <4>2
        <5> QED
          BY <2>4, <2>5, <4>2, <5>1 DEF Devices
      <4> QED
        BY <4>1, <4>2
    <3> QED
      BY <3>1, <3>3
  <2> HIDE DEF d
  <2>7. /\ b \in Buffers /\ b.host = buf[Slot].host /\ b.memory = buf[Slot].memory
        /\ b.array = buf[Slot].array /\ b.pages = buf[Slot].pages
        /\ b.commands = buf[Slot].commands /\ b.contiguous = buf[Slot].contiguous
        /\ b.device = d
    BY <2>4, <2>6, BufferShape
  <2> HIDE DEF b
  <2>8. /\ call' \in Calls /\ call'.out = call.out /\ call'.method = call.method
        /\ call'.package = call.package /\ call'.summary = call.summary
        /\ \/ /\ call.chunk < ChunkCount /\ call'.step = "sync"
              /\ call'.index = call.index /\ call'.chunk = call.chunk + 1
           \/ /\ call.chunk = ChunkCount /\ call.method = "stage" /\ call'.step = "pages"
              /\ call'.index = call.index
           \/ /\ call.chunk = ChunkCount /\ call.method = "prepare"
              /\ call.index < GeneratedCount /\ call'.step = "copy"
              /\ call'.index = call.index + 1
           \/ /\ call.chunk = ChunkCount /\ call.method = "prepare"
              /\ call.index = GeneratedCount /\ call'.step = "sequence"
              /\ call'.index = call.index
    <3>1. "pages" \in Steps /\ "copy" \in Steps /\ "sequence" \in Steps /\ "sync" \in Steps
          /\ 1 \in Chunks /\ call.index \in Indexes
      BY <1>1, <2>3 DEF Steps, Calls
    <3>2. CASE call.chunk < ChunkCount
      <4>1. call.chunk + 1 \in Chunks
        BY <2>3, <3>2
      <4>2. PICK k \in Chunks : k = call.chunk + 1
        BY <4>1
      <4>3. call' = [call EXCEPT !.step = "sync", !.chunk = k, !.index = call.index]
        BY <1>1, <1>3, <3>2, <4>2 DEF AfterSync, Calls
      <4>4. /\ call' \in Calls /\ call'.out = call.out /\ call'.method = call.method
            /\ call'.package = call.package /\ call'.summary = call.summary
            /\ call'.step = "sync" /\ call'.index = call.index /\ call'.chunk = k
        BY <1>1, <3>1, <4>3, MoveTo
      <4> QED
        BY <3>2, <4>2, <4>4
    <3>3. CASE ~(call.chunk < ChunkCount)
      <4>1. call.chunk = ChunkCount
        BY <2>3, <3>3
      <4>2. CASE call.method = "stage"
        <5>1. call' = [call EXCEPT !.step = "pages", !.chunk = 1, !.index = call.index]
          BY <1>1, <1>3, <3>3, <4>2 DEF AfterSync, Calls
        <5> QED
          BY <1>1, <3>1, <4>1, <4>2, <5>1, MoveTo
      <4>3. CASE call.method = "prepare" /\ call.index < GeneratedCount
        <5>1. call.index + 1 \in Indexes
          BY <2>1, <4>3, CountAssumption DEF Indexes
        <5>2. PICK i \in Indexes : i = call.index + 1
          BY <5>1
        <5>3. call' = [call EXCEPT !.step = "copy", !.chunk = 1, !.index = i]
          BY <1>1, <1>3, <3>3, <4>3, <5>2 DEF AfterSync, Calls
        <5>4. /\ call' \in Calls /\ call'.out = call.out /\ call'.method = call.method
              /\ call'.package = call.package /\ call'.summary = call.summary
              /\ call'.step = "copy" /\ call'.index = i
          BY <1>1, <3>1, <5>3, MoveTo
        <5> QED
          BY <4>1, <4>3, <5>2, <5>4
      <4>4. CASE call.method = "prepare" /\ ~(call.index < GeneratedCount)
        <5>1. call' = [call EXCEPT !.step = "sequence", !.chunk = 1, !.index = call.index]
          BY <1>1, <1>3, <3>3, <4>4 DEF AfterSync, Calls
        <5>2. call.index = GeneratedCount
          BY <2>1, <4>4, CountAssumption DEF Count
        <5> QED
          BY <1>1, <3>1, <4>1, <4>4, <5>1, <5>2, MoveTo
      <4> QED
        BY <1>1, <4>2, <4>3, <4>4
    <3> QED
      BY <3>2, <3>3
  <2>9. /\ Own' = Own /\ buf'[Slot] = b
        /\ \A s \in Slots : buf'[s] = IF s = Slot THEN b ELSE buf[s]
        /\ \A s \in Own : SourceOf(s)' = SourceOf(s)
        /\ \A s \in Own : s # Slot =>
             /\ buf'[s] = buf[s] /\ (Complete(s)' <=> Complete(s))
             /\ (Visible(s, SourceOf(s))' <=> Visible(s, SourceOf(s)))
    BY <1>1, <1>3, <2>2, <2>8, SlotFrame DEF IInv, Working
  <2>10. OwnedInv'
    <3>1. \A x : x \in Holds(b) <=> x \in Holds(buf[Slot])
      BY <2>7, SameObjects
    <3> QED
      BY <1>3, <2>1, <2>7, <2>8, <2>9, <3>1, SlotKept DEF IInv
  <2>11. CallInv'
    BY <1>1, <2>8 DEF IInv, CallInv, Working, StageSteps, PrepareSteps
  <2>12. (call.index <= Count)' /\ live' \subseteq Objects
    BY <1>1, <1>3, <2>1, <2>8, CountAssumption DEF IInv, TypeInv, Count
  <2>13. call'.step \notin Early /\ call.step \notin Early /\ call'.step # "getPci"
         /\ call.step \in Late
    BY <1>1, <2>8 DEF Early, Late
  <2>14. /\ call.step \notin Opening /\ call'.step \notin Opening
         /\ (call.step \in Looping <=> call.method = "stage")
         /\ (call'.step \in Looping' <=> call.method = "stage")
    BY <1>1, <2>8 DEF Opening, Looping
  <2>15. ASSUME NEW s \in Own
         PROVE  /\ call.method = "stage" /\ s[2] > call.index => buf'[s] = EmptyBuffer
                /\ call.method = "stage" /\ s[2] = call.index => Allocated(s)'
                /\ call.method = "stage" /\ s[2] < call.index => Complete(s)'
                /\ call.method = "prepare" => Complete(s)'
                /\ s[2] < call.index => Visible(s, SourceOf(s))'
                /\ s[2] = call.index /\ call.chunk = ChunkCount => Visible(s, SourceOf(s))'
                /\ s[2] = call.index => buf'[s].host = SourceOf(s)'
                     /\ \A c \in 1..call.chunk : buf'[s].device[c] = SourceOf(s)'
    <3>0. /\ call.step \in Looping /\ s[2] > call.index => buf[s] = EmptyBuffer
          /\ call.step \in Looping \ Opening /\ s[2] = call.index => Allocated(s)
          /\ call.step \in Looping => (s[2] < call.index => Complete(s))
          /\ call.step \notin Looping => Complete(s)
          /\ Done(s) => Visible(s, SourceOf(s))
      BY <1>1 DEF IInv, WorkInv
    <3>1. s[2] < call.index => Done(s)
      BY <1>1 DEF Done
    <3>2. CASE s # Slot
      BY <1>1, <2>1, <2>9, <2>14, <3>0, <3>1, <3>2
    <3>3. CASE s = Slot
      <4>1. (Allocated(s) => Allocated(s)') /\ (Complete(s) => Complete(s)')
        BY <2>7, <2>9, <3>3 DEF Allocated, Complete
      <4>2. buf'[s].host = SourceOf(s)'
            /\ \A c \in 1..call.chunk : buf'[s].device[c] = SourceOf(s)'
        BY <2>5, <2>6, <2>7, <2>9, <3>3
      <4>3. call.chunk = ChunkCount => Visible(s, SourceOf(s))'
        BY <2>3, <4>2 DEF Visible
      <4> QED
        BY <1>1, <2>1, <2>14, <3>0, <3>3, <4>1, <4>2, <4>3
    <3> QED
      BY <3>2, <3>3
  <2>16. WorkInv'
    <3>1. \A s \in Own : s[2] \in Int /\ s[2] \in 1..Count /\ call.index \in Int
                         /\ call'.index \in Int
      BY <2>1, <2>8
    <3>2. CASE call.chunk < ChunkCount /\ call'.step = "sync"
               /\ call'.index = call.index /\ call'.chunk = call.chunk + 1
      <4>1. \A s \in Own : Done(s)' => s[2] < call.index
        BY <1>1, <2>8, <3>2 DEF Done
      <4>2. 1..(call'.chunk - 1) = 1..call.chunk
        BY <2>3, <3>2
      <4> QED
        BY <1>1, <2>8, <2>9, <2>14, <2>15, <3>2, <4>1, <4>2 DEF WorkInv
    <3>3. CASE call.chunk = ChunkCount /\ call.method = "stage" /\ call'.step = "pages"
               /\ call'.index = call.index
      <4>1. \A s \in Own : Done(s)' => s[2] < call.index \/ s[2] = call.index
        BY <2>8, <3>3 DEF Done
      <4> QED
        BY <2>8, <2>9, <2>14, <2>15, <3>3, <4>1 DEF WorkInv
    <3>4. CASE call.chunk = ChunkCount /\ call.method = "prepare" /\ call'.step = "copy"
               /\ call'.index = call.index + 1
      <4>1. \A s \in Own : Done(s)' => s[2] < call.index \/ s[2] = call.index
        BY <2>8, <3>1, <3>4 DEF Done
      <4> QED
        BY <2>8, <2>9, <2>14, <2>15, <3>4, <4>1 DEF WorkInv
    <3>5. CASE call.chunk = ChunkCount /\ call.method = "prepare" /\ call'.step = "sequence"
               /\ call.index = GeneratedCount
      <4>1. \A s \in Own : s[2] < call.index \/ s[2] = call.index
        BY <2>1, <3>1, <3>5 DEF Count
      <4> QED
        BY <2>8, <2>9, <2>14, <2>15, <3>5, <4>1 DEF WorkInv
    <3> QED
      BY <2>8, <3>2, <3>3, <3>4, <3>5
  <2> QED
    BY <1>1, <1>3, <2>2, <2>7, <2>8, <2>10, <2>11, <2>12, <2>13, <2>16, SlotInv
<1> QED
  BY <1>2, <1>3 DEF SynchronizeChunk

LEMMA CreatePageListInv == IInv /\ CreatePageList => IInv'
<1> SUFFICES ASSUME IInv, CreatePageList PROVE IInv'
  OBVIOUS
<1>1. Working /\ call.step = "pages" /\ call \in Calls /\ buf \in [Slots -> Buffers]
  BY DEF CreatePageList, At, Working, IInv, TypeInv
<1>2. CASE FailCall("PageAddressAllocationFailed")
  BY <1>1, <1>2, FailInv DEF StageFailures, SessionFailures
<1>3. CASE /\ live' = live \cup {Object("pages", buf[Slot].memory, 0)}
           /\ buf' = [buf EXCEPT ![Slot].pages = TRUE]
           /\ call' = [call EXCEPT !.step = "collect"]
           /\ UNCHANGED <<driver, client, staged, session>>
  <2> DEFINE b == [buf[Slot] EXCEPT !.pages = TRUE]
             o == Object("pages", buf[Slot].memory, 0)
  <2>1. /\ Slot \in Own /\ Slot[2] = call.index /\ Slot \in Slots
        /\ \A s \in Own : s \in Slots /\ s[2] \in Int /\ (s[2] = call.index => s = Slot)
        /\ call.index \in Int
    BY <1>1, CurrentSlot DEF IInv, Working
  <2>2. buf' = [buf EXCEPT ![Slot] = b]
    BY <1>3
  <2>3. /\ b \in Buffers /\ b.host = buf[Slot].host /\ b.memory = buf[Slot].memory
        /\ b.array = buf[Slot].array /\ b.pages = TRUE
        /\ b.commands = buf[Slot].commands /\ b.contiguous = buf[Slot].contiguous
        /\ b.device = buf[Slot].device /\ buf[Slot].memory \in MemoryOrNone
    <3>1. buf[Slot] \in Buffers
      BY <1>1, <2>1
    <3> QED
      BY <3>1, BufferShape
  <2> HIDE DEF b
  <2>4. /\ call' \in Calls /\ call'.step = "collect" /\ call'.out = call.out
        /\ call'.method = call.method /\ call'.package = call.package
        /\ call'.index = call.index /\ call'.summary = call.summary
    BY <1>1, <1>3, StepTo DEF Steps
  <2>5. /\ Own' = Own /\ buf'[Slot] = b
        /\ \A s \in Slots : buf'[s] = IF s = Slot THEN b ELSE buf[s]
        /\ \A s \in Own : SourceOf(s)' = SourceOf(s)
        /\ \A s \in Own : s # Slot =>
             /\ buf'[s] = buf[s] /\ (Complete(s)' <=> Complete(s))
             /\ (Visible(s, SourceOf(s))' <=> Visible(s, SourceOf(s)))
    BY <1>1, <1>3, <2>2, <2>4, SlotFrame DEF IInv, Working
  <2>6. call.step \in Looping /\ call.step \notin Opening /\ call'.step \in Looping'
        /\ call'.step \notin Opening /\ call'.step # "sync"
    BY <1>1, <2>4 DEF Looping, Opening
  <2>7. Allocated(Slot)
    BY <1>1, <2>1, <2>6 DEF IInv, WorkInv
  <2>8. b.memory # None
    BY <2>3, <2>7 DEF Allocated
  <2>9. live' \subseteq Objects
    <3>1. o \in Objects
      BY <2>3, <2>8, CountAssumption DEF Object, Objects, MemoryOrNone
    <3> QED
      BY <1>3, <3>1 DEF IInv, TypeInv
  <2>10. OwnedInv'
    <3> DEFINE X == {o}
    <3>1. live' = live \cup X /\ \A x : x \in Holds(b) <=> x \in Holds(buf[Slot]) \/ x \in X
      BY <1>3, <2>3, SameObjects
    <3> HIDE DEF X
    <3> QED
      BY <2>1, <2>3, <2>4, <2>5, <2>8, <3>1, SlotOwned DEF IInv
  <2>11. CallInv'
    BY <1>1, <2>4 DEF IInv, CallInv, Working, StageSteps, PrepareSteps
  <2>12. WorkInv'
    <3>1. ASSUME NEW s \in Own
          PROVE  /\ s[2] > call.index => buf'[s] = EmptyBuffer
                 /\ s[2] = call.index => Allocated(s)' /\ buf'[s].pages
                 /\ s[2] < call.index => Complete(s)'
                 /\ Done(s)' => Visible(s, SourceOf(s))'
      <4>1. /\ s[2] > call.index => buf[s] = EmptyBuffer
            /\ s[2] = call.index => Allocated(s)
            /\ s[2] < call.index => Complete(s)
            /\ Done(s) => Visible(s, SourceOf(s))
        BY <1>1, <2>6 DEF IInv, WorkInv
      <4>2. Done(s)' => Done(s)
        BY <1>1, <2>4 DEF Done
      <4>3. CASE s # Slot
        BY <2>1, <2>5, <4>1, <4>2, <4>3
      <4>4. CASE s = Slot
        <5>1. Allocated(s)' /\ buf'[s].pages
          BY <2>3, <2>5, <2>7, <4>4 DEF Allocated
        <5>2. Visible(s, SourceOf(s)) => Visible(s, SourceOf(s))'
          BY <2>1, <2>3, <2>5, <4>4 DEF Visible
        <5> QED
          BY <2>1, <4>1, <4>2, <4>4, <5>1, <5>2
      <4> QED
        BY <4>3, <4>4
    <3> QED
      BY <2>1, <2>4, <2>5, <2>6, <3>1 DEF WorkInv
  <2>13. call'.step \notin Early /\ call.step \notin Early /\ call'.step # "getPci"
         /\ call'.step \notin Late
    BY <1>1, <2>4 DEF Early, Late
  <2>14. (call.index <= Count)'
    BY <1>1, <2>4 DEF IInv, TypeInv, Count, Working
  <2> QED
    BY <1>1, <1>3, <2>2, <2>3, <2>4, <2>9, <2>10, <2>11, <2>12, <2>13, <2>14, SlotInv
<1> QED
  BY <1>2, <1>3 DEF CreatePageList

\* The pages of a buffer are recorded: the next buffer, or all of them are there.
LEMMA CollectInv ==
  ASSUME IInv, NEW contiguous \in BOOLEAN, CollectDmaPageAddresses(contiguous)
  PROVE  IInv'
<1>1. Working /\ call.step = "collect" /\ call \in Calls /\ buf \in [Slots -> Buffers]
      /\ call.method \in {"stage", "prepare"}
  BY MethodOf DEF CollectDmaPageAddresses, At, Working, IInv, TypeInv
<1>2. CASE FailCall("PageAddressValidationFailed")
  BY <1>1, <1>2, FailInv DEF StageFailures, SessionFailures
<1>3. CASE FailCall(LayoutRejected)
  <2>1. LayoutRejected \in
          (IF call.method = "stage" THEN StageFailures ELSE SessionFailures)
    BY DEF LayoutRejected, StageFailures, SessionFailures
  <2> QED
    BY <1>1, <1>3, <2>1, FailInv
<1>4. CASE /\ Linear(Slot) => contiguous
           /\ buf' = [buf EXCEPT ![Slot].contiguous = contiguous]
           /\ call' = IF call.index < Count
                        THEN [call EXCEPT !.index = @ + 1,
                                !.step = IF call.method = "stage"
                                           THEN "lookup" ELSE "memory"]
                        ELSE [call EXCEPT !.step = "resolve", !.index = 1]
           /\ UNCHANGED <<driver, client, staged, session, live>>
  <2> DEFINE b == [buf[Slot] EXCEPT !.contiguous = contiguous]
             st == IF call.method = "stage" THEN "lookup" ELSE "memory"
  <2>1. /\ Slot \in Own /\ Slot[2] = call.index /\ Slot \in Slots
        /\ \A s \in Own : s \in Slots /\ s[2] \in Int /\ s[2] \in 1..Count
                          /\ (s[2] = call.index => s = Slot)
        /\ call.index \in Int /\ call.index \in 1..Count /\ Count \in Nat
    BY <1>1, CurrentSlot DEF IInv, Working
  <2>2. buf' = [buf EXCEPT ![Slot] = b]
    BY <1>4
  <2>3. /\ b \in Buffers /\ b.host = buf[Slot].host /\ b.memory = buf[Slot].memory
        /\ b.array = buf[Slot].array /\ b.pages = buf[Slot].pages
        /\ b.commands = buf[Slot].commands /\ b.contiguous = contiguous
        /\ b.device = buf[Slot].device
    <3>1. buf[Slot] \in Buffers
      BY <1>1, <2>1
    <3> QED
      BY <3>1, BufferShape
  <2> HIDE DEF b
  <2>4. /\ call' \in Calls /\ call'.out = call.out /\ call'.method = call.method
        /\ call'.package = call.package /\ call'.summary = call.summary
        /\ \/ /\ call.index < Count /\ call'.step = st /\ call'.index = call.index + 1
           \/ /\ call.index = Count /\ call'.step = "resolve" /\ call'.index = 1
    <3>1. st \in Steps /\ "resolve" \in Steps /\ 1 \in Indexes /\ call.chunk \in Chunks
      BY <1>1, CountAssumption DEF Steps, Indexes, Calls
    <3>2. CASE call.index < Count
      <4>1. call.index + 1 \in Indexes
        BY <2>1, <3>2, CountAssumption DEF Indexes, Count
      <4>2. PICK i \in Indexes : i = call.index + 1
        BY <4>1
      <4> HIDE DEF st
      <4>3. call' = [call EXCEPT !.step = st, !.chunk = call.chunk, !.index = i]
        <5>1. call' = [call EXCEPT !.index = i, !.step = st]
          BY <1>4, <3>2, <4>2 DEF st
        <5> QED
          BY <1>1, <5>1 DEF Calls
      <4>4. /\ call' \in Calls /\ call'.out = call.out /\ call'.method = call.method
            /\ call'.package = call.package /\ call'.summary = call.summary
            /\ call'.step = st /\ call'.index = i
        BY <1>1, <3>1, <4>3, MoveTo
      <4> QED
        BY <3>2, <4>2, <4>4
    <3>3. CASE ~(call.index < Count)
      <4>1. call.index = Count
        BY <2>1, <3>3
      <4>2. call' = [call EXCEPT !.step = "resolve", !.chunk = call.chunk, !.index = 1]
        BY <1>1, <1>4, <3>3 DEF Calls
      <4> QED
        BY <1>1, <3>1, <4>1, <4>2, MoveTo
    <3> QED
      BY <3>2, <3>3
  <2>5. /\ Own' = Own /\ buf'[Slot] = b
        /\ \A s \in Slots : buf'[s] = IF s = Slot THEN b ELSE buf[s]
        /\ \A s \in Own : SourceOf(s)' = SourceOf(s)
        /\ \A s \in Own : s # Slot =>
             /\ buf'[s] = buf[s] /\ (Complete(s)' <=> Complete(s))
             /\ (Visible(s, SourceOf(s))' <=> Visible(s, SourceOf(s)))
    BY <1>1, <1>4, <2>2, <2>4, SlotFrame DEF IInv, Working
  <2>6. call.step \in Looping /\ call.step \notin Opening
    BY <1>1 DEF Looping, Opening
  <2>7. OwnedInv'
    <3>1. \A x : x \in Holds(b) <=> x \in Holds(buf[Slot])
      BY <2>3, SameObjects
    <3> QED
      BY <1>4, <2>1, <2>3, <2>4, <2>5, <3>1, SlotKept DEF IInv
  <2>8. CallInv'
    BY <1>1, <2>4 DEF IInv, CallInv, Working, StageSteps, PrepareSteps
  <2>9. ASSUME NEW s \in Own
        PROVE  /\ s[2] > call.index => buf'[s] = EmptyBuffer
               /\ s[2] < call.index \/ s[2] = call.index => Complete(s)'
               /\ Done(s) => Visible(s, SourceOf(s))'
    <3>1. /\ s[2] > call.index => buf[s] = EmptyBuffer
          /\ s[2] = call.index => Allocated(s) /\ buf[s].pages
          /\ s[2] < call.index => Complete(s)
          /\ Done(s) => Visible(s, SourceOf(s))
      BY <1>1, <2>6 DEF IInv, WorkInv
    <3>2. CASE s # Slot
      BY <2>1, <2>5, <3>1, <3>2
    <3>3. CASE s = Slot
      <4>1. Complete(s)'
        BY <1>4, <2>1, <2>3, <2>5, <3>1, <3>3 DEF Allocated, Complete, Linear
      <4>2. Visible(s, SourceOf(s)) => Visible(s, SourceOf(s))'
        BY <2>1, <2>3, <2>5, <3>3 DEF Visible
      <4> QED
        BY <2>1, <3>1, <3>3, <4>1, <4>2
    <3> QED
      BY <3>2, <3>3
  <2>10. WorkInv'
    <3>1. CASE call.index < Count /\ call'.step = st /\ call'.index = call.index + 1
      <4>1. call'.step \in Opening /\ call'.step \in Looping'
            /\ call'.step \notin {"collect", "sync"}
        BY <3>1 DEF Opening, Looping
      <4>2. \A s \in Own : Done(s)' => Done(s)
        BY <1>1, <2>1, <2>4, <3>1 DEF Done
      <4>3. ASSUME NEW s \in Own
            PROVE  /\ s[2] > call'.index \/ s[2] = call'.index => buf'[s] = EmptyBuffer
                   /\ s[2] < call'.index => Complete(s)'
        <5>1. s[2] > call'.index \/ s[2] = call'.index => s[2] > call.index
          BY <2>1, <3>1
        <5>2. s[2] < call'.index => s[2] < call.index \/ s[2] = call.index
          BY <2>1, <3>1
        <5> QED
          BY <2>9, <5>1, <5>2
      <4> QED
        BY <2>5, <2>9, <4>1, <4>2, <4>3 DEF WorkInv
    <3>2. CASE call.index = Count /\ call'.step = "resolve" /\ call'.index = 1
      <4>1. call'.step \notin Opening /\ call'.step \notin Looping'
            /\ call'.step \notin {"collect", "sync"}
        BY <3>2 DEF Opening, Looping
      <4>2. \A s \in Own : s[2] < call.index \/ s[2] = call.index
        BY <2>1, <3>2
      <4>3. \A s \in Own : Done(s)' => Done(s)
        BY <1>1, <2>4, <3>2, <4>2 DEF Done
      <4> QED
        BY <2>5, <2>9, <4>1, <4>2, <4>3 DEF WorkInv
    <3> QED
      BY <2>4, <3>1, <3>2
  <2>11. /\ call.step \notin Early /\ call'.step \notin Late /\ call'.step # "getPci"
         /\ call.method = "prepare" => call'.step \notin Early
    BY <1>1, <2>4 DEF Early, Late
  <2>12. (call.index <= Count)' /\ live' \subseteq Objects
    <3>1. live' \subseteq Objects
      BY <1>4 DEF IInv, TypeInv
    <3>2. Count' = Count
      BY <2>4 DEF Count
    <3> QED
      BY <2>1, <2>4, <3>1, <3>2
  <2> QED
    BY <1>1, <1>4, <2>2, <2>3, <2>4, <2>7, <2>8, <2>10, <2>11, <2>12, SlotInv
<1> QED
  BY <1>2, <1>3, <1>4 DEF CollectDmaPageAddresses

-----------------------------------------------------------------------------
(***************************************************************************)
(* Completion.                                                             *)
(***************************************************************************)

\* Nothing is created, released or moved.
LEMMA OwnedKept ==
  ASSUME OwnedInv, UNCHANGED <<buf, live>>, call'.out = call.out
  PROVE  OwnedInv'
<1>1. Released(Slots)' = Released(Slots)
  BY DEF Released
<1> QED
  BY <1>1 DEF OwnedInv, EveryObjectOwnedOnce

LEMMA ResolvePackageInv == IInv /\ ResolvePackage => IInv'
<1> SUFFICES ASSUME IInv, ResolvePackage PROVE IInv'
  OBVIOUS
<1>1. Working /\ call.method = "stage" /\ call.step = "resolve"
  BY DEF ResolvePackage, At, Working
<1>2. CASE FailCall("DmaResolveFailed")
  BY <1>1, <1>2, FailInv DEF StageFailures
<1>3. CASE /\ staged' = [ready |-> TRUE, status |-> "Ok", packageDigest |-> call.package]
           /\ call' = NoCall
           /\ UNCHANGED <<driver, client, session, buf, live>>
  <2>1. /\ staged'.ready = TRUE /\ staged'.status = "Ok"
        /\ staged'.packageDigest = call.package /\ call.package \in Packages
        /\ ~session.ready /\ call.out = EmptyBuffer
    BY <1>1, <1>3 DEF IInv, CallInv, StageInv
  <2>2. TypeInv'
    <3>1. "Ok" \in StageStatuses /\ call.package \in PackageOrNone
      BY <2>1 DEF StageStatuses, PackageOrNone
    <3>2. staged' \in [ready : BOOLEAN, status : StageStatuses, packageDigest : PackageOrNone]
      BY <1>3, <3>1
    <3> QED
      BY <1>3, <3>2, NoCallFacts DEF IInv, TypeInv
  <2>3. OwnedInv'
    BY <1>3, <2>1, NoCallFacts, OwnedKept DEF IInv
  <2>4. ReadyInv'
    BY <1>1, <1>3, <2>1 DEF IInv, ReadyInv
  <2>5. ReadyPackageIsVisible'
    <3> SUFFICES ASSUME NEW s \in SectionSlots
                 PROVE  Complete(s)' /\ Visible(s, Content(staged.packageDigest, NoAddresses))'
      BY DEF ReadyPackageIsVisible
    <3>1. call.step \notin Looping /\ Done(s) /\ s \in Own
      BY <1>1 DEF Looping, Opening, Done, Own
    <3>2. Complete(s) /\ Visible(s, SourceOf(s))
      BY <1>1, <3>1 DEF IInv, WorkInv
    <3>3. SourceOf(s) = Content(call.package, NoAddresses)
      BY DEF SourceOf
    <3> QED
      BY <1>3, <2>1, <3>2, <3>3 DEF Complete, Visible
  <2>6. ReadySessionIsConsistent'
    BY <1>3, <2>1 DEF ReadySessionIsConsistent
  <2>7. (CallInv /\ StageInv /\ PrepareInv /\ WorkInv)'
    BY <1>3, NoCallNext
  <2> QED
    BY <2>2, <2>3, <2>4, <2>5, <2>6, <2>7 DEF IInv
<1> QED
  BY <1>2, <1>3 DEF ResolvePackage

LEMMA ResolveBootMemoryInv == IInv /\ ResolveBootMemory => IInv'
<1> SUFFICES ASSUME IInv, ResolveBootMemory PROVE IInv'
  OBVIOUS
<1> DEFINE a == [s \in Slots |->
                   IF s \in GeneratedSlots THEN buf[s].memory
                   ELSE IF s[2] \in Reused THEN call.summary[s]
                   ELSE None]
<1>1. Working /\ call.method = "prepare" /\ call.step = "resolve" /\ call \in Calls
  BY DEF ResolveBootMemory, At, Working, IInv, TypeInv
<1>2. CASE FailCall("AddressResolveFailed")
  BY <1>1, <1>2, FailInv DEF SessionFailures
<1>3. CASE /\ session' = [session EXCEPT !.addresses = a]
           /\ call' = [call EXCEPT !.step = "artifacts"]
           /\ UNCHANGED <<driver, client, staged, buf, live>>
  <2>1. a \in Addresses
    <3>1. \A s \in Slots : buf[s] \in Buffers
      BY DEF IInv, TypeInv
    <3>2. \A s \in Slots : buf[s].memory \in MemoryOrNone
      BY <3>1, BufferShape
    <3>3. call.summary \in Addresses
      BY <1>1 DEF Calls
    <3>4. \A s \in Slots : call.summary[s] \in MemoryOrNone
      BY <3>3 DEF Addresses, MemoryOrNone
    <3>5. None \in MemoryOrNone
      BY DEF MemoryOrNone
    <3>6. a \in [Slots -> MemoryOrNone]
      BY <3>2, <3>4, <3>5
    <3> QED
      BY <3>6 DEF Addresses, MemoryOrNone
  <2>2. \A s \in GeneratedSlots : a[s] = buf[s].memory
    BY SlotFacts
  <2>3. ASSUME NEW i \in Reused PROVE a[<<"section", i>>] = call.summary[<<"section", i>>]
    <3> DEFINE s == <<"section", i>>
    <3>1. s \in Slots /\ s \notin GeneratedSlots /\ s[2] = i
      BY ReusedSlots, SlotFacts
    <3> HIDE DEF s
    <3>2. a[s] = call.summary[s]
      BY <3>1
    <3> QED
      BY <3>2 DEF s
  <2> HIDE DEF a
  <2>4. /\ session' \in [ready : BOOLEAN, status : SessionStatuses, addresses : Addresses]
        /\ session'.addresses = a /\ session'.ready = session.ready
        /\ session'.status = session.status
    BY <1>3, <2>1 DEF IInv, TypeInv
  <2>5. /\ call' \in Calls /\ call'.step = "artifacts" /\ call'.out = call.out
        /\ call'.method = call.method /\ call'.package = call.package
        /\ call'.index = call.index /\ call'.summary = call.summary
    BY <1>1, <1>3, StepTo DEF Steps
  <2>6. /\ ~session.ready /\ staged.ready /\ staged.packageDigest = call.package
        /\ ReusedFrom(call.summary)
    BY <1>1 DEF IInv, PrepareInv
  <2>7. TypeInv'
    BY <1>1, <1>3, <2>4, <2>5 DEF IInv, TypeInv, Count
  <2>8. OwnedInv'
    BY <1>3, <2>5, OwnedKept DEF IInv
  <2>9. ReadyInv'
    BY <1>1, <1>3, <2>4, <2>5 DEF IInv, ReadyInv
  <2>10. CallInv'
    BY <1>1, <2>5 DEF IInv, CallInv, PrepareSteps
  <2>11. StageInv'
    BY <1>1, <2>5 DEF StageInv
  <2>12. PrepareInv'
    <3>1. ReusedFrom(call.summary)' /\ ReusedFrom(session.addresses)'
      BY <1>3, <2>3, <2>4, <2>5, <2>6 DEF ReusedFrom
    <3>2. \A s \in GeneratedSlots : session'.addresses[s] = buf'[s].memory
      BY <1>3, <2>2, <2>4
    <3> QED
      BY <1>3, <2>4, <2>5, <2>6, <3>1, <3>2 DEF PrepareInv
  <2>13. WorkInv'
    <3>1. call.step \notin Looping /\ call'.step \notin Looping' /\ Own' = Own
          /\ call'.step \notin Opening
      BY <1>1, <2>5 DEF Looping, Opening, Own
    <3>2. \A s \in Own : Complete(s)' /\ ~Done(s)'
      BY <1>1, <1>3, <2>5, <3>1 DEF IInv, WorkInv, Complete, Done
    <3> QED
      BY <2>5, <3>1, <3>2 DEF WorkInv
  <2>14. ReadyPackageIsVisible' /\ ReadySessionIsConsistent'
    BY <1>3, <2>4, <2>6, PackageKept, SessionKept DEF IInv
  <2> QED
    BY <2>7, <2>8, <2>9, <2>10, <2>11, <2>12, <2>13, <2>14 DEF IInv
<1> QED
  BY <1>2, <1>3 DEF ResolveBootMemory

LEMMA PlanSequenceInv == IInv /\ PlanSequence => IInv'
<1> SUFFICES ASSUME IInv, PlanSequence PROVE IInv'
  OBVIOUS
<1>1. Working /\ call.method = "prepare" /\ call.step = "sequence"
  BY MethodOf DEF PlanSequence, At, Working
<1>2. CASE FailCall("SequenceRejected")
  BY <1>1, <1>2, FailInv DEF SessionFailures
<1>3. CASE /\ session' = [session EXCEPT !.ready = TRUE, !.status = "Ok"]
           /\ call' = NoCall
           /\ UNCHANGED <<driver, client, staged, buf, live>>
  <2>1. /\ session' \in [ready : BOOLEAN, status : SessionStatuses, addresses : Addresses]
        /\ session'.addresses = session.addresses /\ session'.ready = TRUE
        /\ session'.status = "Ok"
    <3>1. "Ok" \in SessionStatuses
      BY DEF SessionStatuses
    <3> QED
      BY <1>3, <3>1 DEF IInv, TypeInv
  <2>2. /\ staged.ready /\ staged.packageDigest = call.package
        /\ ReusedFrom(session.addresses)
        /\ \A s \in GeneratedSlots : session.addresses[s] = buf[s].memory
    BY <1>1 DEF IInv, PrepareInv
  <2>3. call.out = EmptyBuffer
    BY <1>1 DEF IInv, CallInv
  <2>4. TypeInv'
    BY <1>3, <2>1, NoCallFacts DEF IInv, TypeInv
  <2>5. OwnedInv'
    BY <1>3, <2>3, NoCallFacts, OwnedKept DEF IInv
  <2>6. ReadyInv'
    BY <1>1, <1>3, <2>1, <2>2 DEF IInv, ReadyInv
  <2>7. ReadyPackageIsVisible'
    BY <1>3, PackageKept DEF IInv
  <2>8. ReadySessionIsConsistent'
    <3>1. ASSUME NEW s \in GeneratedSlots
          PROVE  /\ Complete(s)'
                 /\ Visible(s, IF s[2] <= ArtifactCount
                                 THEN Content(staged.packageDigest, session.addresses)
                                 ELSE Zeroes)'
      <4>1. call.step \notin Looping /\ Done(s) /\ s \in Own
        BY <1>1 DEF Looping, Opening, Done, Own
      <4>2. Complete(s) /\ Visible(s, SourceOf(s))
        BY <1>1, <4>1 DEF IInv, WorkInv
      <4>3. SourceOf(s) = IF s[2] <= ArtifactCount
                            THEN Content(staged.packageDigest, session.addresses)
                            ELSE Zeroes
        BY <2>2, SlotFacts DEF SourceOf
      <4> QED
        BY <1>3, <2>1, <4>2, <4>3 DEF Complete, Visible
    <3>2. \A i \in Reused :
            session'.addresses[<<"section", i>>] = buf'[<<"section", i>>].memory
      BY <1>3, <2>1, <2>2 DEF ReusedFrom
    <3> QED
      BY <1>3, <2>1, <2>2, <3>1, <3>2 DEF ReadySessionIsConsistent
  <2>9. (CallInv /\ StageInv /\ PrepareInv /\ WorkInv)'
    BY <1>3, NoCallNext
  <2> QED
    BY <2>4, <2>5, <2>6, <2>7, <2>8, <2>9 DEF IInv
<1> QED
  BY <1>2, <1>3 DEF PlanSequence

-----------------------------------------------------------------------------
(***************************************************************************)
(* Every step.                                                             *)
(***************************************************************************)

LEMMA RejectedInv == IInv /\ (StageRejected \/ PrepareRejected) => IInv'
<1> SUFFICES ASSUME IInv, StageRejected \/ PrepareRejected PROVE IInv'
  OBVIOUS
<1>1. CASE StageRejected
  <2>1. /\ call = NoCall \/ (call.method = "stage" /\ call.step = "getPci")
        /\ ReleaseBoth /\ session' = IdleSession /\ call' = NoCall
        /\ staged' = [IdleStaged EXCEPT !.status = "BadArgument"]
        /\ driver' = driver /\ client' = client
    BY <1>1 DEF StageRejected, SetRejectedStaging, At
  <2>2. driver' \in {"open", "closed"} /\ client' \in {"none", "running", "stopped"}
    BY <2>1 DEF IInv, TypeInv
  <2> QED
    BY <2>1, <2>2, ReleaseBothInv
<1>2. CASE PrepareRejected
  <2>1. /\ call = NoCall \/ (call.method = "prepare" /\ call.step = "getPci")
        /\ ReleaseSession /\ call' = NoCall
        /\ session' = [IdleSession EXCEPT !.status = "BadArgument"]
        /\ UNCHANGED <<driver, client, staged>>
    BY <1>2 DEF PrepareRejected, SetRejectedBootSession, At
  <2> QED
    BY <2>1, ReleaseSessionInv
<1> QED
  BY <1>1, <1>2

LEMMA BeginInv == IInv /\ (StageVerifiedPackage \/ PrepareColdBootSession) => IInv'
<1> SUFFICES ASSUME IInv, StageVerifiedPackage \/ PrepareColdBootSession PROVE IInv'
  OBVIOUS
<1>1. CASE StageVerifiedPackage
  <2>1. /\ call.method = "stage" /\ call.step = "getPci" /\ ReleaseBoth
        /\ session' = IdleSession /\ staged' = IdleStaged
        /\ call' = [call EXCEPT !.step = "plan"] /\ driver' = driver /\ client' = client
    BY <1>1 DEF StageVerifiedPackage, At
  <2>2. driver' \in {"open", "closed"} /\ client' \in {"none", "running", "stopped"}
    BY <2>1 DEF IInv, TypeInv
  <2> QED
    BY <2>1, <2>2, ReleaseBothInv
<1>2. CASE PrepareColdBootSession
  <2>1. /\ call.method = "prepare" /\ call.step = "getPci" /\ ReleaseSession
        /\ session' = IdleSession /\ call' = [call EXCEPT !.step = "staged"]
        /\ UNCHANGED <<driver, client, staged>>
    BY <1>2 DEF PrepareColdBootSession, At
  <2> QED
    BY <2>1, ReleaseSessionInv
<1> QED
  BY <1>1, <1>2

\* Nothing the client keeps changes.
LEMMA StutterInv ==
  ASSUME IInv, UNCHANGED <<staged, session, buf, live, call>>,
         driver' \in {"open", "closed"}, client' \in {"none", "running", "stopped"}
  PROVE  IInv'
<1>1. TypeInv'
  BY DEF IInv, TypeInv, Count
<1>2. OwnedInv'
  BY OwnedKept DEF IInv
<1>3. ReadyInv'
  BY DEF IInv, ReadyInv
<1>4. CallInv'
  BY DEF IInv, CallInv
<1>5. StageInv' /\ PrepareInv'
  BY DEF IInv, StageInv, PrepareInv, ReusedFrom
<1>6. WorkInv'
  <2>1. Own' = Own /\ Looping' = Looping /\ (Working' <=> Working)
    BY DEF Own, Looping, Working
  <2>2. \A s :
          /\ Complete(s)' <=> Complete(s)
          /\ Allocated(s)' <=> Allocated(s)
          /\ Done(s)' <=> Done(s)
          /\ SourceOf(s)' = SourceOf(s)
          /\ Visible(s, SourceOf(s))' <=> Visible(s, SourceOf(s))
    BY DEF Complete, Allocated, Done, SourceOf, Visible
  <2> QED
    BY <2>1, <2>2 DEF IInv, WorkInv
<1>7. ReadyPackageIsVisible' /\ ReadySessionIsConsistent'
  BY PackageKept, SessionKept DEF IInv
<1> QED
  BY <1>1, <1>2, <1>3, <1>4, <1>5, <1>6, <1>7 DEF IInv

LEMMA LifeInv == IInv /\ Life => IInv'
<1> SUFFICES ASSUME IInv, Life PROVE IInv'
  OBVIOUS
<1>1. driver \in {"open", "closed"} /\ client \in {"none", "running", "stopped"}
  BY DEF IInv, TypeInv
<1>2. CASE ClientStart \/ DriverStart \/ DriverStop
  <2>1. /\ UNCHANGED <<staged, session, buf, live, call>>
        /\ driver' \in {"open", "closed"} /\ client' \in {"none", "running", "stopped"}
    BY <1>1, <1>2 DEF ClientStart, DriverStart, DriverStop
  <2> QED
    BY <2>1, StutterInv
<1>3. CASE ClientStop \/ ClientFree
  <2>1. /\ call = NoCall /\ call' = NoCall /\ ReleaseBoth /\ staged' = IdleStaged
        /\ session' = IdleSession /\ driver' \in {"open", "closed"}
        /\ client' \in {"none", "running", "stopped"}
    BY <1>1, <1>3 DEF ClientStop, ClientFree, ReleaseAll
  <2> QED
    BY <2>1, ReleaseBothInv
<1> QED
  BY <1>2, <1>3 DEF Life

LEMMA InitInv == Init => IInv
<1> SUFFICES ASSUME Init PROVE IInv
  OBVIOUS
<1>1. call.method = "none" /\ call.out = EmptyBuffer /\ call = NoCall /\ call \in Calls
      /\ call.step = "none"
  BY NoCallFacts DEF Init
<1>2. ~staged.ready /\ staged.status = "Idle" /\ ~session.ready /\ session.status = "Idle"
      /\ \A s \in Slots : buf[s] = EmptyBuffer
  BY DEF Init, IdleStaged, IdleSession
<1>3. TypeInv
  BY <1>1, EmptyFacts, IdleTypes DEF Init, TypeInv
<1>4. OwnedInv
  <2>1. \A o : o \notin Released(Slots) /\ o \notin Holds(call.out)
    BY <1>1, <1>2, EmptyFacts, ReleasedFacts
  <2>2. live = Released(Slots) \cup Holds(call.out)
    BY <2>1 DEF Init
  <2> QED
    BY <1>1, <1>2, <2>2, EmptyFacts DEF OwnedInv, EveryObjectOwnedOnce, Tidy
<1>5. ReadyInv
  BY <1>1, <1>2, SlotFacts DEF ReadyInv
<1>6. CallInv /\ StageInv /\ PrepareInv /\ WorkInv
  BY <1>1 DEF CallInv, StageInv, PrepareInv, WorkInv, Working
<1>7. ReadyPackageIsVisible /\ ReadySessionIsConsistent
  BY <1>2 DEF ReadyPackageIsVisible, ReadySessionIsConsistent
<1> QED
  BY <1>3, <1>4, <1>5, <1>6, <1>7 DEF IInv

LEMMA NextInv == IInv /\ [Next]_vars => IInv'
<1> SUFFICES ASSUME IInv, [Next]_vars PROVE IInv'
  OBVIOUS
<1>1. CASE \E p \in Packages : Accepted("stage", p) \/ Accepted("prepare", p)
  BY <1>1, AcceptedInv
<1>2. CASE StageRejected \/ PrepareRejected
  BY <1>2, RejectedInv
<1>3. CASE StageStep
  BY <1>3, BeginInv, StagePlanInv, ResolvePackageInv DEF StageStep
<1>4. CASE PrepareStep
  BY <1>4, BeginInv, CheckStagedInv, CheckProfileInv, DescribeInv, ResolveBootMemoryInv,
     BuildArtifactsInv, PlanSequenceInv DEF PrepareStep
<1>5. CASE Allocate
  BY <1>5, CreateMemoryInv, CreateArrayInv, PrepareChunkInv, AllocationFailsInv DEF Allocate
<1>6. CASE Fill
  BY <1>6, CopyInv, SyncInv, CreatePageListInv, CollectInv DEF Fill
<1>7. CASE Life
  BY <1>7, LifeInv
<1>8. CASE UNCHANGED vars
  <2>1. /\ UNCHANGED <<staged, session, buf, live, call>>
        /\ driver' \in {"open", "closed"} /\ client' \in {"none", "running", "stopped"}
    BY <1>8 DEF vars, IInv, TypeInv
  <2> QED
    BY <2>1, StutterInv
<1> QED
  BY <1>1, <1>2, <1>3, <1>4, <1>5, <1>6, <1>7, <1>8 DEF Next

LEMMA Invariance == Spec => []IInv
BY InitInv, NextInv, PTL DEF Spec

-----------------------------------------------------------------------------
(***************************************************************************)
(* The theorems.                                                           *)
(***************************************************************************)

\* The fields of the client's structs, of its buffers and of a call's locals stay within
\* their types: no loop over sections, generated buffers or chunks leaves its array, and
\* no failure is reported with a status of the other method.
THEOREM ColdTypes == Spec => []TypeOK
<1>1. IInv => TypeOK
  BY TypeInvIsTypeOK DEF IInv
<1> QED
  BY <1>1, Invariance, PTL

\* On every path through StagePackage, PrepareColdBootSession, Stop and free, and at
\* whichever kernel call one of them fails, each memory object, array, page list and DMA
\* command that is not released is reachable from exactly one place.
THEOREM ObjectsOwnedOnce == Spec => []EveryObjectOwnedOnce
<1>1. IInv => EveryObjectOwnedOnce
  BY DEF IInv, OwnedInv
<1> QED
  BY <1>1, Invariance, PTL

\* What RTXMacStageVerifiedPackage reports ready is complete, and the device sees the
\* payload of the recorded digest in every chunk of every section.
THEOREM ReadyPackageVisible == Spec => []ReadyPackageIsVisible
<1>1. IInv => ReadyPackageIsVisible
  BY DEF IInv
<1> QED
  BY <1>1, Invariance, PTL

\* A session RTXMacPrepareColdBootSession reports ready rests on the package now staged,
\* names the addresses of the buffers now held, and its artifacts carry those.
THEOREM ReadySessionConsistent == Spec => []ReadySessionIsConsistent
<1>1. IInv => ReadySessionIsConsistent
  BY DEF IInv
<1> QED
  BY <1>1, Invariance, PTL

\* Between two calls, what is not ready pins no memory, and ready and the status Ok agree:
\* ReleaseAndRestoreFailure and Fail give back all that a call took.
THEOREM NotReadyPinsNothing == Spec => []NotReadyHoldsNothing
<1>1. IInv => NotReadyHoldsNothing
  <2> SUFFICES ASSUME IInv, call = NoCall PROVE NotReadyHoldsNothing
    BY DEF NotReadyHoldsNothing
  <2>1. call.method = "none"
    BY NoCallFacts
  <2>2. /\ staged.ready <=> staged.status = "Ok"
        /\ session.ready <=> session.status = "Ok"
        /\ ~staged.ready => \A s \in SectionSlots : buf[s] = EmptyBuffer
        /\ ~session.ready => \A s \in GeneratedSlots : buf[s] = EmptyBuffer
    BY <2>1 DEF IInv, ReadyInv
  <2> QED
    BY <2>2, EmptyFacts DEF NotReadyHoldsNothing
<1> QED
  BY <1>1, Invariance, PTL

-----------------------------------------------------------------------------
(***************************************************************************)
(* The refinement of ColdClient.                                           *)
(***************************************************************************)

\* Neither the package nor the session the client reports ready changes.
LEMMA ColdStutter ==
  ASSUME session'.ready = session.ready, staged'.ready = staged.ready,
         staged.ready => staged'.packageDigest = staged.packageDigest
  PROVE  UNCHANGED Cold!vars
BY DEF Cold!vars

\* A failing call had nothing ready of its own.
LEMMA ColdFail ==
  ASSUME IInv, Working, NEW status, FailCall(status)
  PROVE  UNCHANGED Cold!vars
<1>1. call.method \in {"stage", "prepare"}
  BY MethodOf DEF Working
<1>2. session.ready \in BOOLEAN /\ staged.ready \in BOOLEAN
  BY DEF IInv, TypeInv
<1>3. CASE call.method = "stage"
  <2>1. staged.ready = FALSE /\ session.ready = FALSE
    BY <1>2, <1>3 DEF IInv, StageInv, Working
  <2>2. staged'.ready = FALSE /\ session' = session
    BY <1>3 DEF FailCall, IdleStaged
  <2> QED
    BY <2>1, <2>2, ColdStutter
<1>4. CASE call.method = "prepare"
  <2>1. session.ready = FALSE
    BY <1>2, <1>4 DEF IInv, PrepareInv, Working
  <2>2. session'.ready = FALSE /\ staged' = staged
    BY <1>4 DEF FailCall, IdleSession
  <2> QED
    BY <2>1, <2>2, ColdStutter
<1> QED
  BY <1>1, <1>3, <1>4

\* The package is given up, and the session with it.
LEMMA ColdReleaseAll ==
  ASSUME IInv, staged'.ready = FALSE, session'.ready = FALSE
  PROVE  [Cold!Next]_(Cold!vars)
<1>1. session.ready \in BOOLEAN /\ staged.ready \in BOOLEAN
  BY DEF IInv, TypeInv
<1>2. CASE staged.ready
  <2>1. staged.packageDigest # None
    BY <1>2, NoneAssumption DEF IInv, ReadyInv
  <2>2. Cold!ReleaseAll
    BY <1>2, <2>1 DEF Cold!ReleaseAll
  <2> QED
    BY <2>2 DEF Cold!Next
<1>3. CASE ~staged.ready
  <2>1. session.ready = FALSE /\ staged.ready = FALSE
    BY <1>1, <1>3 DEF IInv, ReadyInv
  <2> QED
    BY <2>1, ColdStutter
<1> QED
  BY <1>2, <1>3

\* The session alone is given up.
LEMMA ColdReleaseSession ==
  ASSUME IInv, staged' = staged, session'.ready = FALSE
  PROVE  [Cold!Next]_(Cold!vars)
<1>1. session.ready \in BOOLEAN
  BY DEF IInv, TypeInv
<1>2. CASE session.ready = TRUE
  <2>1. Cold!ReleaseSession
    BY <1>2 DEF Cold!ReleaseSession
  <2> QED
    BY <2>1 DEF Cold!Next
<1>3. CASE session.ready = FALSE
  BY <1>3, ColdStutter
<1> QED
  BY <1>1, <1>2, <1>3

\* The package is complete, and nothing was held before.
LEMMA ColdResolve == IInv /\ ResolvePackage => [Cold!Next]_(Cold!vars)
<1> SUFFICES ASSUME IInv, ResolvePackage PROVE [Cold!Next]_(Cold!vars)
  OBVIOUS
<1>1. Working /\ call.method = "stage" /\ call.step = "resolve"
  BY DEF ResolvePackage, At, Working
<1>2. CASE FailCall("DmaResolveFailed")
  BY <1>1, <1>2, ColdFail
<1>3. CASE /\ staged' = [ready |-> TRUE, status |-> "Ok", packageDigest |-> call.package]
           /\ session' = session
  <2>1. staged.ready = FALSE /\ session.ready = FALSE
    BY <1>1 DEF IInv, TypeInv, StageInv
  <2>2. staged'.ready = TRUE /\ staged'.packageDigest = call.package
        /\ call.package \in Packages
    BY <1>1, <1>3 DEF IInv, CallInv
  <2>3. Cold!Stage(call.package)
    BY <1>3, <2>1, <2>2 DEF Cold!Stage
  <2> QED
    BY <2>2, <2>3 DEF Cold!Next
<1> QED
  BY <1>2, <1>3 DEF ResolvePackage

\* The session is complete, on the package held.
LEMMA ColdPlanSequence == IInv /\ PlanSequence => [Cold!Next]_(Cold!vars)
<1> SUFFICES ASSUME IInv, PlanSequence PROVE [Cold!Next]_(Cold!vars)
  OBVIOUS
<1>1. Working /\ call.method = "prepare" /\ call.step = "sequence"
  BY MethodOf DEF PlanSequence, At, Working
<1>2. CASE FailCall("SequenceRejected")
  BY <1>1, <1>2, ColdFail
<1>3. CASE /\ session' = [session EXCEPT !.ready = TRUE, !.status = "Ok"]
           /\ staged' = staged
  <2>1. session.ready = FALSE /\ session'.ready = TRUE
    BY <1>1, <1>3 DEF IInv, TypeInv, PrepareInv
  <2>2. staged.ready /\ staged.packageDigest # None
    BY <1>1, NoneAssumption DEF IInv, PrepareInv, ReadyInv
  <2>3. Cold!Prepare
    BY <1>3, <2>1, <2>2 DEF Cold!Prepare
  <2> QED
    BY <2>3 DEF Cold!Next
<1> QED
  BY <1>2, <1>3 DEF PlanSequence

\* Every other step of a call leaves both as they are, or fails.
LEMMA ColdOther ==
  ASSUME IInv,
         \/ StagePlan \/ FindSection \/ CheckStaged \/ CheckProfile
         \/ DescribeStagedPackageDma \/ ResolveBootMemory \/ BuildArtifacts
         \/ Allocate \/ Fill
  PROVE  UNCHANGED Cold!vars
<1>1. Working
  BY DEF StagePlan, FindSection, CheckStaged, CheckProfile, DescribeStagedPackageDma,
     ResolveBootMemory, BuildArtifacts, Allocate, CreateMemory, CreateArray, PrepareChunk,
     AllocationFails, Fill, CopyIntoPrepared, SynchronizeChunk, CreatePageList,
     CollectDmaPageAddresses, At, Working
<1>2. (\E status : FailCall(status)) \/ (staged' = staged /\ session'.ready = session.ready)
  <2>1. CASE \/ StagePlan \/ FindSection \/ CheckStaged \/ CheckProfile
             \/ DescribeStagedPackageDma \/ BuildArtifacts
    BY <2>1 DEF StagePlan, FindSection, CheckStaged, CheckProfile, DescribeStagedPackageDma,
       BuildArtifacts, GoOn
  <2>2. CASE ResolveBootMemory
    BY <2>2 DEF ResolveBootMemory, IInv, TypeInv
  <2>3. CASE Allocate
    BY <2>3 DEF Allocate, CreateMemory, CreateArray, PrepareChunk, AllocationFails
  <2>4. CASE Fill
    BY <2>4 DEF Fill, CopyIntoPrepared, SynchronizeChunk, CreatePageList,
       CollectDmaPageAddresses
  <2> QED
    BY <2>1, <2>2, <2>3, <2>4
<1> QED
  BY <1>1, <1>2, ColdFail, ColdStutter

LEMMA ColdNext == IInv /\ [Next]_vars => [Cold!Next]_(Cold!vars)
<1> SUFFICES ASSUME IInv, [Next]_vars PROVE [Cold!Next]_(Cold!vars)
  OBVIOUS
<1>1. CASE \/ \E p \in Packages : Accepted("stage", p) \/ Accepted("prepare", p)
           \/ ClientStart \/ DriverStart \/ DriverStop
           \/ UNCHANGED vars
  <2>1. staged' = staged /\ session' = session
    BY <1>1 DEF Accepted, GoOn, ClientStart, DriverStart, DriverStop, vars
  <2> QED
    BY <2>1, ColdStutter
<1>2. CASE StageRejected \/ StageVerifiedPackage \/ ClientStop \/ ClientFree
  <2>1. staged'.ready = FALSE /\ session'.ready = FALSE
    BY <1>2 DEF StageRejected, SetRejectedStaging, StageVerifiedPackage, ClientStop,
       ClientFree, ReleaseAll, IdleStaged, IdleSession
  <2> QED
    BY <2>1, ColdReleaseAll
<1>3. CASE PrepareRejected \/ PrepareColdBootSession
  <2>1. staged' = staged /\ session'.ready = FALSE
    BY <1>3 DEF PrepareRejected, SetRejectedBootSession, PrepareColdBootSession, IdleSession
  <2> QED
    BY <2>1, ColdReleaseSession
<1>4. CASE ResolvePackage \/ PlanSequence
  BY <1>4, ColdResolve, ColdPlanSequence
<1>5. CASE \/ StagePlan \/ FindSection \/ CheckStaged \/ CheckProfile
           \/ DescribeStagedPackageDma \/ ResolveBootMemory \/ BuildArtifacts
           \/ Allocate \/ Fill
  BY <1>5, ColdOther
<1> QED
  BY <1>1, <1>2, <1>3, <1>4, <1>5 DEF Next, StageStep, PrepareStep, Life

\* The user client implements ColdClient: StagePackage exchanges a package only through
\* holding none, and PrepareColdBootSession reports a session only on the package held.
THEOREM ClientImplementsCold == Spec => ImplementsColdClient
<1>1. Init => Cold!Init
  BY DEF Init, IdleStaged, IdleSession, Cold!Init
<1> QED
  BY <1>1, Invariance, ColdNext, PTL DEF Spec, ImplementsColdClient, Cold!Spec

=============================================================================
