--------------------------- MODULE PackageIntake ----------------------------
(***************************************************************************)
(* The way of a package from the tool that builds it to the cold boot      *)
(* session: a file is built, may be damaged on its way, and is handed to   *)
(* ValidatePackage, StagePackage and PrepareColdBootSession of the user    *)
(* client, in any order and with another file in between.                  *)
(*                                                                         *)
(* The file does not change during a call.  Allocation and the other steps *)
(* of staging and preparation, which ColdSession follows one by one, are   *)
(* a success or a failure here.                                            *)
(***************************************************************************)
EXTENDS PackageFile

CONSTANTS Sources,       \* firmware files and GPUs a first package is built for
          LaterSources,  \* the ones a later package is built for
          LiveIds,       \* identities the GPU in the machine may have
          MaxBuilds,     \* bound: files the tool writes
          MaxChanges     \* bound: files written and damages of the last one

ASSUME IntakeAssumption ==
  /\ MaxBuilds \in Nat \ {0} /\ MaxChanges \in Nat
  /\ Sources # {} /\ Sources \subseteq SourceFiles
  /\ LaterSources \subseteq Sources /\ LiveIds # {}

VARIABLES live,        \* identity of the GPU
          origin,      \* sources of the file, none or one; history
          file,        \* the package file, none or one
          damages,     \* damages of the file
          builds,      \* files written
          tool,        \* what a run of the tool just did, none or one
          validation,  \* RTXMacUserClient_IVars::validation
          staged,      \* RTXMacStagedPackage
          session      \* RTXMacColdBootSession

vars == << live, origin, file, damages, builds, tool, validation, staged, session >>

NotValidated == [hasResult |-> FALSE, accepted |-> FALSE, of |-> {}]
NotStaged == [ready |-> FALSE, sections |-> << >>, digest |-> {}, from |-> {}, damages |-> 0]
NoSession == [ready |-> FALSE, firmware |-> << >>, metadata |-> {}]

Init ==
  /\ live \in LiveIds
  /\ origin = {} /\ file = {} /\ damages = 0 /\ builds = 0 /\ tool = {}
  /\ validation = NotValidated /\ staged = NotStaged /\ session = NoSession

-----------------------------------------------------------------------------
(* The file *)

\* The tool is at work.
building == \E t \in tool : ~t.done

\* BuildPackage of the tool: the package is built, ...
BuildPackage ==
  /\ builds < MaxBuilds /\ builds + damages < MaxChanges /\ ~building
  /\ \E s \in IF builds = 0 THEN Sources ELSE LaterSources :
       tool' = {[source |-> s, built |-> IF BuildAllowed(s) THEN {BuildGa10xPackage(s)} ELSE {},
                 done |-> FALSE]}
  /\ UNCHANGED << live, origin, file, damages, builds, validation, staged, session >>

\* ... parsed and judged as the driver will do, and only then written.  The tool
\* shares nothing with the driver but the file, which it writes in one step:
\* no call of the client comes in between.
SelfCheck ==
  /\ building
  /\ \E t \in tool :
       LET passed == {p \in t.built : ParseAndVerify(p) = "Ok" /\ CheckGa10xPackageSemantics(p)}
       IN  /\ tool' = {[source |-> t.source, built |-> passed, done |-> TRUE]}
           /\ IF passed # {}
                THEN /\ origin' = {t.source} /\ file' = passed
                     /\ damages' = 0 /\ builds' = builds + 1
                ELSE UNCHANGED << origin, file, damages, builds >>
  /\ UNCHANGED << live, validation, staged, session >>

\* What one damage can make of a file: a header field, a field of the metadata
\* or of a record, a byte, or bytes missing at the end.
HeaderDamages(f) ==
  {[f EXCEPT !.magic = FALSE], [f EXCEPT !.version = 2], [f EXCEPT !.layout = FALSE],
   [f EXCEPT !.reserved = 1], [f EXCEPT !.packageBytes = @ - 1]}

MetadataDamages(f) ==
  {[f EXCEPT !.metadata.pci = id] : id \in LiveIds \cup KnownIdentities}
    \cup {[f EXCEPT !.metadata.appVersion = @ + 1], [f EXCEPT !.metadata.vram = @ + 1],
          [f EXCEPT !.metadata.imem = @ + 1], [f EXCEPT !.metadata.dmem = @ + 1]}

\* A record with a field of another, or with one byte more.
BorrowedField(f, i, j) ==
  {[f EXCEPT !.records[i].kind = f.records[j].kind],
   [f EXCEPT !.records[i].offset = f.records[j].offset],
   [f EXCEPT !.records[i].size = f.records[j].size],
   [f EXCEPT !.records[i].sha256 = f.records[j].sha256]}

LongerSection(f, i) == [f EXCEPT !.records[i].size = @ + 1]

RecordDamages(f) ==
  (UNION {BorrowedField(f, i, j) : i \in {1, 3}, j \in {2, 4, 5}})
    \cup {LongerSection(f, i) : i \in SectionKinds}

ByteDamages(f) ==
  {[f EXCEPT !.bytes[f.records[i].offset + 1] = 999] :
     i \in {k \in SectionKinds : f.records[k].offset + 1 \in DOMAIN f.bytes}}
    \cup {[f EXCEPT !.bytes[kTableEnd + 1] = 999],
          [f EXCEPT !.bytes = SubSeq(@, 1, Len(@) - 1)]}

Damage ==
  /\ builds + damages < MaxChanges /\ ~building
  /\ \E f \in file :
       \E g \in HeaderDamages(f) \cup MetadataDamages(f) \cup RecordDamages(f) \cup ByteDamages(f) :
         g # f /\ file' = {g}
  /\ damages' = damages + 1
  /\ tool' = {} /\ UNCHANGED << live, origin, builds, validation, staged, session >>

-----------------------------------------------------------------------------
(* The user client *)

\* ValidateBytesAgainstLiveGPU: the snapshot of a file.
ValidateBytesAgainstLiveGPU(f) ==
  [hasResult |-> TRUE, of |-> {f},
   accepted |-> /\ ParseAndVerify(f) = "Ok"
                /\ CheckGa10xPackageSemantics(f)
                /\ f.metadata.pci = live]

\* ValidatePackage and, in what it changes, CheckLiveBoundary.
ValidatePackage ==
  ~building /\ \E f \in file :
    /\ validation' = ValidateBytesAgainstLiveGPU(f)
    /\ tool' = {} /\ UNCHANGED << live, origin, file, damages, builds, staged, session >>

\* StagePackage: the session goes in any case; the sections are copied to DMA
\* buffers, which may fail, and the digest of the whole file is kept.
StagePackage ==
  ~building /\ \E f \in file :
    /\ validation' = ValidateBytesAgainstLiveGPU(f)
    /\ session' = NoSession
    /\ \/ staged' = NotStaged
       \/ /\ validation'.accepted
          /\ staged' = [ready |-> TRUE, digest |-> {Sha256(f)}, from |-> origin,
                        sections |-> [k \in SectionKinds |-> FindSection(f, k)],
                        damages |-> damages]
    /\ tool' = {} /\ UNCHANGED << live, origin, file, damages, builds >>

\* Mutant: the file given to the preparation is not compared with the staged one.
SamePackageAlways(f) == staged.ready

\* The staged package is that file.
SamePackage(f) == staged.ready /\ staged.digest = {Sha256(f)}

\* PrepareColdBootSession: the firmware and the metadata come from the file
\* given here, everything else from what was staged.
PrepareColdBootSession ==
  ~building /\ \E f \in file :
    /\ validation' = ValidateBytesAgainstLiveGPU(f)
    /\ \/ session' = NoSession
       \/ /\ validation'.accepted /\ SamePackage(f)
          /\ session' = [ready |-> TRUE, firmware |-> FindSection(f, Firmware),
                         metadata |-> {f.metadata}]
    /\ tool' = {} /\ UNCHANGED << live, origin, file, damages, builds, staged >>

Next == BuildPackage \/ SelfCheck \/ Damage \/ ValidatePackage \/ StagePackage \/ PrepareColdBootSession

Spec == Init /\ [][Next]_vars

-----------------------------------------------------------------------------
(* Properties *)

\* Whatever happened to a file, the sections of an accepted one have each kind
\* once, lie behind the table and within the file, and share no byte.
AcceptedSectionsApart ==
  validation.accepted =>
    \A f \in validation.of :
      LET span(i) == (f.records[i].offset + 1)..(f.records[i].offset + f.records[i].size)
      IN  /\ {f.records[i].kind : i \in SectionKinds} = SectionKinds
          /\ \A i \in SectionKinds :
               span(i) # {} /\ span(i) \subseteq (kTableEnd + 1)..Len(f.bytes)
          /\ \A i, j \in SectionKinds : i # j => span(i) \cap span(j) = {}

\* A file with one damage never stages anything but the payloads it was built
\* from: no single field of the table can lead to other bytes.
StagedContentIsBuilt ==
  staged.ready /\ staged.damages <= 1 =>
    \A s \in staged.from : staged.sections \in Payloads(s)

\* A file that ParseAndVerify and the client let through has its sections within
\* the file and apart, after any number of damages, and one with at most one
\* damage leads to no other bytes than those it was built from.
AcceptedIsSound == AcceptedSectionsApart /\ StagedContentIsBuilt

\* The reasons BuildGa10xPackage does not look at for which a package is
\* refused: the size of the GSP signature, offsets into the bootloader, the
\* sizes the VBIOS gives for code and data, and a booter without code or data.
UncheckedByBuilder(s) ==
  \/ Len(s.gspSignature) # kGspSignatureBytes
  \/ \E off \in {s.boot.monitorCode, s.boot.monitorData, s.boot.manifest} :
       off >= Len(s.boot.data)
  \/ 0 \in {s.fwsec.imemLoadSize, s.fwsec.dmemLoadSize, s.fwsec.engineIdMask, s.fwsec.ucodeId}
  \/ s.fwsec.imemLoadSize + s.fwsec.dmemLoadSize > AlignUp(s.fwsec.storedSize, kImageRound)
  \/ \E r \in {s.sec2.code, s.sec2.osData} : r.size = 0

\* Builder and parser agree on the whole layout: but for those reasons what
\* BuildGa10xPackage lets through passes the tool's check of its own work, and
\* a file that arrives as written is accepted by exactly the GPU it is for.
BuiltIsAccepted ==
  /\ \A t \in tool :
       t.done => (t.built # {} <=> BuildAllowed(t.source) /\ ~UncheckedByBuilder(t.source))
  /\ validation.hasResult /\ validation.of = file /\ damages = 0 =>
       \A s \in origin : validation.accepted <=> s.pci = live

\* A ready session has the firmware and the metadata of the staged package,
\* also when another package was built or the file damaged since staging.
SessionMatchesStaged ==
  session.ready =>
    /\ staged.ready /\ session.firmware = staged.sections[Firmware]
    /\ \E f \in staged.digest : session.metadata = {f.metadata}

=============================================================================
