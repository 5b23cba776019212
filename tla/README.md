# malmathic in TLA+

malmathic is an offline triage tool: it reads an NTFS volume or a disk image by
itself, ranks the files an infection may have left, and recovers their bytes.
It is a sequential program. What makes it hard is not threads but what it
stands on: a volume that may be changing while it is read, devices and images
that answer short or fail, parsers that panic and are caught, artifacts that
contradict each other, and a chain of fallbacks that all write to the same
candidate and the same file. This directory models those parts, checks them
with TLC on small instances and proves the most important results with TLAPS
for every value of the constants.

Paths below are relative to `src/crates/` unless they start with `src/`.

## 1. Inventory

| Component | State it keeps | Operations | What makes it correct |
| --- | --- | --- | --- |
| **Acquisition chain** `malmathic/src/acquire.rs` | on the candidate: `hash`, `acquired_hash`, `hash_checks`; `C<id>.bin`; in the loop: the held result, the first failure | `acquire`, nine `from_*` sources, `save` | trying a source and setting its result aside leaves no trace; the sample reported is the file on disk; nothing unproven replaces a recorded digest |
| **Sample pass** `malmathic/src/pipeline.rs` 2601-2894 | which candidates were taken, bytes spent, how many were declined | `acquire_samples` | caps hold, nothing recovered is lost, every report line names the directory its file is in |
| **Deep carve** `pipeline.rs` 2897-3054, `malmathic/src/deep.rs` | targets, hits, budgets | `targets`, `scan`, `examine`, `adopt` | only what has no bytes is searched for; the scan ends and does not claim more than it searched |
| **Shared reader** `mm-raw/src/shared.rs` | one reader, one remembered cursor, a position per handle | `read`, `seek`, `clone` | every handle is a stream of its own |
| **Block cache** `mm-env/src/reader.rs` | direct-mapped blocks, a position | `read`, `seek`, `load` | served bytes are the device's |
| **Candidate graph** `mm-score/src/graph.rs` | disjoint sets, indexes by path and digest | `build`, `link_shared_digests` | a candidate is one file; harvest order does not matter |
| **Pipeline** `pipeline.rs` | observations, coverage, candidates | the stages of `run`, `guarded` | a failing stage is reported and costs only itself; evidence is counted once |
| **Index slack** `malmathic/src/index_slack.rs`, `mm-raw/src/{slack,volume}.rs` | names recovered, records they name | `harvest` | an ambiguous or reallocated record never aims a carve |
| **NTFS volume** `mm-raw/src/volume.rs` | caches of records and directories | `resolve`, `data_runs`, `record_fate`, reads | stale parents and recycled records are recognised |
| **Shadow copies** `mm-raw/src/vss.rs` | catalog, block map per store | `read_catalog`, `read_block_map`, reader | a block comes from the store that owns it at that time |
| **Disk images** `mm-env/src/{vdi,vmdk,snapshots,image}.rs` | grain tables, snapshot chain, position | `open`, `read`, `seek` | a sector comes from the newest extent that holds it |
| **WOF, LZX, Xpress** `mm-raw/src/wof.rs`, `mm-core/src/{lzx,xpress}.rs` | chunk tables, decoder state | decompression | bounded output, inverse of compression |
| **Harvest** `mm-harvest/src/` | tables built from one artifact each | one parser per artifact; the filesystem walk; the USN journal's joins | no artifact aborts the run; names are attributed to the right record |
| **Signatures** `mm-sign/src/` | pinned roots, catalogs, a work budget | `verify`, `build_chain`, catalog lookup | a chain to a pinned root is found if there is one, whatever else the file carries |
| **Scoring** `mm-score/src/{features,weights,window,baseline,machine,zone}.rs` | per-machine baseline | features, weights, incident window | a score depends on what was observed, never on the order, and counts nothing twice |
| **Report, redaction** `mm-report/src/`, `malmathic/src/redact.rs` | pseudonym tables | `render`, `redact` | the same name gets the same pseudonym throughout |
| **Case directory** `malmathic/src/casedir.rs` | — | placement, refusal | never on what is read, never over a result |
| **Environment, CLI, diagnostics, bindings** | — | Win32, arguments, printing, wrappers | — |

How they interact: a `BlockReader` (device) or an image reader is wrapped in
one `SharedReader`, whose handles serve the NTFS parser, raw reads and every
shadow copy; the harvesters' observations are grouped by the graph into
candidates; scoring orders them; the sample pass runs the acquisition chain
for some of them and the deep carve for what is left; the report prints
what the candidate and its `Acquisition` say.

The hard behaviours, each with its line and the property that covers it, are
the `hazards` of `PROJECT.json`.

## 2. Modules and how they correspond to the code

| Module | Models | Actions |
| --- | --- | --- |
| `SampleVerdict` | *abstract*: what acquisition promises of one candidate | `Trust`, `Caveat`, `GiveUp` |
| `AcquireChain` | `acquire()` and everything it calls | `TryStep` (one turn of the loop: `NoSource`, `SourceFailed`, `Accept`, `SetAside`), `ChainExhausted`, `RunHeldAgain`, `FallBack` |
| `SamplePass` | `acquire_samples`, `deep_carve` | `Begin`, `NoSampleDirectory`, `AcquireRanked`, `EndRanked`, `Pass`, `Decline`, `NoUnrankedDirectory`, `AcquireUnranked`, `EndUnranked`, `NoCarve`, `Scan`, `Adopt`, `DropHit`, `EndAdopt` |
| `DeepScan` | `scan`, `examine`, `FreeRuns` of `deep.rs` (the `Scan` step of `SamplePass`) | `NextRun`, `Searched`, `Exhausted`, `UnreadableSpan`, `ReadSpan`, `NoHeader`, `CutOff`, `OverSpent`, `UnreadableImage`, `Compare`, `EndSpan` |
| `ByteStream` | *abstract*: `Read + Seek` for several readers of one medium | `Read`, `Fail`, `Seek` |
| `SharedReader` | `mm-raw/src/shared.rs` | `Read`, `ReadFails`, `ReadPanics`, `SeekStart`, `SeekCurrent`, `SeekEnd`, `SeekEndFails`, `SeekPanics`, `Clone` |
| `BlockReader` | `mm-env/src/reader.rs` | `BeginRead`, `LoadBlock`, `LoadFails`, `LoadEmpty`, `CopyOut`, `FinishRead`, `SeekTo`, `SeekRefused` |
| `DiskImages` | `Vmdk::open`, `read`, `seek` of `vmdk.rs`; `vdi.rs`; `ImageFile` of `image.rs` | `OpenFails`, `OpenLink`, `OpenVdi`, `ReadDisk`, `SeekDisk` |
| `ShadowStore` | `read_block_map` and `ShadowReader` of `vss.rs`, `ShadowStore::open` of `acquire.rs`; external: the system that writes the store | `Overwrite`, `Patch`, `Move`, `Break` (external), `Open`, `StopWalk`, `ReadListBlock`, `Truncate`, `EndWalk`, `Read`, `BeginFile`, `SeekTo` |
| `MftWalk` | `enumerate_with_progress`, path resolution and what is said of the lost, of `filesystem.rs`; external: NTFS | `Create`, `AddLink`, `MoveTo`, `Delete` (external), `ReadRecords`, `ResolveFile`, `PassRecord`, `ExplainLost` |
| `IndexSlack` | `index_slack.rs` with `record_fate` of `volume.rs`, and the carve that trusts it; external: NTFS | `Create`, `Delete`, `Rename`, `Rebalance` (external), `Harvest`, `CarveSlack` |
| `UsnJournal` | `read_journal` of `mm-raw/src/usn.rs`, `harvest` of `usn_journal.rs`; external: NTFS | `Create`, `Delete`, `CreateAndDelete`, `MakeDirectory`, `RemoveDirectory`, `RenameDirectory`, `Trim` (external), `Open`, `ReadWindow`, `ReadFails`, `Exhausted`, `EndOfJournal`, `Begin`, `HarvestRow`, `EndHarvest` |
| `CandidateGraph` | `build` of `mm-score/src/graph.rs` | `Observe` |
| `Pipeline` | `run` of `pipeline.rs`: 24 stages in their order | one action per stage, grouped as `Harvest`, `Gather` and `Judge` |
| `Weights`, `Scoring` | `weights.toml`; `features.rs`, `EvidenceSet::offer` of `weights.rs` | `Observe`, `Conclude` |
| `SignatureChain` | `build_chain`, `walk` and the outcome of `verify_signer` in `verify.rs` | `ReachRoot`, `Climb`, `NotIssued`, `ComeBack`, `GiveUp`, `Conclude` |
| `*Proofs` | the theorems of the module they are named after; those of `SharedReader`, `SamplePass` and `BlockReader` are in `MCMediumProofs`, `MCRecoveryProofs` and `MCVerdictProofs`, whose modules extend them, and those of `DiskImages` and `IndexSlack` in `MCMediumProofs` too | |
| `MC*` | the sets and symmetries TLC needs; `MCMedium`, `MCRecovery` and `MCVerdict` put modules side by side | |

Definitions whose comment starts with *Fault:* are the mutants: plausible
mistakes, never part of a specification, that show a property can fail.

**AcquireChain.** `recorded` are the digests artifacts recorded, `observed`
the kinds of observation that guards of the sources look at, `book` the
`HashBookkeeping` of the candidate, `held` and `failure` the locals of
`acquire`, `file` is `C<id>.bin`. What a source finds on the volume is an
*evidence* record chosen by TLC from `Offers(step)`: nothing, something
refused (wrong identity, encryption, length or read error), or bytes with a
count of what `$Bitmap` says of their clusters and how their length compares
with the one recorded elsewhere. What is not read carries one fixed record,
since no handler looks at its other fields. The `From...` operators are the
decision of each source on that evidence. A content stands for its digests: a
computed digest always carries every algorithm. When the held source runs a
second time the volume may answer anew; `steady` remembers whether it did.
`vouched`, `aside`, `shown`, `steady` and `outcome.inverse` are history.

**SamplePass.** Candidates are numbered by rank. The outcome of `acquire` for
each is any outcome `AcquireChain` allows, including a file left behind
without bytes. The directory that cannot be made, the file that cannot be
written and the cap that is reached are all actions or branches.

**DeepScan.** The cluster is the unit of length. What `pe_image_length` would
measure at the start of a free cluster, how much of the image its headers take,
and which targets its bytes answer to are chosen with the disk; a cluster
either reads or does not, for the whole scan. `compared` and `declined` are
history. Each turn of the inner loop is one action, because the budgets are
looked at between two images and between two chunks, at different places.

**SharedReader / BlockReader.** A byte stands for its own offset, so that a
wrong byte is a visible one. In `SharedReader` the reader underneath may end
anywhere after an error; a panic inside its `read` leaves its position where it was, as in
every reader this code uses (they move it in their last statement). In
`BlockReader` a read is a sequence of steps, since the device can answer
differently at each block; the buffer of a failed load is `Junk`.

**DiskImages.** A chain is built by one action per link: the hint if it has the
CID the child names, else the only file looked into that claims it, else refusal. A
stored byte is its file and its offset on the disk; the grains of a sparse file
lie in reverse order, so that a read past the end of a grain finds the wrong
one. Of the files beside a link `find_parent` looks into `MAX_PARENT_SCAN`, in the
order the directory lists them (`Looked`: any such set), and passes over those it
cannot open; a hint may name a file that is gone or cannot be read. `read` is one action: it takes what the first run gives, as the code does,
and the caller asks again. Sizes are parameters. `ImageAssumption` says what can be in
the files: no sector, grain or block of size zero (the code refuses such a header:
`vmdk.rs:114`, `vdi.rs:59`; a sector is 512 bytes), a grain table as long as its
extent, and no block of a VDI in two places of its disk, which is the format's promise and
unchecked.

**ShadowStore.** A byte is its address and *then* or *now*. The external system
copies a block before its first overwrite, leaves overlays for smaller writes
and moves stored blocks; the chain of list blocks may then become unreadable,
loop or lead outside the volume. `read_block_map` is a loop with its own caps,
one list block per action, and a read resolves one block, counting the bytes whose
owner is doubtful (`uncertain`). The live fallback of each store is part of it.

**MftWalk and IndexSlack.** Both grow a volume by legal NTFS operations before
the code looks at it, so that every stale reference the model meets is one a
history can leave: a record is used, freed with the next sequence number, and
used again. `MftWalk` then walks it record by record with the cache of resolved
directories, the check of sequence numbers (switched off when most links are
stale, as the code does) and the depth limit; `IndexSlack` goes on changing the
volume between the harvest of the slack and the carve, as a live system does.
Sequence numbers wrap at `Modulus`, skipping 0. A recursion of the code that is
bounded by a depth is a function of the depth still left (`ResolveDirectory`,
`Explain`); that a path is the volume's is said of each of its directories and the
one before (`Leads`), without a recursion.

**UsnJournal.** The volume grows in the same way, and each creation and deletion
of a file appends a row to `$J`, as long as its name and stamped by a clock that
may be set back; the front of `$J` may be given back. `read_journal` takes one
window per action, ended by the end of a run, and carries the last `Overlap`
clusters of what it scanned; `$J` is one segment. A row may name its directory by
sequence number 0, which any directory answers to (`usn_journal.rs:433`). `harvest` takes one row per action: the row for a
creation and for a deletion, each with its own budget of resolutions, the clock
looked at before each, and the cache of directories they share. Which paths the
run knows is chosen when the harvest begins. `was` and `moved` of a row are
history: the path the file had, and whether a directory above it was renamed.

**CandidateGraph.** A digest is an algorithm and the content it is of;
`DigestSets` names which algorithms an artifact records together. `leader` is
the parent array with every `find` followed to its root: path halving changes
no root. The candidates `build` would return if the observations ended here
are `Roots` and `Members`. `SharedAlgorithmAssumption` is what the harvesters do:
only Amcache (its SHA-1) and the quarantine (every algorithm) record digests.

**Pipeline.** An observation is who made it, what kind of claim it is, the key
of the path it names, whether that path states another volume, and its digest.
Three keys stand for all paths: in a place programs are not installed in, in
one they are, and the latter spelled through a junction; the two spellings have
one file name. Parsers are external: each finds any sequence of its `Claims`, and
one that panics has found nothing, or less. Everything after them
is translated: withholding other volumes, promotion and deferral of COM
registrations, deferral of detections and freed values, the walk and what is
worth observing, the three rejoinings, translation through junctions, dating by
the journal, `build`, the two linkings by digest and every re-extraction of evidence.
The walk emits the files that are there and records that were freed, of which one may
have had the path of a file that is there now (`MaxDeletions` bounds how many); a file's own
record may not tell of it (`spilled`: it cannot be read, or the name is in another
record), so that `facts_for_record` has nothing. What a stage writes into `Coverage`
and the warnings, and observations without a path, are left out.

**Scoring.** A path is its zone and what its file name reads as; weights are
the tenths of `weights.toml`, all rows of it. The loop over the observations
takes them in any order, and `Conclude` is the rest of `extract_with_window`. The
census of the volume may be anything that has counted the candidate if the walk
saw it. `from_compact_os` hears the first statement on compression there is
(`compact_os`, `features.rs:779`), the one row that depends on their
order. Candidates without a path are left out. The table is a constant, as it is
an argument of the code. What is assumed of it, and TLC evaluates on the shipped one:
every feature has a row (`weights.rs:456` tests it); no group has two rows as
strong as each other of which one accuses and one excuses, since `offer` keeps the
first of two equally strong ones and the score would depend on the order; how
often a name is found is a group of its own (`TableAssumption`); and the weights of
what is said of a signature, all of one group, are ordered as the verdicts are
(`SignatureAssumption`). The tests at `features.rs:1840`, 2373 and 2403 look at single
files under the shipped table; no test holds a new table to the second.

**SignatureChain.** Certificates are subject, issuer, key and signing key; some
keys are of an algorithm that cannot be checked. The recursion of `walk` is a
stack of the issuers still to try, one turn of its loop per action, with its
budget of work and depth; the outcome of `verify_signer` follows from what the
walk found or noted, and from whether every certificate of the chain was valid at the
time it is evaluated at, a corroborated one or now.

## 3. Runs

Three runs pass. Each puts several modules side by side, because a TLC
run is one question about one part of the program and not about a module: the
parts share no state, `part` is chosen in the initial state and says which
module's `Next` a behaviour takes, and every property named is the one of the
module (`Disk!ServesTheDisk` and so on). No step of one part can change, help or
hide a step of another.

| Run | What it shows | Bounds |
| --- | --- | --- |
| `Medium` | `SharedReader`: every handle refines a `ByteStream` of its own. `DiskImages`: a VMDK chain and a VDI serve the disk's bytes, and no parent is guessed. `MftWalk`: a path a file is given is one it had, and every file without one is explained. `IndexSlack`: a carve takes the file the slack names or nothing (unless the record was used again meanwhile), and what is said of a record's fate is true of it | 3 handles, 2 bytes, offsets to 3; 3 files of up to 2 links, any of them unreadable, or 4 of which 2 are looked into, extents of up to 3 sectors, grains of 2; 3 records, 2 uses of each, paths of 1 and of 2 directories, at most one damaged; 2 records, 2 names, 2 uses, sequence numbers modulo 4 |
| `Recovery` | `AcquireChain`: on a live volume with a failing disk the sample reported is the file on disk with its digest, a recorded identity is replaced only by vouched bytes, unprovable bytes are the earliest source's; on a steady one the loop of trials and rollbacks is one decision (`OneDecision`: refinement of `SampleVerdict`). `SamplePass`: recovered bytes are kept and are where the report says, and caps overrun by less than one sample. `DeepScan`: the scan ends; hits are whole, free and lowest on disk; an exhaustive scan compared all but what a budget kept from it. `ShadowStore`: what is served as the snapshot's is the snapshot's unless it is counted as doubtful or the list was damaged | 2 contents, 1 recorded digest or none, 1 failed write; 3 candidates, 2 ranked, caps of 2 files and 1 byte; 5 clusters in chunks of 2 and a window of 1, at most one unreadable, four kinds of image, budgets of 8 clusters, 4 headers, 2 hashes; 2 blocks of 2 bytes and a byte behind them, 2 slots, one descriptor per list block |
| `Verdict` | `BlockReader`: the cache refines `ByteStream`, holds the device's bytes, and cuts a read short only where the device did. `CandidateGraph`: no candidate holds two paths, nothing is merged without a shared path or digest, the split does not depend on order. `Pipeline`: no observation is lost or doubled, present files are known to be unless a freed record or an unreadable one stands in the way, evidence is of the observations reported, links by digest are mutual. `SignatureChain`: a chain that exists within the budget is found. `Scoring`: the score does not depend on order beyond which statement on compression is heard, verdicts on a signature are ordered, names are judged by other files. `UsnJournal`: rows are read once, in order and without a gap, and a path gets the date of its own earliest row or none | 5 bytes in blocks of 2, 2 slots for 3 blocks, reads of 4; 2 paths, 2 contents, sequences of 4 observations; 2 harvested observations of 14 claims, 1 freed record, 1 candidate recovered; pools of up to 3 of 8 certificates under 3 signers, depth 3, work 5; 7 zones, 3 names, up to 2 of 15 statements, 7 censuses; 2 rows of 2 clusters in windows of 3 with 2 carried over, 2 readings of the clock, 2 records, 2 changes of directories, paths of 2 directories |
| `AcquireNoSamples` (violation) | finding 1 | |
| `AcquireStrayFile` (violation) | finding 2 | |
| `AcquirePartialIdentity` (violation) | finding 3 | |
| `UnrankedCap` (violation) | finding 4 | |
| `ExhaustiveScan` (violation) | finding 5 | |
| `PipelineFreedRecord` (violation) | finding 6 | |
| `PipelineAlias` (violation) | finding 7 | |
| `PartialBlockMap` (violation) | finding 8 | |
| `JournalOldest` (violation) | finding 9 | |

Why these bounds suffice for what they look for. In the chain a content matters
only by being equal or unequal to the recorded and the reported one, and every
decision compares two; only the first recorded digest is ever compared. Three
blocks over two slots give a hit, a conflict and an eviction that returns; a
read of 4 bytes crosses up to two block boundaries. Three handles are two that
interfere and one that was cloned between. Three image files are a child, a
parent and a rival; a fourth puts a rival out of what is looked into. Three records are a file, its directory and the directory
that takes the place of one that is gone, read before or after it; two uses
make every reference fresh or stale, and both runs, with and without a nested
directory, meet the depth limit. Modulo 4 the sequence numbers are 1, 2 and 3
and wrap within two uses of a record that begins at 3. Two blocks and two slots
let an overlay meet a copy and a block be moved over another; the cap on descriptors
is not reached with them, and `SnapshotCorrect` is proved of any. Four observations join two named files through a nameless
fragment from both sides. In the scan a run of five clusters takes three
overlapping chunks, one image kind straddles two of them and one reaches past
any buffer, and each budget can be reached before the end as well as never. In
the pass each cap binds alone and both together, before and after a failed
attempt. Two observations are what a hijack, a superseded registration, a
rejoined detection or a shared digest takes; the third fact each of them needs
comes from the walk, a freed record or the bytes recovered. Three certificates above a
signer are a chain of full depth with one branch that leads nowhere, tried
before it or after. Two statements of the same group, in both orders and beside
every census, are what a score has to be proof against. Two rows are an
earlier and a later one of the same path, with the clock going either way, or one
row across two windows and one before it; two changes of directories put another
directory into the place of the one that a row names. Two rows do not exceed the
budgets of rows and of resolutions; those of bytes and of time do run out.

`CHECK_DEADLOCK FALSE` stands where the program ends: one candidate acquired,
one pass over, a chain found. In the runs of several parts it covers the parts
that end.

Fairness: only the search part of `Recovery` states any, weak fairness of the
whole next-state relation of `DeepScan`: it is one loop on one thread, which has
a next statement as long as it has not ended, and every call it makes returns.
Neither the clock nor a budget is assumed to run out. The other properties are
safety properties, and the other loops end because their counter grows or their
budget shrinks with every turn.

### Findings

1. **A verdict that depends on `--no-samples`** (`acquire.rs:1600`). The length
   check of a carve out of index slack looks at `Acquisition::Bytes` only.
2. **A file where the report says there is none** (`acquire.rs:330-363`). On a
   live volume the held source may fail when it is run again, after a losing
   source wrote `C<id>.bin`; the outcome is `HashOnly`, printed as "NO BYTES were
   written to the case directory".
3. **A fragment as identity** (`acquire.rs:1603`). Index slack turns a recovery
   into `Partial` after its digest was adopted.
4. **The cap of `sample/unranked`** (`pipeline.rs:2975`). The deep carve ignores
   it. Besides, the byte cap is looked at before an attempt, so the last sample
   may carry the directory past it; `OverrunIsOneSample` bounds by how much.
5. **"The search covered every free run"** (`deep.rs:195`). A budget that is
   spent inside the last chunk keeps images from being compared and is not
   recorded, because the reason is only looked for before the next chunk. Apart
   from that, `ExhaustiveMeansCompared` shows the sentence true of a steady medium:
   an image that cannot be read whole lies in a span that cannot be read either.
6. **A freed record that answers for a file** (`pipeline.rs:1303`). A path that was
   translated through a junction gets the facts of the file it names, unless the walk
   reported that path `already`; a freed record that once had the path counts. The
   file that is there is then not known to be, and its candidate may be scored as no
   longer on disk (`features.rs:882`). `PresentFilesAreKnownPresent` shows it is
   the only way, besides a record that does not tell.
7. **A detection behind a junction** (`pipeline.rs:183`). Deferred detections
   are compared with the paths of candidates before those are translated, so one that names
   a file by an alias is reported as naming a path the volume does not have.
8. **A partial block map that is served** (`vss.rs:273`). A list of blocks that
   loops or cannot be read ends the map without `truncated`, the only flag
   `ShadowStore::open` refuses: today's bytes stand where the snapshot's belong.
9. **"Older events were not read"** (`usn.rs:214`). The change journal is read oldest
   first, so a limit on records, bytes or time leaves out the newest events; the report
   says of each of the three the opposite (`usn.rs:81-88`). `JournalIsReadInOrder` shows that what
   is read has no gap.

Not findings, but worth knowing.

- `record_acquired_hash` runs before `save`, and nothing is put back when the
  write fails: a candidate can end as `HashOnly` with `acquired_hash` of bytes
  that are not on disk.
- Four stages parse file by file under `guarded()` and use only its `Ok`
  (`pipeline.rs:651`, 740; PCA and quarantine likewise): a file that makes its parser
  panic is missing without a line. So is the redirect of a user's startup folder
  (`pipeline.rs:366-372`). The model leaves out what a stage writes into `Coverage`.
- "no .vmdk in the directory has that CID" (`vmdk.rs:788-791`) is said of the files that were
  looked into and could be opened: not of those past `MAX_PARENT_SCAN`, among which
  a rival of the parent that is taken may be as well. `NoParentIsGuessed` excepts them.
- A deleted and a live record of one path can disagree whether its compressed bytes can
  be read; `from_compact_os` hears the first, so that row depends on the order of the
  records. Which of two paths a nameless observation joins, if it shares digests
  with both, depends on the order of the artifacts.
- In the graph a source that recorded a SHA-256 alone, beside one that records
  SHA-1 alone, could bring two paths together through a fragment indexed under
  both; every digest harvested today includes SHA-1, and the `DigestSets` of the run say so.
- In the walk the depth limit is looked at before the cache, so whether a file
  deeper than 64 directories has a path can depend on what was resolved before
  it. A deleted directory's record already carries the next sequence number, so
  files deleted together with it are always orphans. When most links look stale the
  sequence check is dropped, and paths may then be those of other directories:
  `PathsAreTrue` promises nothing in that case, and the code says so in its statistics.
- A record's sequence number is looked at when slack is harvested and not again
  when it is carved. If a live volume used the record again in between, for a file
  of the same name that was deleted too, the carve takes that one;
  `CarvedIsTheNamedFile` excepts it. A file whose record had the last sequence
  number is taken for one whose record was freed again, because the expected next
  number is 0 and NTFS skips it (`volume.rs:1089`); `FateIsTrue` excepts it.
- When the first window of the change journal cannot be read it is reported as present
  but empty, beside the line that a read failed. `usn::record_fate` (`usn.rs:321`) asks for an
  equal sequence number where `Volume::record_fate` accepts the next one: a record
  that was merely freed counts as handed to another file.
- The cache of `resolve_directory` (`usn_journal.rs:468`) also keeps that a
  directory had no path when it was asked for from too deep below it
  (`MAX_PATH_DEPTH`), so a row in that directory itself may then go undated;
  `DatesAreTrue` promises completeness only of volumes less deep. A directory renamed
  after a deletion gives the file its new path: the journal's rows of renames are not read.
- What the last block of a volume held, if the volume is no multiple of 16 KiB, is left
  out of the map although the store may have it (`vss.rs:307`), and today's bytes are
  read there without a mark. `TheSnapshotIsServed` is about whole blocks.
- A flat VMDK extent whose file ends early zero-fills the extents behind it in
  the same link (`vmdk.rs:880-883`).
- A certificate in the file with the issuer's name and another key makes a chain
  that reaches no root `Invalid` instead of `Untrusted`; and when the budget of
  work runs out, the verdict depends on the order of the certificates.
- In Program Files the row for unsigned managed assemblies (1.7) weighs more than the
  one for other unsigned files (1.3): there the discount is a surcharge.

## 4. Theorems

All are proved by TLAPS for every value of the constants under the named
assumptions of the module (what the constants are, never what the program does).

| Theorem | States | Argument |
| --- | --- | --- |
| `AcquireChainProofs!TypeCorrect`, `SavedFileCorrect`, `IdentityCorrect`, `EarliestReported`; `MCRecoveryProofs` too | `ChainTypeOK`, `SavedFileIsTheReportedOne`, `IdentityIsVouchedFor`, `EarliestUnprovableIsReported` | `IInv` adds what is true only between runs: what is held came from what its source offered, the identity it had before was vouched for (so that putting it back is safe), and with `--no-samples` no file exists. `RunSound` says what any source leaves behind, once, for all nine |
| `AcquireChainProofs!ChainIsOneDecision`; `MCRecoveryProofs` too | `OneDecision`, the refinement of `SampleVerdict` | what the trials keep between them, the held result and the first failure, is nothing the abstract decision has not already seen; the one step that decides is a step of `SampleVerdict`, every other a stutter |
| `MCMediumProofs!TypeCorrect`, `AnchorCorrect`, `Independence` | `TypeOK`, `AnchorIsTrue`, the refinement of `ByteStream` | the anchor is the cursor, hence `Landed(h)` is the handle's own position, hence every answer is the bytes there |
| `MCVerdictProofs!TypeCorrect`, `CacheCorrect`, `ServesCorrect`, `ShortReadsCorrect` | `TypeOK`, `CacheIsTheDevice`, the refinement of `ByteStream`, `ShortOnlyWhereTheDeviceWas` | `IInv`: the shape of cache and call, valid slots hold the device's bytes, and what was copied so far is a prefix of the answer. The step that copies out of a block needs that a part of a run of bytes is one, and that two adjacent runs make one |
| `MCRecoveryProofs!TypeCorrect`, `OverrunBounded`, `BytesKept`, `SavedBytesOnDisk` | `TypeOK`, `OverrunIsOneSample`, `RecoveredBytesAreKept`, `SavedBytesAreOnDisk` | `IInv` adds `Untouched`: a candidate the loops have not reached, or a target not yet adopted, has no bytes, so a step never reaches one that has; and `Counted`: attempts and declined are no more than the candidates passed |
| `DeepScanProofs!TypeCorrect`, `HitsCorrect`, `ExhaustiveCorrect`; the last two in `MCRecoveryProofs` too | `HitsAreWholeAndFirst`, `ExhaustiveMeansCompared` | `IInv` says how far the search has come (`Reached`, `Swept`): the run in hand is maximal, what is behind was read and counted, and an image behind that could answer was compared, declined, or lies over a cluster that cannot be read (`NothingIsPassedOver`). The lowest image wins because the scan only goes up. A search that ends inside a run either has a reason or every hit (`EndsWithEveryHit`) |
| `MCMediumProofs!FateCorrect`, `CarvedCorrect` | `FateIsTrue`, `CarvedIsTheNamedFile` | `DirectoryIInv`: every entry, live or slack, is of a file its record has or had (`Remembered`), and what harvest found is of one record which since then only moves on. Under `ReuseAssumption` a record is used again less often than there are sequence numbers, so equal numbers mean the same use (`EqualRemainders`). Any records, names, modulus and number of reuses: the run gives them values in `Medium.cfg` and fixes none in the module |
| `MftWalkProofs!PathsCorrect`, `LossesCorrect`; `MCMediumProofs` too | `PathsAreTrue`, `LossesAreTold` | `Volume`: every name was given while its directory was there, and unless the record's number has moved on since, it still is (`WasMeant`); so a sequence number that agrees means the directory that was meant. `IndexIsOfTheVolume`: the first pass keeps the names as they are, or without their numbers. `PathsKnown`: what the walk remembers of a directory is a path of undamaged directories from the root down to it, whichever file was resolved when it was learned; so a remembered path may answer for any depth. `Told`: each file passed has every path it was promised, is counted as lost only if it was promised none, and every name in `lost` was meant once and has a reason. The chain of `resolve_directory` and that of `explain_lost` break where the definition `WhyNot` says: by the least depth at which they would not (`FirstFailure`). Any records, depth, damage and history |
| `MCMediumProofs!ParentsCorrect` | `NoParentIsGuessed` | `ChainIsMeant`: each link of the chain, and the file about to be opened, is one the link before it means: the one its hint names, or the only one that can be read and has its CID, unless there are more files than `MaxParentScan`: then one nobody looked into may have it as well. When there are no more, what is looked into is all of them (a subset as large as the whole is the whole), and under `FileAssumption` (finitely many files) counting to one is being the only one. Any directory, order and cap |
| `MCMediumProofs!ServesCorrect` | `ServesTheDisk` | `DiskInv`: every link has its extents, the position is a number and nothing has been read before the disk is open. `LinkHas`: what a link answers for a sector is true of every byte the answer is about (`ExtentHas`, through the reversed order of the grains), and reaches past the position. So the links ahead of the one that is served hold nothing of the whole run, and that one holds all of it (`VmdkReadIs`); a VDI block is found again from its place in the file (`VdiByteIs`). It rests on facts about quotients and on the extents lying one behind the other, by the least place where they would not (`EndsGrow`, `OneExtent`). Any chain, extents, sizes and position under `ImageAssumption`; torn flat files are excepted as in the property |
| `CandidateGraphProofs!TypeCorrect`, `ResemblanceCorrect`, `SplitCorrect`; the last two in `MCVerdictProofs` too | `TypeOK`, `NothingIsMergedOnResemblance`, `TheSplitIsTheSameInAnyOrder` | `IInv`: every observation is in one group (`Grouped`), both indexes lead to the group that has the path or the digest (`PathsAreIndexed`, `DigestsAreIndexed`), and a group nobody has named holds one content and all there is of it (`ContentsAreTogether`). While the digests of one observation are looked up it is in one of three places (`LoopInv`): claimed by nobody, by one group, or by a named group that took in the nameless one. The count is two bijections: named groups with paths, nameless ones with contents no path has. `SharedAlgorithmAssumption` is needed: were there artifacts with no algorithm in common, one content would make two groups until a third artifact joined them. `GraphAssumption` is checked of the run's values |
| `PipelineProofs!TypeCorrect`, `EveryObservationIsSomewhere`, `DetectionsOfFilesStay`, `CandidatesAreAnchored`, `FilesHereAreKnown`, `EvidenceIsUpToDate`, `LinksAreMutual`; the last six in `MCVerdictProofs` too | `TypeOK`, `EveryObservationIsAccountedFor`, `DetectionOfAFileHereIsKept`, `DeferredNameNoCandidateAlone`, `PresentFilesAreKnownPresent`, `EvidenceIsOfTheReport`, `SharedDigestsAreMutual` | `IInv` is the order of the stages made explicit. `InItsTime`: what a stage makes is not there before it, nor after the stage that consumes it. `Accounted`: the seven places an observation can be in share none and together hold 1..`harvested`, so that one counts all (`GivenIs`). `Anchored`: after the walk, every path in play was named by something that was not set aside. `LookedFor`: what the walk was told to look for and is there, it found; what only a junction leads to has its facts fetched, unless a freed record had the path or its own record does not tell, and the theorem says no more. `Scored`, `LinkedMutually`: evidence and links are of the candidates as they stand. What selecting, joining and mapping sequences keep is said once (`ThoseAre`, `ConcatIs`, `MapIs`, `LinksAre`). `ClaimsAssumption`, that no parser makes a link by digest, is itself proved of the run's claims (`ClaimsAre`) |
| `MCRecoveryProofs!SnapshotCorrect` | `TheSnapshotIsServed` | `ShadowInv` keeps the history of the volume in the store: a copied block is in the slot that its one descriptor names (`Copied`, `Sole`; without the second, moving one block could clear the slot of another), and of every byte written since, a descriptor tells (`Noted`). The walk along a whole chain has read its first k blocks, and what they say is in the map (`MapHolds`). A byte is then served from the block's copy, or nothing was written to it, or its block has an overlay and is counted; that a read stays within its block is a fact about quotients (`DivisionBack`) |
| `MCVerdictProofs!ChainCorrect` | `ChainsAreFound` | `ChainInv`: what is climbed is a chain (`Linked`), every frame holds only what may follow (`Framed`), and every chain there is that has not been found is still ahead (`Ahead`): it follows the path climbed for some way and the certificate that leads on from there is in a frame. A frame that is left had no chain through it; a walk that comes back with nothing has no frame, so no chain is ahead and there was none. Any certificates, roots, depth and work; `ChainAssumption`: a file has its signer's certificate |
| `MCVerdictProofs!JournalCorrect` | `JournalIsReadInOrder` | The rows read are a stretch of the standing ones without a gap, and all of them if nothing cut the reading short. `JournalInv`: rows lie one behind the other and none is longer than the overlap and one (`Written`); the rows read are the first of those standing, without a gap (`ReadSoFar`), and every row not read yet ends behind what was read and so, being no longer than the overlap, does not begin before what is carried over. The next window therefore carves exactly those that follow on, again without a gap (`StandingIs`, `WindowShows`). Any volume, window, overlap and budgets; `JournalAssumption`: the lengths of rows, and records that are one of the volume's |
| `MCVerdictProofs!OrderCorrect`, `NamesCorrect`, `SignaturesCorrect` | `ScoreIsTheSameInAnyOrder`, `NamesAreJudgedByOtherFiles`, `SignatureVerdictsAreOrdered` | `ScoreInv`: each group offered so far is represented, and by one of the strongest of all rows offered in it (`Best`; a list of offers keeps it, `OfferAllKeepsBest`, by the least offer that would not). `compact_os` is one of the statements on compression that were made, and the theorem holds of the one that was heard. What `Conclude` leaves is then as strong in every group as the definition's choice, and by `TableAssumption` worth the same. The group of a name's frequency has no rows but those of the census (`NamesAreOfTheCensus`), which counts the file itself. A verdict on the signature adds rows of one group only (`OwnIs`, `Weaker`), and a sum in which no term is smaller is not smaller (`TotalIsMonotonic`, by the least number of terms). Any zones, names, statements and censuses, and any table of integers under `TableAssumption` and `SignatureAssumption` |

Where a run puts modules side by side, the theorem of the general module is
carried over: a step of the run is a step of that module's `Next` or leaves its
variables alone (`DirectoryIsAny`, `StagesAreAny`, `ChainIsAny` and their kin), so the run's specification
implies the module's, with the run's values for its constants. `AnyDirectory`,
`AnyPipe`, `AnyChain` and their kin are instances of the proof modules; that they and the run's own
instance say the same is a step of the proof, not an assumption.

Only model-checked, and why.

- `DeepScan`'s `Termination` is liveness under fairness: nothing for this prover.
- `UsnJournal`'s `DatesAreTrue`: the path of a
  directory is a recursion over the directories above it, in an order no number
  gives.

Of the modules a run puts side by side TLC checks the type invariant of the one it
extends, and of `AcquireChain`.

## 5. What is not modelled, and the plan

What is modelled is the code in which something is decided over several steps.
By lines it stays a small part of a repository of 88 000: most of the rest is
parsers of one artifact each (`mm-harvest`, `mm-registry` and the decoders of
`mm-raw`) that keep no state between two calls, the text of the report
(`mm-report/src/text.rs`), tests and the images they build, and
floating-point statistics. A model of those would repeat their formats
field by field and have no property a unit test does not reach.

Left out of modules that are otherwise whole: the list of losses that a walk prints is cut
after 32 (`filesystem.rs:506`; `MftWalk` keeps all of it), a directory gives at most 100 000 recovered
entries (`volume.rs:933`; `IndexSlack` has no such cap), several segments of `$J` (`UsnJournal` has
one), and observations without a path (`Pipeline`).

In the order of what the code stands to lose, left for later:

1. Clusters (`ClusterMap::allocation`) as functions against a reference
   definition, giving the `Allocation` records of `AcquireChain`; the digest
   algebra of `hash.rs`, of which `AcquireChain` and `Pipeline` take outcomes.
2. The incident window, the selection of files whose signature is verified,
   placement of the case directory, pseudonyms of the redaction.
3. The catalog of shadow copies and the choice among several stores, each of
   which is opened with its own live fallback.
4. The proof of `DatesAreTrue`.

Without state to model or out of TLC's reach: DER, cryptography and hive parsing
(data formats, third-party crates), decompression, floating-point weights, Win32
calls, argument parsing and report layout, the Python wrappers. Out of the prover's
reach: liveness under fairness, which stays with TLC. The library's induction
theorems are out of reach too; where a proof needs one (`Those` of `Pipeline`
selects along a sequence), it takes the least number at which the statement
fails (`LeastFailure`), a fact about the naturals the library proves.
