----------------------------- MODULE Collector -----------------------------
(***************************************************************************)
(* collector/collect.py: one invocation finds the profiles, matches the    *)
(* catalogue's patterns against each, decides every matched path once and  *)
(* writes a bundle: files/, manifest.json, chain_of_custody.jsonl and,     *)
(* when asked, a zip.  Each system call on a collected file is a step of   *)
(* its own, interleaved with the agents that write to the endpoint.        *)
(*                                                                         *)
(* The SHA-256 of a content is the content itself.  The place of a path in *)
(* the bundle (bundle_path_for) is the path itself.  permission_denied and *)
(* unreadable, which the code treats alike, are both "unreadable".         *)
(***************************************************************************)
EXTENDS Naturals, Sequences, FiniteSets

(* ---------------------------------------------------- the environment -- *)
(* The live filesystem.  The agents on the endpoint go on writing while a  *)
(* collection runs, so a path can be appended to, rewritten in place,      *)
(* replaced by another file or deleted between any two system calls of the *)
(* collector.  The repository has no code for it: the collector's lstat,   *)
(* open, read and stat calls are its interface.                            *)
(*                                                                         *)
(* A path names an inode, and a descriptor that is already open keeps      *)
(* reading the inode it was opened on whatever the path names by then.     *)
(* Each write has a stamp of its own: the pair (st_mtime, st_size) that    *)
(* collect_file compares is abstracted to the stamp of the last write.     *)

CONSTANTS
    Files,       \* the paths on the endpoint
    Inodes,      \* the inodes the endpoint can allocate
    None,        \* no inode, no file, no hash
    InitBlocks,  \* how many blocks a file has before the collection
    MaxWrites    \* bound on the writes that happen while collections run

ASSUME EndpointAssumption ==
    /\ None \notin Inodes
    /\ None \notin Seq(Nat)
    /\ InitBlocks \in Nat
    /\ MaxWrites \in Nat

VARIABLES
    inode,      \* which inode each path names, or None
    allocated,  \* the inodes that were ever used
    data,       \* the blocks of each inode, each one the stamp of its write
    mtime,      \* the stamp of the last write to each inode
    clock       \* the last stamp given out

endpointVars == <<inode, allocated, data, mtime, clock>>

Present(f) == inode[f] # None

(* What a reader of the path would see now. *)
Content(f) == data[inode[f]]

InitialContent == [b \in 1..InitBlocks |-> 0]

EndpointInit ==
    /\ inode \in [Files -> Inodes \cup {None}]
    /\ \A f, g \in Files : f # g /\ Present(f) => inode[f] # inode[g]
    /\ allocated = {inode[f] : f \in Files} \ {None}
    /\ data = [i \in Inodes |-> InitialContent]
    /\ mtime = [i \in Inodes |-> 0]
    /\ clock = 0

(* A write to inode i that leaves it holding blocks. *)
WriteInode(i, blocks) ==
    /\ clock < MaxWrites
    /\ clock' = clock + 1
    /\ data' = [data EXCEPT ![i] = blocks]
    /\ mtime' = [mtime EXCEPT ![i] = clock + 1]

(* A transcript grows by one record. *)
AppendBlock(f) ==
    /\ Present(f)
    /\ WriteInode(inode[f], Append(Content(f), clock + 1))
    /\ UNCHANGED <<inode, allocated>>

(* A page of a store is overwritten where it is. *)
RewriteBlock(f) ==
    /\ Present(f)
    /\ \E b \in 1..Len(Content(f)) :
          WriteInode(inode[f], [Content(f) EXCEPT ![b] = clock + 1])
    /\ UNCHANGED <<inode, allocated>>

(* A settings file is written again from the start. *)
Truncate(f) ==
    /\ Present(f)
    /\ WriteInode(inode[f], <<>>)
    /\ UNCHANGED <<inode, allocated>>

(* A new file takes the path: it is created there, or renamed over it. *)
Replace(f) ==
    \E i \in Inodes \ allocated :
        /\ WriteInode(i, <<clock + 1>>)
        /\ inode' = [inode EXCEPT ![f] = i]
        /\ allocated' = allocated \cup {i}

Delete(f) ==
    /\ Present(f)
    /\ clock < MaxWrites
    /\ clock' = clock + 1
    /\ inode' = [inode EXCEPT ![f] = None]
    /\ UNCHANGED <<allocated, data, mtime>>

AgentWrites(f) ==
    \/ AppendBlock(f)
    \/ RewriteBlock(f)
    \/ Truncate(f)
    \/ Replace(f)
    \/ Delete(f)

EndpointTypeOK ==
    /\ inode \in [Files -> Inodes \cup {None}]
    /\ allocated \in SUBSET Inodes
    /\ data \in [Inodes -> Seq(Nat)]
    /\ mtime \in [Inodes -> Nat]
    /\ clock \in Nat

(* ------------------------------------------------------ the collector -- *)

CONSTANTS
    Artifacts,    \* the catalogue entries that apply to the target platform
    ClaimOrder,   \* position of an entry's claim in claim_order, best first
    Secret,       \* the entries with sensitivity: secret
    Claims,       \* Claims[u][f]: the entries user u's patterns match f with
    MaxUsers,     \* bound on the profiles of the endpoint
    Options,      \* the command lines considered
    RegistryKeys, \* the keys of the entries marked read_registry
    Outside,      \* symbolic links that leave the profile
    Irregular,    \* paths that are no regular file
    MaxFileSize,  \* --max-file-size, in blocks
    MaxFaults,    \* bound on the system calls that fail for no visible reason
    MaxRuns       \* bound on the invocations with the same --out

ASSUME CollectorAssumption ==
    /\ ClaimOrder \in [Artifacts -> Nat]
    /\ \A S \in SUBSET Artifacts : S # {} =>
          \E a \in S : \A b \in S : ClaimOrder[a] <= ClaimOrder[b]
    /\ Secret \subseteq Artifacts
    /\ MaxUsers \in Nat
    /\ Claims \in [1..MaxUsers -> [Files -> SUBSET Artifacts]]
    /\ Options \subseteq [dryRun : BOOLEAN, includeSecrets : BOOLEAN,
                           zip : BOOLEAN, windows : BOOLEAN, live : BOOLEAN]
    /\ MaxFileSize \in Nat /\ MaxFaults \in Nat /\ MaxRuns \in Nat
    /\ None \notin Artifacts

VARIABLES
    \* one invocation
    pc,        \* the system call it is about to make
    args,      \* the options given
    found,     \* how many profiles discover_users returned
    user,      \* the profile being walked
    matches,   \* the claims on each path of this profile
    seen,      \* seen_paths: the paths that were decided
    cur,       \* the path being collected
    st,        \* its stamp when it was examined
    fd,        \* the inode the open descriptor reads
    digest,    \* what was hashed so far
    changed,   \* changed_while_reading
    entries,   \* the manifest's files
    registry,  \* the manifest's registry entries
    errors,    \* the manifest's errors
    refused,   \* whether refused_patterns holds anything
    exit,      \* the exit code
    \* the --out directory
    outUsed,   \* files/ was created in it
    stored,    \* the bytes under files/, None where there is no file
    regStored, \* the registry documents under files/registry
    manifest,  \* manifest.json: "none", "torn" while it is written, "whole"
    listed,    \* what the manifest lists
    custody,   \* chain_of_custody.jsonl, with the states of manifest
    zip,       \* the archive beside it, with the same states
    \* history, for the properties
    run,       \* how many invocations there were
    writers,   \* the invocations that wrote into --out
    faults,    \* how many system calls failed
    restatted, \* the paths whose second stat succeeded in this run
    touched,   \* the paths written since they were examined
    held       \* the contents each path ever had

bundleVars == <<outUsed, stored, regStored, manifest, listed, custody, zip>>
fileVars == <<cur, st, fd, digest, changed>>
recordVars == <<entries, registry, errors, refused>>
walkVars == <<user, matches, seen>>
inputVars == <<args, found>>
runVars == <<run, writers, exit>>
historyVars == <<restatted, touched, held>>

collectorVars ==
    <<pc, inputVars, walkVars, fileVars, recordVars, bundleVars, runVars,
      faults, restatted>>

vars == <<endpointVars, collectorVars, touched, held>>

(* ---------------------------------------------------------------- values *)

Reasons == {"unreadable", "skipped_symlink", "not_a_file", "too_large",
            "dry_run", "secret_policy"}

Entry == [user : 1..MaxUsers, artifact : Artifacts,
          claimants : SUBSET Artifacts, sha : Seq(Nat) \cup {None},
          collected : BOOLEAN, reason : Reasons \cup {None},
          changed : BOOLEAN]

ASSUME NoneIsNoEntry == None \notin Entry
ASSUME NoneIsNoReason == None \notin Reasons
ASSUME NoneIsNoExitCode == None \notin {0, 1, 2, 3}

Errors == [path : Files, error : {"unreadable"}]
          \cup [error : {"no_profiles_found", "too_many_files",
                         "unparsable_agent_state"}]

WriteStates == {"none", "torn", "whole"}

(* The most specific claim, under which the manifest reports the file. *)
Primary(claimants) ==
    CHOOSE a \in claimants : \A b \in claimants : ClaimOrder[a] <= ClaimOrder[b]

(* Slip: only the entry the file is listed under is asked. *)
WithheldByPrimary(claimants) ==
    Primary(claimants) \in Secret /\ ~args.includeSecrets

(* Any claim is enough: secret wins over the entry a file is listed under. *)
Withheld(claimants) == claimants \cap Secret # {} /\ ~args.includeSecrets

Matched == {f \in Files : matches[f] # {}}

(* Slip: seen_paths holds only what was collected. *)
UndecidedUncollected ==
    {f \in Matched : f \in seen => ~entries[f].collected}

(* The paths of this profile that are still to be decided. *)
Undecided == Matched \ seen

(* Slip: the profiles are counted from one too many. *)
EntryOfNextUser(f, sha, chg, reason) ==
    [user |-> user + 1, artifact |-> Primary(matches[f]),
     claimants |-> matches[f], sha |-> sha,
     collected |-> reason = None, reason |-> reason, changed |-> chg]

(* Slip: a path that is withheld counts as collected. *)
EntryOfWithheld(f, sha, chg, reason) ==
    [user |-> user, artifact |-> Primary(matches[f]),
     claimants |-> matches[f], sha |-> sha,
     collected |-> reason \in {None, "secret_policy"},
     reason |-> reason, changed |-> chg]

(* The entry of a path, with what was learnt of it. *)
EntryOf(f, sha, chg, reason) ==
    [user |-> user, artifact |-> Primary(matches[f]),
     claimants |-> matches[f], sha |-> sha,
     collected |-> reason = None, reason |-> reason, changed |-> chg]

(* Slip: a failure is an error of the run and has no entry. *)
RecordUnlessFailed(f, sha, chg, reason) ==
    /\ entries' = IF reason = "unreadable" THEN entries
                  ELSE [entries EXCEPT ![f] = EntryOf(f, sha, chg, reason)]
    /\ errors' = IF reason = "unreadable"
                 THEN errors \cup {[path |-> f, error |-> "unreadable"]}
                 ELSE errors
    /\ UNCHANGED <<registry, refused>>

(* Every way out of collect_file adds an entry, and run() repeats a reason *)
(* that is a failure among the errors.                                     *)
Record(f, sha, chg, reason) ==
    /\ entries' = [entries EXCEPT ![f] = EntryOf(f, sha, chg, reason)]
    /\ errors' = IF reason = "unreadable"
                 THEN errors \cup {[path |-> f, error |-> "unreadable"]}
                 ELSE errors
    /\ UNCHANGED <<registry, refused>>

(* A system call fails: on an absent path always, on any other one for a   *)
(* reason the model does not show (permissions, a full disk, a bad block). *)
Fault == faults < MaxFaults /\ faults' = faults + 1
FailsOn(f) == \/ ~Present(f) /\ UNCHANGED faults
              \/ Present(f) /\ Fault

(* Slip: the last, short read of a file is dropped. *)
AtEndEarly(blocks) == Len(blocks) + 1 >= Len(data[fd])

(* A read of the open descriptor returns nothing. *)
AtEnd(blocks) == Len(blocks) >= Len(data[fd])

(* Slip: the second stat is never compared with the first. *)
StatNeverDiffers == FALSE

(* The path was written since it was examined, as far as its stamp says. *)
StatDiffers == mtime[inode[cur]] # st

(* ------------------------------------------------------------ invocation *)

NoEntries == [f \in Files |-> None]
NoRegistry == [k \in RegistryKeys |-> "unread"]
NoMatches == [f \in Files |-> {}]

Init ==
    /\ EndpointInit
    /\ pc = "idle" /\ args \in Options /\ found \in 0..MaxUsers
    /\ user = 1 /\ matches = NoMatches /\ seen = {}
    /\ cur = None /\ st = 0 /\ fd = None /\ digest = <<>> /\ changed = FALSE
    /\ entries = NoEntries /\ registry = NoRegistry
    /\ errors = {} /\ refused = FALSE /\ exit = None
    /\ outUsed = FALSE /\ stored = NoEntries /\ regStored = {}
    /\ manifest = "none" /\ custody = "none" /\ zip = "none"
    /\ listed = [files |-> NoEntries, registry |-> NoRegistry]
    /\ run = 0 /\ writers = {} /\ faults = 0
    /\ restatted = {} /\ touched = {}
    /\ held = [f \in Files |-> IF Present(f) THEN {Content(f)} ELSE {}]

(* Slips: main() never looks into --out, or only for a manifest. *)
OutIsFreeAlways == TRUE
OutIsFreeUnlessWhole == args.dryRun \/ manifest # "whole"

(* A dry run needs no --out, any other one needs an empty one. *)
OutIsFree == args.dryRun \/ ~outUsed

(* main() refuses an --out that is not empty: exit code 2. *)
RefuseOut ==
    /\ pc = "idle" /\ run < MaxRuns
    /\ ~OutIsFree
    /\ run' = run + 1
    /\ exit' = 2
    /\ UNCHANGED <<endpointVars, pc, inputVars, walkVars, fileVars,
                   recordVars, bundleVars, writers, faults, historyVars>>

(* main() calls run(), which creates files/ and looks for profiles. *)
Invoke ==
    /\ pc = "idle" /\ run < MaxRuns
    /\ OutIsFree
    /\ pc' = "users"
    /\ run' = run + 1
    /\ writers' = IF args.dryRun THEN writers ELSE writers \cup {run + 1}
    /\ outUsed' = (outUsed \/ ~args.dryRun)
    /\ user' = 1 /\ matches' = NoMatches /\ seen' = {}
    /\ entries' = NoEntries /\ registry' = NoRegistry /\ refused' = FALSE
    /\ errors' = IF found = 0 THEN {[error |-> "no_profiles_found"]} ELSE {}
    /\ exit' = None /\ restatted' = {}
    /\ UNCHANGED <<endpointVars, inputVars, fileVars, stored, regStored,
                   manifest, listed, custody, zip, faults, touched, held>>

(* A profile whose home is not a directory is noted in the manifest's      *)
(* users and walked no further.                                            *)
SkipUser ==
    /\ pc = "users" /\ user <= found
    /\ Fault
    /\ user' = user + 1
    /\ UNCHANGED <<endpointVars, pc, inputVars, matches, seen, fileVars,
                   recordVars, bundleVars, runVars, historyVars>>

(* The first pass over a profile: every claim on every path is gathered    *)
(* before any path is decided.  The patterns of some entries may not be    *)
(* searched to the end: each such hole is an error (a capped walk, an      *)
(* unreadable list of working copies) or a refused pattern.                *)
MatchUser ==
    /\ pc = "users" /\ user <= found
    /\ \E hidden \in SUBSET Artifacts :
          /\ matches' = [f \in Files |->
                            IF Present(f) THEN Claims[user][f] \ hidden ELSE {}]
          /\ \/ hidden = {} /\ UNCHANGED <<errors, refused, faults>>
             \/ /\ hidden # {} /\ Fault
                /\ \/ /\ \E e \in {"too_many_files", "unparsable_agent_state"} :
                            errors' = errors \cup {[error |-> e]}
                      /\ UNCHANGED refused
                   \/ refused' = TRUE /\ UNCHANGED errors
    /\ pc' = "files"
    /\ UNCHANGED <<endpointVars, inputVars, user, seen, fileVars, entries,
                   registry, bundleVars, runVars, historyVars>>

NextUser ==
    /\ pc = "files" /\ Matched \subseteq seen
    /\ pc' = "users" /\ user' = user + 1
    /\ UNCHANGED <<endpointVars, inputVars, matches, seen, fileVars,
                   recordVars, bundleVars, runVars, faults, historyVars>>

(* -------------------------------------------------------------- one file *)

(* lstat, and the ways collect_file ends without opening the path. *)
Examine(f) ==
    /\ pc = "files" /\ f \in Undecided
    /\ seen' = seen \cup {f}
    /\ touched' = touched \ {f}
    /\ \/ /\ FailsOn(f)
          /\ Record(f, None, FALSE, "unreadable")
          /\ UNCHANGED <<pc, cur, st>>
       \/ /\ Present(f)
          /\ \E reason \in Reasons :
                /\ IF f \in Outside THEN reason = "skipped_symlink"
                   ELSE IF f \in Irregular THEN reason = "not_a_file"
                   ELSE IF Len(Content(f)) > MaxFileSize
                        THEN reason = "too_large"
                   ELSE args.dryRun /\ reason = "dry_run"
                /\ Record(f, None, FALSE, reason)
          /\ UNCHANGED <<pc, cur, st, faults>>
       \/ /\ Present(f) /\ f \notin Outside \cup Irregular
          /\ Len(Content(f)) <= MaxFileSize /\ ~args.dryRun
          /\ cur' = f /\ st' = mtime[inode[f]] /\ pc' = "open"
          /\ UNCHANGED <<recordVars, faults>>
    /\ UNCHANGED <<endpointVars, inputVars, user, matches, fd, digest, changed,
                   bundleVars, runVars, restatted, held>>

(* What every later step of the file leaves alone. *)
FileFrame ==
    UNCHANGED <<endpointVars, inputVars, walkVars, cur, st, outUsed, regStored,
                manifest, listed, custody, zip, runVars, touched, held>>

(* A failed call ends the file: nothing under files/ is taken back. *)
GiveUp(sha) ==
    /\ Record(cur, sha, changed, "unreadable")
    /\ pc' = "files"
    /\ fd' = None /\ digest' = <<>> /\ changed' = FALSE
    /\ UNCHANGED <<stored, restatted>>
    /\ FileFrame

(* sha256_file opens the path ... *)
OpenToHash ==
    /\ pc = "open" /\ Present(cur)
    /\ fd' = inode[cur] /\ pc' = "hash"
    /\ UNCHANGED <<digest, changed, recordVars, stored, faults, restatted>>
    /\ FileFrame
OpenToHashFails == pc = "open" /\ FailsOn(cur) /\ GiveUp(None)

(* ... and reads a block at a time until a read returns nothing. *)
HashBlock ==
    /\ pc = "hash" /\ ~AtEnd(digest)
    /\ digest' = Append(digest, data[fd][Len(digest) + 1])
    /\ UNCHANGED <<pc, fd, changed, recordVars, stored, faults, restatted>>
    /\ FileFrame
HashEnd ==
    /\ pc = "hash" /\ AtEnd(digest)
    /\ pc' = "restat" /\ fd' = None
    /\ UNCHANGED <<digest, changed, recordVars, stored, faults, restatted>>
    /\ FileFrame
HashFails == pc = "hash" /\ Fault /\ GiveUp(None)

(* The second stat; one that fails says nothing.  A path that a secret     *)
(* entry claims is described and not copied.                               *)
Restat ==
    /\ pc = "restat"
    /\ \E chg \in BOOLEAN :
          /\ \/ /\ Present(cur) /\ UNCHANGED faults
                /\ chg = StatDiffers
                /\ restatted' = restatted \cup {cur}
             \/ FailsOn(cur) /\ ~chg /\ UNCHANGED restatted
          /\ IF Withheld(matches[cur])
             THEN /\ Record(cur, digest, chg, "secret_policy")
                  /\ pc' = "files" /\ digest' = <<>> /\ changed' = FALSE
             ELSE /\ pc' = "copy_open" /\ changed' = chg
                  /\ UNCHANGED <<digest, recordVars>>
    /\ UNCHANGED <<fd, stored>>
    /\ FileFrame

(* The copy opens the path a second time, and the destination. *)
OpenToCopy ==
    /\ pc = "copy_open" /\ Present(cur)
    /\ fd' = inode[cur] /\ pc' = "copy"
    /\ stored' = [stored EXCEPT ![cur] = <<>>]
    /\ UNCHANGED <<digest, changed, recordVars, faults, restatted>>
    /\ FileFrame
OpenToCopyFails == pc = "copy_open" /\ FailsOn(cur) /\ GiveUp(digest)

CopyBlock ==
    /\ pc = "copy" /\ ~AtEnd(stored[cur])
    /\ stored' = [stored EXCEPT ![cur] = Append(@, data[fd][Len(@) + 1])]
    /\ UNCHANGED <<pc, fd, digest, changed, recordVars, faults, restatted>>
    /\ FileFrame
CopyEnd ==
    /\ pc = "copy" /\ AtEnd(stored[cur])
    /\ pc' = "utime" /\ fd' = None
    /\ UNCHANGED <<digest, changed, recordVars, stored, faults, restatted>>
    /\ FileFrame

(* A read or a write of the copy fails, or os.utime does. *)
CopyFails == pc \in {"copy", "utime"} /\ Fault /\ GiveUp(digest)

FinishCopy ==
    /\ pc = "utime"
    /\ Record(cur, digest, changed, None)
    /\ pc' = "files" /\ digest' = <<>> /\ changed' = FALSE
    /\ UNCHANGED <<fd, stored, faults, restatted>>
    /\ FileFrame

(* ------------------------------------------------- the end of a run ----- *)

(* After the profiles, the registry pass on a Windows target. *)
UsersDone ==
    /\ pc = "users" /\ user > found
    /\ pc' = IF args.windows THEN "registry" ELSE "assemble"
    /\ UNCHANGED <<endpointVars, inputVars, walkVars, fileVars, recordVars,
                   bundleVars, runVars, faults, historyVars>>

(* Every key gets an entry; the document of one that is there is written   *)
(* at once.  --root has no live registry, and a dry run writes nothing.    *)
ReadKey(k) ==
    /\ pc = "registry" /\ registry[k] = "unread"
    /\ \E there \in BOOLEAN :
          /\ there => args.live
          /\ registry' = [registry EXCEPT ![k] =
                             IF there THEN "collected" ELSE "absent"]
          /\ regStored' = IF there /\ ~args.dryRun
                          THEN regStored \cup {k} ELSE regStored
    /\ UNCHANGED <<endpointVars, pc, inputVars, walkVars, fileVars, entries,
                   errors, refused, outUsed, stored, manifest, listed, custody,
                   zip, runVars, faults, historyVars>>

RegistryDone ==
    /\ pc = "registry" /\ \A k \in RegistryKeys : registry[k] # "unread"
    /\ pc' = "assemble"
    /\ UNCHANGED <<endpointVars, inputVars, walkVars, fileVars, recordVars,
                   bundleVars, runVars, faults, historyVars>>

(* What the last steps of a run leave alone. *)
WriteFrame ==
    UNCHANGED <<endpointVars, inputVars, walkVars, fileVars, recordVars,
                outUsed, stored, regStored, run, writers, faults, historyVars>>

(* The manifest is assembled in memory; a dry run writes nothing. *)
Assemble ==
    /\ pc = "assemble"
    /\ pc' = IF args.dryRun THEN "exit" ELSE "manifest"
    /\ UNCHANGED <<manifest, listed, custody, zip, exit>>
    /\ WriteFrame

(* Opening a file to write truncates it, so a crash leaves it torn. *)
WriteManifest ==
    /\ pc = "manifest"
    /\ \/ /\ manifest # "torn" /\ manifest' = "torn"
          /\ UNCHANGED <<pc, listed>>
       \/ /\ manifest = "torn" /\ manifest' = "whole"
          /\ listed' = [files |-> entries, registry |-> registry]
          /\ pc' = "custody"
    /\ UNCHANGED <<custody, zip, exit>>
    /\ WriteFrame

WriteCustody ==
    /\ pc = "custody"
    /\ \/ custody # "torn" /\ custody' = "torn" /\ UNCHANGED pc
       \/ /\ custody = "torn" /\ custody' = "whole"
          /\ pc' = IF args.zip THEN "zip" ELSE "exit"
    /\ UNCHANGED <<manifest, listed, zip, exit>>
    /\ WriteFrame

WriteZip ==
    /\ pc = "zip"
    /\ \/ zip # "torn" /\ zip' = "torn" /\ UNCHANGED pc
       \/ zip = "torn" /\ zip' = "whole" /\ pc' = "exit"
    /\ UNCHANGED <<manifest, listed, custody, exit>>
    /\ WriteFrame

NothingHit == /\ \A f \in Files : entries[f] = None
              /\ \A k \in RegistryKeys : registry[k] = "unread"

(* Nothing hit is asked before whether there were errors. *)
Exit ==
    /\ pc = "exit" /\ pc' = "idle"
    /\ exit' = IF NothingHit THEN 3 ELSE IF errors # {} THEN 1 ELSE 0
    /\ UNCHANGED <<manifest, listed, custody, zip>>
    /\ WriteFrame

(* The process is killed, or an exception that nothing catches ends it.    *)
Crash ==
    /\ pc # "idle" /\ run < MaxRuns
    /\ pc' = "idle"
    /\ fd' = None /\ digest' = <<>> /\ changed' = FALSE
    /\ UNCHANGED <<endpointVars, inputVars, walkVars, cur, st, recordVars,
                   bundleVars, runVars, faults, historyVars>>

(* An agent writes to a path; the collector does not see it happen. *)
AgentStep(f) ==
    /\ AgentWrites(f)
    /\ touched' = touched \cup {f}
    /\ held' = [held EXCEPT ![f] =
                   IF inode'[f] = None THEN @ ELSE @ \cup {data'[inode'[f]]}]
    /\ UNCHANGED collectorVars

FileStep ==
    \/ OpenToHash \/ OpenToHashFails \/ HashBlock \/ HashEnd \/ HashFails
    \/ Restat
    \/ OpenToCopy \/ OpenToCopyFails \/ CopyBlock \/ CopyEnd \/ CopyFails
    \/ FinishCopy

RunStep ==
    \/ SkipUser \/ MatchUser \/ NextUser
    \/ \E f \in Files : Examine(f)
    \/ FileStep
    \/ UsersDone \/ RegistryDone \/ \E k \in RegistryKeys : ReadKey(k)
    \/ Assemble \/ WriteManifest \/ WriteCustody \/ WriteZip \/ Exit

Next ==
    \/ RefuseOut \/ Invoke
    \/ RunStep
    \/ Crash
    \/ \E f \in Files : AgentStep(f)

Spec == Init /\ [][Next]_vars

(* ---------------------------------------------------------- verification *)

(* What verify_bundle derives from the bytes of --out. *)
Expected == {f \in Files : listed.files[f] # None /\ listed.files[f].collected}
ExpectedKeys == {k \in RegistryKeys : listed.registry[k] = "collected"}
Missing == {f \in Expected : stored[f] = None}
MissingKeys == ExpectedKeys \ regStored
Mismatched == {f \in Expected \ Missing : stored[f] # listed.files[f].sha}
Unexpected == {f \in Files \ Expected : stored[f] # None}
UnexpectedKeys == regStored \ ExpectedKeys

Verifies ==
    /\ manifest = "whole" /\ custody = "whole"
    /\ Missing = {} /\ Mismatched = {} /\ Unexpected = {}
    /\ MissingKeys = {} /\ UnexpectedKeys = {}

(* ------------------------------------------------------------ properties *)

WalkTypeOK ==
    /\ pc \in {"idle", "users", "files", "open", "hash", "restat", "copy_open",
               "copy", "utime", "registry", "assemble", "manifest", "custody",
               "zip", "exit"}
    /\ args \in Options /\ found \in 0..MaxUsers
    /\ user \in Nat \ {0} /\ user <= found + 1
    /\ matches \in [Files -> SUBSET Artifacts]
    /\ seen \in SUBSET Files
    /\ cur \in Files \cup {None} /\ st \in Nat
    /\ fd \in Inodes \cup {None}
    /\ digest \in Seq(Nat) /\ changed \in BOOLEAN

Manifests == [files : [Files -> Entry \cup {None}],
              registry : [RegistryKeys -> {"unread", "collected", "absent"}]]

RecordTypeOK ==
    /\ entries \in [Files -> Entry \cup {None}]
    /\ registry \in [RegistryKeys -> {"unread", "collected", "absent"}]
    /\ errors \in SUBSET Errors /\ refused \in BOOLEAN
    /\ exit \in {0, 1, 2, 3, None}

BundleTypeOK ==
    /\ outUsed \in BOOLEAN
    /\ stored \in [Files -> Seq(Nat) \cup {None}]
    /\ regStored \in SUBSET RegistryKeys
    /\ manifest \in WriteStates /\ custody \in WriteStates /\ zip \in WriteStates
    /\ listed \in Manifests

HistoryTypeOK ==
    /\ run \in Nat /\ writers \in SUBSET Nat /\ faults \in Nat
    /\ restatted \in SUBSET Files /\ touched \in SUBSET Files
    /\ held \in [Files -> SUBSET Seq(Nat)]

(* Every variable has its type. *)
TypeOK ==
    /\ EndpointTypeOK
    /\ WalkTypeOK
    /\ RecordTypeOK
    /\ BundleTypeOK
    /\ HistoryTypeOK

(* A hash whose entry is not flagged changed_while_reading, and whose      *)
(* second stat succeeded, is the hash of a content the path really had at  *)
(* one moment: a read torn by a writer is always flagged.  It is the       *)
(* comparison of the two stats in collect_file that is at stake.           *)
UnflaggedHashWasHeld ==
    \A f \in Files :
        /\ entries[f] # None
        /\ entries[f].sha # None
        /\ ~entries[f].changed
        /\ f \in restatted
        => entries[f].sha \in held[f]

(* A path nobody wrote to since it was examined is described exactly: it   *)
(* is not flagged, its hash is that of its bytes, and the bytes in the     *)
(* bundle are the bytes that were hashed.                                  *)
QuietFileIsExact ==
    \A f \in Files \ touched :
        entries[f] # None =>
            /\ ~entries[f].changed
            /\ entries[f].sha # None => entries[f].sha = Content(f)
            /\ entries[f].collected => stored[f] = entries[f].sha

(* A collection of a quiet endpoint in which no copy failed leaves a       *)
(* bundle that verify_bundle finds intact.                                 *)
QuietBundleVerifies ==
    /\ exit \in {0, 1, 3} /\ ~args.dryRun
    /\ \A f \in seen : /\ f \notin touched
                       /\ entries[f].reason = "unreadable" => stored[f] = None
    => Verifies

(* However a run was cut short, a bundle that verifies is a whole one: its *)
(* manifest has an entry for every path that was matched, and the run that *)
(* wrote it is past its last write to files/.                              *)
VerifiedBundleIsWhole ==
    Verifies =>
        /\ pc \in {"zip", "exit", "idle", "custody"}
        /\ listed.files = entries /\ listed.registry = registry
        /\ \A f \in seen \cup Matched : listed.files[f] # None

(* Two collections never mix in one directory, whether the first one ended *)
(* or was cut short: the reason main() gives for refusing one in use.      *)
OneRunPerBundle == Cardinality(writers) <= 1

(* One path, one manifest entry: a path that was decided is not decided    *)
(* again within a run, by another claim or for another profile.            *)
DecidedOnce ==
    [][\A f \in Files :
          entries[f] # None /\ run' = run => entries'[f] = entries[f]]_vars

(* Between two files every path already taken up has an entry, and every   *)
(* entry that reports a failure has its error: no early return of          *)
(* collect_file loses a path.                                              *)
NothingDropped ==
    pc \in {"users", "files", "registry", "assemble", "manifest", "exit"} =>
        /\ \A f \in seen : entries[f] # None
        /\ \A f \in seen :
              entries[f].reason = "unreadable" =>
                  [path |-> f, error |-> "unreadable"] \in errors

(* Without --include-secrets the bytes of a path that any entry of its     *)
(* profile marks secret claims never reach files/, whichever entry it is   *)
(* reported under and however the run ends.                                *)
SecretsStayOut ==
    ~args.includeSecrets =>
        \A f \in Files : stored[f] # None =>
            IF entries[f] # None
            THEN entries[f].claimants \cap Secret = {}
            ELSE matches[f] \cap Secret = {}
=============================================================================
