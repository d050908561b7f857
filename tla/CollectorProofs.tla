-------------------------- MODULE CollectorProofs --------------------------
(***************************************************************************)
(* What holds of Collector for every number of paths, profiles, entries,   *)
(* writes, failures and invocations.                                       *)
(***************************************************************************)
EXTENDS Collector, FiniteSetTheorems, SequenceTheorems, TLAPS

FilePhases == {"open", "hash", "restat", "copy_open", "copy", "utime"}

(* What is known of the path being collected, by where collect_file is. *)
PhaseInv ==
    /\ pc \in FilePhases \cup {"files"} => user <= found
    /\ pc \in FilePhases => /\ cur \in Files
                           /\ matches[cur] # {}
                           /\ cur \in seen
                           /\ entries[cur] = None
                           /\ st <= clock
    /\ pc \in {"hash", "copy"} => fd \in Inodes
    /\ pc \in {"copy", "utime"} => stored[cur] # None
    /\ \A f \in Files : entries[f] # None => f \in seen

(* The endpoint: no two paths share an inode, the stamps are not ahead of  *)
(* the clock, and what a path holds now is among what it ever held.        *)
EndpointInv ==
    /\ \A f, g \in Files : f # g /\ Present(f) => inode[f] # inode[g]
    /\ \A f \in Files : Present(f) => inode[f] \in allocated
    /\ \A i \in Inodes : mtime[i] <= clock
    /\ \A f \in Files : Present(f) => Content(f) \in held[f]

(* As long as the path's stamp is the one of its first stat, the digest is *)
(* of the content the path holds.  This is why comparing the two stats     *)
(* finds every torn read.                                                  *)
Unmoved == Present(cur) /\ mtime[inode[cur]] = st

HashInv ==
    /\ pc = "hash" /\ Unmoved =>
          /\ fd = inode[cur]
          /\ Len(digest) <= Len(data[fd])
          /\ \A k \in 1..Len(digest) : digest[k] = data[fd][k]
    /\ pc = "restat" /\ Unmoved => digest = Content(cur)
    /\ pc \in {"copy_open", "copy", "utime"} /\ ~changed /\ cur \in restatted =>
          digest \in held[cur]
    /\ pc \notin {"hash", "restat", "copy_open", "copy", "utime"} =>
          digest = <<>>
    /\ pc \in {"open", "hash", "restat"} => cur \notin restatted
    /\ restatted \subseteq seen

IInv == TypeOK /\ PhaseInv /\ EndpointInv /\ HashInv /\ UnflaggedHashWasHeld

(* A set of claims that is not empty has a most specific one. *)
LEMMA PrimaryType ==
    ASSUME NEW S \in SUBSET Artifacts, S # {}
    PROVE  Primary(S) \in S
BY CollectorAssumption DEF Primary

(* Each entry that Record adds is one, and what it adds to the errors too. *)
LEMMA RecordType ==
    ASSUME TypeOK, user <= MaxUsers,
           NEW f \in Files, matches[f] # {}, NEW sha \in Seq(Nat) \cup {None},
           NEW chg \in BOOLEAN, NEW reason \in Reasons \cup {None},
           Record(f, sha, chg, reason)
    PROVE  /\ entries' \in [Files -> Entry \cup {None}]
           /\ errors' \in SUBSET Errors
           /\ registry' = registry /\ refused' = refused
<1>1. Primary(matches[f]) \in Artifacts
  BY PrimaryType DEF TypeOK, WalkTypeOK
<1>2. user \in 1..MaxUsers
  BY CollectorAssumption DEF TypeOK, WalkTypeOK
<1>3. EntryOf(f, sha, chg, reason) \in Entry
  BY <1>1, <1>2 DEF EntryOf, Entry, TypeOK, WalkTypeOK
<1>4. entries' \in [Files -> Entry \cup {None}]
  BY <1>3 DEF Record, TypeOK, RecordTypeOK
<1>5. errors' \in SUBSET Errors
  BY DEF Record, TypeOK, RecordTypeOK, Errors
<1> QED
  BY <1>4, <1>5 DEF Record

(* The steps of the endpoint keep its type. *)
LEMMA WriteType ==
    ASSUME EndpointTypeOK, NEW i \in Inodes, NEW blocks \in Seq(Nat),
           WriteInode(i, blocks)
    PROVE  data' \in [Inodes -> Seq(Nat)] /\ mtime' \in [Inodes -> Nat]
           /\ clock' \in Nat
BY DEF WriteInode, EndpointTypeOK

(* A write of the agent leaves the endpoint of its type.                   *)
LEMMA AgentType ==
    ASSUME EndpointTypeOK, NEW f \in Files, AgentWrites(f)
    PROVE  EndpointTypeOK'
<1> USE EndpointAssumption DEF EndpointTypeOK
<1>1. CASE AppendBlock(f)
  <2>1. inode[f] \in Inodes
    BY <1>1 DEF AppendBlock, Present
  <2>2. Append(Content(f), clock + 1) \in Seq(Nat)
    BY <2>1 DEF Content
  <2> QED
    BY <1>1, <2>1, <2>2, WriteType DEF AppendBlock
<1>2. CASE RewriteBlock(f)
  <2>1. inode[f] \in Inodes
    BY <1>2 DEF RewriteBlock, Present
  <2>2. PICK b \in 1..Len(Content(f)) :
          WriteInode(inode[f], [Content(f) EXCEPT ![b] = clock + 1])
    BY <1>2 DEF RewriteBlock
  <2>3. [Content(f) EXCEPT ![b] = clock + 1] \in Seq(Nat)
    BY <2>1, ExceptSeq DEF Content
  <2> QED
    BY <1>2, <2>1, <2>2, <2>3, WriteType DEF RewriteBlock
<1>3. CASE Truncate(f)
  <2>1. inode[f] \in Inodes
    BY <1>3 DEF Truncate, Present
  <2>2. <<>> \in Seq(Nat)
    OBVIOUS
  <2> QED
    BY <1>3, <2>1, <2>2, WriteType DEF Truncate
<1>4. CASE Replace(f)
  <2>1. PICK i \in Inodes \ allocated :
          /\ WriteInode(i, <<clock + 1>>)
          /\ inode' = [inode EXCEPT ![f] = i]
          /\ allocated' = allocated \cup {i}
    BY <1>4 DEF Replace
  <2>2. <<clock + 1>> \in Seq(Nat)
    OBVIOUS
  <2> QED
    BY <2>1, <2>2, WriteType
<1>5. CASE Delete(f)
  BY <1>5 DEF Delete
<1> QED
  BY <1>1, <1>2, <1>3, <1>4, <1>5 DEF AgentWrites

(* The frames and the groups of variables, expanded everywhere below. *)
USE DEF vars, collectorVars, endpointVars, bundleVars, fileVars, recordVars,
        walkVars, inputVars, runVars, historyVars, FileFrame, WriteFrame,
        FilePhases, WriteStates

(* A collection begins of its type, with nothing held and nothing hashed.  *)
LEMMA InitType == Init => TypeOK /\ PhaseInv /\ EndpointInv /\ HashInv
<1> SUFFICES ASSUME Init PROVE TypeOK /\ PhaseInv /\ EndpointInv /\ HashInv
  OBVIOUS
<1> USE EndpointAssumption, CollectorAssumption
<1>1. InitialContent \in Seq(Nat) /\ <<>> \in Seq(Nat)
  BY IsASeq DEF InitialContent
<1>2. EndpointTypeOK
  BY <1>1 DEF Init, EndpointInit, EndpointTypeOK
<1>3. WalkTypeOK
  <2>1. NoMatches \in [Files -> SUBSET Artifacts]
    BY DEF NoMatches
  <2>2. user \in Nat \ {0} /\ user <= found + 1 /\ st \in Nat
    BY DEF Init
  <2> QED
    BY <1>1, <2>1, <2>2 DEF Init, WalkTypeOK
<1>4. RecordTypeOK
  BY DEF Init, RecordTypeOK, NoEntries, NoRegistry
<1>5. BundleTypeOK
  BY DEF Init, BundleTypeOK, NoEntries, NoRegistry, Manifests
<1>6. HistoryTypeOK
  BY <1>2 DEF Init, EndpointTypeOK, HistoryTypeOK, Content, Present
<1>7. PhaseInv
  BY DEF Init, PhaseInv, NoEntries
<1>8. EndpointInv
  <2>1. ASSUME NEW f \in Files, Present(f)
        PROVE  inode[f] \in Inodes /\ inode[f] \in allocated
               /\ Content(f) \in held[f]
    <3>1. inode[f] \in Inodes /\ inode[f] # None
      BY <2>1 DEF Init, EndpointInit, Present
    <3>2. allocated = {inode[g] : g \in Files} \ {None}
      BY DEF Init, EndpointInit
    <3>3. held[f] = {Content(f)}
      BY <2>1 DEF Init
    <3> QED
      BY <3>1, <3>2, <3>3
  <2>2. \A i \in Inodes : mtime[i] <= clock
    BY DEF Init, EndpointInit
  <2>3. \A f, g \in Files : f # g /\ Present(f) => inode[f] # inode[g]
    BY DEF Init, EndpointInit
  <2> QED
    BY <2>1, <2>2, <2>3, Zenon DEF EndpointInv
<1>9. HashInv
  BY DEF Init, HashInv
<1> QED
  BY <1>2, <1>3, <1>4, <1>5, <1>6, <1>7, <1>8, <1>9 DEF TypeOK

(* The outcome of a failed call. *)
LEMMA GiveUpType ==
    ASSUME TypeOK, PhaseInv, pc \in FilePhases,
           NEW sha \in Seq(Nat) \cup {None}, GiveUp(sha), faults' \in Nat
    PROVE  TypeOK' /\ PhaseInv'
<1> USE DEF TypeOK, PhaseInv, GiveUp
<1>1. user <= MaxUsers /\ changed \in BOOLEAN /\ "unreadable" \in Reasons
  BY CollectorAssumption DEF WalkTypeOK, Reasons
<1>2. Record(cur, sha, changed, "unreadable")
  OBVIOUS
<1>3. RecordTypeOK'
  BY <1>1, <1>2, RecordType DEF RecordTypeOK
<1>4. EndpointTypeOK' /\ BundleTypeOK' /\ HistoryTypeOK'
  BY DEF EndpointTypeOK, BundleTypeOK, HistoryTypeOK
<1>5. WalkTypeOK'
  <2>1. <<>> \in Seq(Nat)
    OBVIOUS
  <2> QED
    BY <2>1 DEF WalkTypeOK
<1>6. PhaseInv'
  BY <1>2 DEF WalkTypeOK, Record, RecordTypeOK
<1> QED
  BY <1>3, <1>4, <1>5, <1>6

(* One step of collect_file. *)
LEMMA FileStepType ==
    ASSUME TypeOK, PhaseInv, FileStep
    PROVE  TypeOK' /\ PhaseInv'
<1> USE EndpointAssumption
<1>0. /\ user <= MaxUsers \/ pc \notin FilePhases
      /\ None \in Seq(Nat) \cup {None}
      /\ digest \in Seq(Nat)
      /\ \A f : FailsOn(f) => faults' \in Nat
      /\ Fault => faults' \in Nat
  BY CollectorAssumption
     DEF TypeOK, WalkTypeOK, PhaseInv, HistoryTypeOK, FailsOn, Fault
<1>1. CASE OpenToHash
  BY <1>1 DEF OpenToHash, TypeOK, PhaseInv, EndpointTypeOK, WalkTypeOK,
     RecordTypeOK, BundleTypeOK, HistoryTypeOK, Present
<1>2. CASE OpenToHashFails
  BY <1>0, <1>2, GiveUpType DEF OpenToHashFails
<1>3. CASE HashBlock
  BY <1>3 DEF HashBlock, AtEnd, TypeOK, PhaseInv, EndpointTypeOK, WalkTypeOK,
     RecordTypeOK, BundleTypeOK, HistoryTypeOK
<1>4. CASE HashEnd
  BY <1>4 DEF HashEnd, TypeOK, PhaseInv, EndpointTypeOK, WalkTypeOK,
     RecordTypeOK, BundleTypeOK, HistoryTypeOK
<1>5. CASE HashFails
  BY <1>0, <1>5, GiveUpType DEF HashFails
<1>6. CASE Restat
  <2>1. PICK chg \in BOOLEAN :
          /\ \/ UNCHANGED faults /\ restatted' = restatted \cup {cur}
             \/ FailsOn(cur) /\ UNCHANGED restatted
          /\ \/ /\ Record(cur, digest, chg, "secret_policy")
                /\ pc' = "files" /\ digest' = <<>> /\ changed' = FALSE
             \/ /\ pc' = "copy_open" /\ changed' = chg
                /\ UNCHANGED <<digest, recordVars>>
          /\ UNCHANGED <<fd, stored>>
          /\ FileFrame
    BY <1>6, Zenon DEF Restat
  <2>2. pc = "restat" /\ cur \in Files /\ faults \in Nat /\ faults' \in Nat
    BY <1>0, <1>6, <2>1
       DEF Restat, PhaseInv, TypeOK, HistoryTypeOK
  <2>3. <<>> \in Seq(Nat) /\ "secret_policy" \in Reasons
    BY DEF Reasons
  <2>4. EndpointTypeOK' /\ BundleTypeOK' /\ HistoryTypeOK'
    BY <2>1, <2>2 DEF TypeOK, EndpointTypeOK, BundleTypeOK, HistoryTypeOK
  <2>5. CASE Record(cur, digest, chg, "secret_policy") /\ pc' = "files"
             /\ digest' = <<>> /\ changed' = FALSE
    <3>1. /\ entries' \in [Files -> Entry \cup {None}]
          /\ errors' \in SUBSET Errors
          /\ registry' = registry /\ refused' = refused
      BY <1>0, <2>2, <2>3, <2>5, RecordType DEF PhaseInv
    <3>2. RecordTypeOK' /\ WalkTypeOK'
      BY <2>1, <2>3, <2>5, <3>1 DEF TypeOK, RecordTypeOK, WalkTypeOK
    <3>3. PhaseInv'
      BY <2>1, <2>2, <2>5 DEF PhaseInv, Record, TypeOK, RecordTypeOK
    <3> QED
      BY <2>4, <3>2, <3>3 DEF TypeOK
  <2>6. CASE pc' = "copy_open" /\ changed' = chg
             /\ UNCHANGED <<digest, recordVars>>
    <3>1. RecordTypeOK' /\ WalkTypeOK'
      BY <2>1, <2>6 DEF TypeOK, RecordTypeOK, WalkTypeOK
    <3>2. PhaseInv'
      BY <2>1, <2>2, <2>6 DEF PhaseInv
    <3> QED
      BY <2>4, <3>1, <3>2 DEF TypeOK
  <2> QED
    BY <2>1, <2>5, <2>6
<1>7. CASE OpenToCopy
  <2>1. <<>> \in Seq(Nat)
    OBVIOUS
  <2>2. stored' \in [Files -> Seq(Nat) \cup {None}]
    BY <1>7, <2>1 DEF OpenToCopy, TypeOK, BundleTypeOK
  <2>3. WalkTypeOK' /\ RecordTypeOK'
    BY <1>7 DEF OpenToCopy, TypeOK, EndpointTypeOK, WalkTypeOK, RecordTypeOK,
       PhaseInv, Present
  <2>4. EndpointTypeOK' /\ BundleTypeOK' /\ HistoryTypeOK'
    BY <1>7, <2>2 DEF OpenToCopy, TypeOK, EndpointTypeOK, BundleTypeOK,
       HistoryTypeOK
  <2>5. PhaseInv'
    BY <1>7, <2>1 DEF OpenToCopy, TypeOK, EndpointTypeOK, WalkTypeOK,
       BundleTypeOK, PhaseInv, Present
  <2> QED
    BY <2>3, <2>4, <2>5 DEF TypeOK
<1>8. CASE OpenToCopyFails
  BY <1>0, <1>8, GiveUpType DEF OpenToCopyFails
<1>9. CASE CopyBlock
  <2>1. cur \in Files /\ fd \in Inodes /\ stored[cur] \in Seq(Nat)
        /\ data[fd] \in Seq(Nat)
    BY <1>9 DEF CopyBlock, PhaseInv, TypeOK, BundleTypeOK, EndpointTypeOK
  <2>2. data[fd][Len(stored[cur]) + 1] \in Nat
    BY <1>9, <2>1 DEF CopyBlock, AtEnd
  <2>3. Append(stored[cur], data[fd][Len(stored[cur]) + 1]) \in Seq(Nat)
    BY <2>1, <2>2
  <2>4. stored' = [stored EXCEPT
                      ![cur] = Append(@, data[fd][Len(@) + 1])]
    BY <1>9 DEF CopyBlock
  <2>5. stored' \in [Files -> Seq(Nat) \cup {None}] /\ stored'[cur] # None
    BY <2>1, <2>3, <2>4 DEF TypeOK, BundleTypeOK
  <2>6. TypeOK'
    BY <1>9, <2>5 DEF CopyBlock, TypeOK, EndpointTypeOK, WalkTypeOK,
       RecordTypeOK, BundleTypeOK, HistoryTypeOK
  <2>7. PhaseInv'
    BY <1>9, <2>5 DEF CopyBlock, PhaseInv
  <2> QED
    BY <2>6, <2>7
<1>10. CASE CopyEnd
  BY <1>10 DEF CopyEnd, TypeOK, PhaseInv, EndpointTypeOK, WalkTypeOK,
     RecordTypeOK, BundleTypeOK, HistoryTypeOK
<1>11. CASE CopyFails
  BY <1>0, <1>11, GiveUpType DEF CopyFails
<1>12. CASE FinishCopy
  <2>1. Record(cur, digest, changed, None)
    BY <1>12 DEF FinishCopy
  <2>2. RecordTypeOK'
    <3>1. /\ entries' \in [Files -> Entry \cup {None}]
          /\ errors' \in SUBSET Errors
          /\ registry' = registry /\ refused' = refused
      BY <1>0, <1>12, <2>1, RecordType
         DEF FinishCopy, TypeOK, PhaseInv, WalkTypeOK
    <3> QED
      BY <1>12, <3>1 DEF FinishCopy, TypeOK, RecordTypeOK
  <2>3. WalkTypeOK'
    <3>1. <<>> \in Seq(Nat)
      OBVIOUS
    <3> QED
      BY <1>12, <3>1 DEF FinishCopy, TypeOK, WalkTypeOK
  <2>4. EndpointTypeOK' /\ BundleTypeOK' /\ HistoryTypeOK'
    BY <1>12 DEF FinishCopy, TypeOK, EndpointTypeOK, BundleTypeOK,
       HistoryTypeOK
  <2>5. PhaseInv'
    BY <1>12, <2>1 DEF FinishCopy, PhaseInv, Record, TypeOK, RecordTypeOK
  <2> QED
    BY <2>2, <2>3, <2>4, <2>5 DEF TypeOK
<1> QED
  BY <1>1, <1>2, <1>3, <1>4, <1>5, <1>6, <1>7, <1>8, <1>9, <1>10, <1>11,
     <1>12 DEF FileStep

(* The steps that begin, walk and end a run. *)
LEMMA WalkType ==
    ASSUME TypeOK, PhaseInv,
           RefuseOut \/ Invoke \/ SkipUser \/ MatchUser \/ NextUser
    PROVE  TypeOK' /\ PhaseInv'
<1> USE EndpointAssumption, CollectorAssumption
<1>1. CASE RefuseOut
  BY <1>1 DEF RefuseOut, TypeOK, PhaseInv, EndpointTypeOK, WalkTypeOK,
     RecordTypeOK, BundleTypeOK, HistoryTypeOK
<1>2. CASE Invoke
  <2>1. NoMatches \in [Files -> SUBSET Artifacts]
        /\ NoEntries \in [Files -> Entry \cup {None}]
        /\ NoRegistry \in [RegistryKeys -> {"unread", "collected", "absent"}]
    BY DEF NoMatches, NoEntries, NoRegistry
  <2>2. errors' \in SUBSET Errors
    BY <1>2 DEF Invoke, Errors
  <2>3. WalkTypeOK'
    BY <1>2, <2>1 DEF Invoke, TypeOK, WalkTypeOK
  <2>4. RecordTypeOK'
    BY <1>2, <2>1, <2>2 DEF Invoke, TypeOK, RecordTypeOK
  <2>5. EndpointTypeOK' /\ BundleTypeOK'
    BY <1>2 DEF Invoke, TypeOK, EndpointTypeOK, BundleTypeOK
  <2>6. HistoryTypeOK'
    BY <1>2 DEF Invoke, TypeOK, HistoryTypeOK
  <2>7. PhaseInv'
    BY <1>2 DEF Invoke, PhaseInv, NoEntries
  <2> QED
    BY <2>3, <2>4, <2>5, <2>6, <2>7 DEF TypeOK
<1>3. CASE SkipUser
  BY <1>3 DEF SkipUser, Fault, TypeOK, PhaseInv, EndpointTypeOK, WalkTypeOK,
     RecordTypeOK, BundleTypeOK, HistoryTypeOK
<1>4. CASE MatchUser
  <2>1. PICK hidden \in SUBSET Artifacts :
          /\ matches' = [f \in Files |->
                IF Present(f) THEN Claims[user][f] \ hidden ELSE {}]
          /\ \/ UNCHANGED <<errors, refused, faults>>
             \/ /\ Fault
                /\ \/ /\ \E e \in {"too_many_files", "unparsable_agent_state"} :
                            errors' = errors \cup {[error |-> e]}
                      /\ UNCHANGED refused
                   \/ refused' = TRUE /\ UNCHANGED errors
    BY <1>4, Zenon DEF MatchUser
  <2>2. user \in 1..MaxUsers
    BY <1>4 DEF MatchUser, TypeOK, WalkTypeOK
  <2>3. matches' \in [Files -> SUBSET Artifacts]
    BY <2>1, <2>2
  <2>4. WalkTypeOK'
    BY <1>4, <2>3 DEF MatchUser, TypeOK, WalkTypeOK
  <2>5. errors' \in SUBSET Errors /\ refused' \in BOOLEAN /\ faults' \in Nat
    <3>1. faults \in Nat /\ errors \in SUBSET Errors /\ refused \in BOOLEAN
      BY DEF TypeOK, RecordTypeOK, HistoryTypeOK
    <3>2. CASE UNCHANGED <<errors, refused, faults>>
      BY <3>1, <3>2
    <3>3. CASE Fault /\ UNCHANGED refused
               /\ \E e \in {"too_many_files", "unparsable_agent_state"} :
                      errors' = errors \cup {[error |-> e]}
      BY <3>1, <3>3 DEF Fault, Errors
    <3>4. CASE Fault /\ refused' = TRUE /\ UNCHANGED errors
      BY <3>1, <3>4 DEF Fault
    <3> QED
      BY <2>1, <3>2, <3>3, <3>4
  <2>6. RecordTypeOK' /\ HistoryTypeOK'
    BY <1>4, <2>5 DEF MatchUser, TypeOK, RecordTypeOK, HistoryTypeOK
  <2>7. EndpointTypeOK' /\ BundleTypeOK'
    BY <1>4 DEF MatchUser, TypeOK, EndpointTypeOK, BundleTypeOK
  <2>8. PhaseInv'
    BY <1>4 DEF MatchUser, PhaseInv
  <2> QED
    BY <2>4, <2>6, <2>7, <2>8 DEF TypeOK
<1>5. CASE NextUser
  BY <1>5 DEF NextUser, TypeOK, PhaseInv, EndpointTypeOK, WalkTypeOK,
     RecordTypeOK, BundleTypeOK, HistoryTypeOK
<1> QED
  BY <1>1, <1>2, <1>3, <1>4, <1>5

(* Examining a file keeps the types and the phase.                         *)
LEMMA ExamineType ==
    ASSUME TypeOK, PhaseInv, EndpointInv, NEW f \in Files, Examine(f)
    PROVE  TypeOK' /\ PhaseInv'
<1> USE EndpointAssumption, CollectorAssumption
<1>1. user <= MaxUsers /\ matches[f] # {} /\ f \notin seen /\ pc = "files"
  BY DEF Examine, PhaseInv, TypeOK, WalkTypeOK, Undecided, Matched
<1>2. entries[f] = None
  BY <1>1 DEF PhaseInv
<1>3. /\ seen' = seen \cup {f} /\ touched' = touched \ {f}
      /\ UNCHANGED <<endpointVars, inputVars, user, matches, fd, digest, changed,
                     bundleVars, runVars, restatted, held>>
  BY DEF Examine
<1>4. EndpointTypeOK' /\ BundleTypeOK'
  BY <1>3 DEF TypeOK, EndpointTypeOK, BundleTypeOK
<1>5. faults' \in Nat
  <2>1. FailsOn(f) \/ UNCHANGED faults
    BY Zenon DEF Examine
  <2> QED
    BY <2>1 DEF FailsOn, Fault, TypeOK, HistoryTypeOK
<1>6. HistoryTypeOK'
  BY <1>3, <1>5 DEF TypeOK, HistoryTypeOK
<1>7. ASSUME NEW reason \in Reasons, Record(f, None, FALSE, reason),
             UNCHANGED <<pc, cur, st>>
      PROVE  TypeOK' /\ PhaseInv'
  <2>1. /\ entries' \in [Files -> Entry \cup {None}]
        /\ errors' \in SUBSET Errors
        /\ registry' = registry /\ refused' = refused
    BY <1>1, <1>7, RecordType
  <2>2. RecordTypeOK' /\ WalkTypeOK'
    BY <1>3, <1>7, <2>1 DEF TypeOK, RecordTypeOK, WalkTypeOK
  <2>3. PhaseInv'
    BY <1>1, <1>3, <1>7 DEF PhaseInv, Record, TypeOK, RecordTypeOK
  <2> QED
    BY <1>4, <1>6, <2>2, <2>3 DEF TypeOK
<1>8. ASSUME Present(f), cur' = f, st' = mtime[inode[f]], pc' = "open",
             UNCHANGED recordVars
      PROVE  TypeOK' /\ PhaseInv'
  <2>1. inode[f] \in Inodes
    BY <1>8 DEF Present, TypeOK, EndpointTypeOK
  <2>2. RecordTypeOK' /\ WalkTypeOK'
    BY <1>3, <1>8, <2>1
       DEF TypeOK, RecordTypeOK, WalkTypeOK, EndpointTypeOK
  <2>3. PhaseInv'
    BY <1>1, <1>2, <1>3, <1>8, <2>1 DEF PhaseInv, EndpointInv
  <2> QED
    BY <1>4, <1>6, <2>2, <2>3 DEF TypeOK
<1>9. "unreadable" \in Reasons
  BY DEF Reasons
<1>10. \/ \E reason \in Reasons : Record(f, None, FALSE, reason)
                                /\ UNCHANGED <<pc, cur, st>>
       \/ /\ Present(f) /\ cur' = f /\ st' = mtime[inode[f]] /\ pc' = "open"
          /\ UNCHANGED recordVars
  BY <1>9, Zenon DEF Examine
<1> QED
  BY <1>7, <1>8, <1>10

(* So do the steps after the last file of a user.                          *)
LEMMA EndType ==
    ASSUME TypeOK, PhaseInv,
           \/ UsersDone \/ RegistryDone \/ \E k \in RegistryKeys : ReadKey(k)
           \/ Assemble \/ WriteManifest \/ WriteCustody \/ WriteZip \/ Exit
           \/ Crash
    PROVE  TypeOK' /\ PhaseInv'
<1> USE EndpointAssumption
<1>1. CASE UsersDone
  BY <1>1 DEF UsersDone, TypeOK, PhaseInv, EndpointTypeOK, WalkTypeOK,
     RecordTypeOK, BundleTypeOK, HistoryTypeOK
<1>8. CASE RegistryDone
  BY <1>8 DEF RegistryDone, TypeOK, PhaseInv, EndpointTypeOK, WalkTypeOK,
     RecordTypeOK, BundleTypeOK, HistoryTypeOK
<1>2. ASSUME NEW k \in RegistryKeys, ReadKey(k)
      PROVE  TypeOK' /\ PhaseInv'
  BY <1>2 DEF ReadKey, TypeOK, PhaseInv, EndpointTypeOK, WalkTypeOK,
     RecordTypeOK, BundleTypeOK, HistoryTypeOK
<1>3. CASE Assemble
  BY <1>3 DEF Assemble, TypeOK, PhaseInv, EndpointTypeOK, WalkTypeOK,
     RecordTypeOK, BundleTypeOK, HistoryTypeOK
<1>4. CASE WriteManifest
  BY <1>4 DEF WriteManifest, Manifests, TypeOK, PhaseInv, EndpointTypeOK, WalkTypeOK,
     RecordTypeOK, BundleTypeOK, HistoryTypeOK
<1>5. CASE WriteCustody
  BY <1>5 DEF WriteCustody, TypeOK, PhaseInv, EndpointTypeOK, WalkTypeOK,
     RecordTypeOK, BundleTypeOK, HistoryTypeOK
<1>9. CASE WriteZip
  BY <1>9 DEF WriteZip, TypeOK, PhaseInv, EndpointTypeOK, WalkTypeOK,
     RecordTypeOK, BundleTypeOK, HistoryTypeOK
<1>6. CASE Exit
  BY <1>6 DEF Exit, TypeOK, PhaseInv, EndpointTypeOK, WalkTypeOK,
     RecordTypeOK, BundleTypeOK, HistoryTypeOK
<1>7. CASE Crash
  <2>1. <<>> \in Seq(Nat)
    OBVIOUS
  <2>2. WalkTypeOK' /\ RecordTypeOK'
    BY <1>7, <2>1 DEF Crash, TypeOK, WalkTypeOK, RecordTypeOK
  <2>3. EndpointTypeOK' /\ BundleTypeOK' /\ HistoryTypeOK'
    BY <1>7 DEF Crash, TypeOK, EndpointTypeOK, BundleTypeOK, HistoryTypeOK
  <2>4. PhaseInv'
    BY <1>7 DEF Crash, PhaseInv
  <2> QED
    BY <2>2, <2>3, <2>4 DEF TypeOK
<1> QED
  BY <1>1, <1>2, <1>3, <1>4, <1>5, <1>6, <1>7, <1>8, <1>9

(* So does the agent, and it moves the clock.                              *)
LEMMA AgentStepType ==
    ASSUME TypeOK, PhaseInv, NEW f \in Files, AgentStep(f)
    PROVE  TypeOK' /\ PhaseInv' /\ clock' = clock + 1
<1>1. EndpointTypeOK'
  BY AgentType DEF AgentStep, TypeOK
<1>2. clock' = clock + 1
  BY DEF AgentStep, AgentWrites, AppendBlock, RewriteBlock, Truncate, Replace,
     Delete, WriteInode
<1>3. held' \in [Files -> SUBSET Seq(Nat)]
  <2>1. held' = [held EXCEPT ![f] =
                   IF inode'[f] = None THEN @ ELSE @ \cup {data'[inode'[f]]}]
    BY DEF AgentStep
  <2>2. inode'[f] # None => data'[inode'[f]] \in Seq(Nat)
    BY <1>1 DEF EndpointTypeOK
  <2> QED
    BY <2>1, <2>2 DEF TypeOK, HistoryTypeOK
<1>4. HistoryTypeOK'
  BY <1>3 DEF AgentStep, TypeOK, HistoryTypeOK
<1>5. WalkTypeOK' /\ RecordTypeOK' /\ BundleTypeOK'
  BY DEF AgentStep, TypeOK, WalkTypeOK, RecordTypeOK, BundleTypeOK
<1>6. PhaseInv'
  BY <1>2 DEF AgentStep, PhaseInv, TypeOK, EndpointTypeOK, WalkTypeOK
<1> QED
  BY <1>1, <1>2, <1>4, <1>5, <1>6 DEF TypeOK

(* A write to one path leaves the inode of every other path as it was, and *)
(* gives the inode the path now names a stamp nobody has seen.             *)
Isolated(f) ==
    /\ \A g \in Files \ {f} :
          /\ inode'[g] = inode[g]
          /\ Present(g) => /\ data'[inode[g]] = data[inode[g]]
                           /\ mtime'[inode[g]] = mtime[inode[g]]
    /\ inode'[f] # None =>
          /\ mtime'[inode'[f]] = clock + 1
          /\ inode'[f] \in allocated'
          /\ \A g \in Files \ {f} : inode[g] # inode'[f]
    /\ allocated \subseteq allocated'
    /\ \A i \in Inodes : mtime'[i] \in {mtime[i], clock + 1}
    /\ clock' = clock + 1

(* A write of the agent changes one file of the endpoint.                  *)
LEMMA AgentIsolated ==
    ASSUME TypeOK, EndpointInv, NEW f \in Files, AgentWrites(f)
    PROVE  Isolated(f)
<1> USE EndpointAssumption
<1>1. /\ \A g \in Files : Present(g) => inode[g] \in Inodes /\ inode[g] \in allocated
      /\ mtime \in [Inodes -> Nat] /\ data \in [Inodes -> Seq(Nat)]
      /\ inode \in [Files -> Inodes \cup {None}]
      /\ allocated \in SUBSET Inodes
      /\ \A g, h \in Files : g # h /\ Present(g) => inode[g] # inode[h]
  BY DEF TypeOK, EndpointTypeOK, Present, EndpointInv
<1>2. ASSUME Present(f), NEW blocks, WriteInode(inode[f], blocks),
             UNCHANGED <<inode, allocated>>
      PROVE  Isolated(f)
  BY <1>1, <1>2 DEF WriteInode, Present, Isolated
<1>3. ASSUME NEW i \in Inodes \ allocated, WriteInode(i, <<clock + 1>>),
             inode' = [inode EXCEPT ![f] = i],
             allocated' = allocated \cup {i}
      PROVE  Isolated(f)
  BY <1>1, <1>3 DEF WriteInode, Present, Isolated
<1>4. CASE Delete(f)
  BY <1>1, <1>4 DEF Delete, Present, Isolated
<1> QED
  BY <1>2, <1>3, <1>4
     DEF AgentWrites, AppendBlock, RewriteBlock, Truncate, Replace

(* What an agent writes keeps what is known of the endpoint. *)
LEMMA AgentKeepsEndpoint ==
    ASSUME TypeOK, EndpointInv, NEW f \in Files, AgentStep(f)
    PROVE  EndpointInv' /\ \A g \in Files : held[g] \subseteq held'[g]
<1> USE EndpointAssumption
<1>1. Isolated(f)
  BY AgentIsolated DEF AgentStep
<1>2. EndpointTypeOK'
  BY AgentType DEF AgentStep, TypeOK
<1>3. held' = [held EXCEPT ![f] =
                 IF inode'[f] = None THEN @ ELSE @ \cup {data'[inode'[f]]}]
  BY DEF AgentStep
<1>4. /\ \A g \in Files : held[g] \subseteq held'[g]
      /\ \A g \in Files \ {f} : held'[g] = held[g]
      /\ inode'[f] # None => data'[inode'[f]] \in held'[f]
  BY <1>3 DEF TypeOK, HistoryTypeOK
<1>5. (\A g, h \in Files : g # h /\ Present(g) => inode[g] # inode[h])'
  BY <1>1 DEF Isolated, EndpointInv, Present
<1>6. (\A g \in Files : Present(g) => inode[g] \in allocated)'
  BY <1>1 DEF Isolated, EndpointInv, Present
<1>7. (\A i \in Inodes : mtime[i] <= clock)'
  <2>1. clock \in Nat /\ mtime \in [Inodes -> Nat]
    BY DEF TypeOK, EndpointTypeOK
  <2>2. \A i \in Inodes : mtime[i] <= clock
    BY DEF EndpointInv
  <2> QED
    BY <1>1, <2>1, <2>2 DEF Isolated
<1>8. (\A g \in Files : Present(g) => Content(g) \in held[g])'
  BY <1>1, <1>4 DEF Isolated, EndpointInv, Present, Content
<1> QED
  BY <1>4, <1>5, <1>6, <1>7, <1>8 DEF EndpointInv

(* A write while a path is read either gives that path a stamp other than  *)
(* the one of its first stat, or leaves all that is read of it alone.      *)
LEMMA AgentKeepsHash ==
    ASSUME TypeOK, PhaseInv, EndpointInv, HashInv, UnflaggedHashWasHeld,
           NEW f \in Files, AgentStep(f)
    PROVE  HashInv' /\ UnflaggedHashWasHeld'
<1>1. Isolated(f) /\ UNCHANGED collectorVars
  BY AgentIsolated DEF AgentStep
<1>2. \A g \in Files : held[g] \subseteq held'[g]
  BY AgentKeepsEndpoint
<1>3. ASSUME pc \in FilePhases, Unmoved'
      PROVE  /\ Unmoved /\ inode'[cur] = inode[cur]
             /\ data'[inode[cur]] = data[inode[cur]]
  <2>1. cur \in Files /\ st <= clock /\ clock \in Nat /\ st \in Nat
    BY <1>3 DEF PhaseInv, TypeOK, WalkTypeOK, EndpointTypeOK
  <2>2. cur # f
    BY <1>1, <1>3, <2>1 DEF Isolated, Unmoved, Present
  <2> QED
    BY <1>1, <1>3, <2>1, <2>2 DEF Isolated, Unmoved, Present
<1>4. HashInv'
  <2>1. (pc = "hash" /\ Unmoved =>
          /\ fd = inode[cur]
          /\ Len(digest) <= Len(data[fd])
          /\ \A k \in 1..Len(digest) : digest[k] = data[fd][k])'
    BY <1>1, <1>3 DEF HashInv
  <2>2. (pc = "restat" /\ Unmoved => digest = Content(cur))'
    BY <1>1, <1>3 DEF HashInv, Content
  <2>3. (pc \in {"copy_open", "copy", "utime"} /\ ~changed /\ cur \in restatted =>
          digest \in held[cur])'
    BY <1>1, <1>2 DEF HashInv, PhaseInv
  <2> QED
    BY <1>1, <2>1, <2>2, <2>3 DEF HashInv
<1>5. UnflaggedHashWasHeld'
  BY <1>1, <1>2 DEF UnflaggedHashWasHeld
<1> QED
  BY <1>4, <1>5

(* A path that is given up in a phase after its second stat keeps its      *)
(* digest, and one given up before has none.                               *)
LEMMA GiveUpKeepsHash ==
    ASSUME TypeOK, PhaseInv, HashInv, UnflaggedHashWasHeld, pc \in FilePhases,
           NEW sha \in Seq(Nat) \cup {None}, NEW reason \in Reasons \cup {None},
           Record(cur, sha, changed, reason),
           sha # None /\ ~changed /\ cur \in restatted => sha \in held[cur],
           pc' = "files", digest' = <<>>, UNCHANGED <<restatted, held, seen>>
    PROVE  HashInv' /\ UnflaggedHashWasHeld'
<1>1. cur \in Files /\ cur \in seen
  BY DEF PhaseInv
<1>2. entries' = [entries EXCEPT ![cur] = EntryOf(cur, sha, changed, reason)]
      /\ EntryOf(cur, sha, changed, reason).sha = sha
      /\ EntryOf(cur, sha, changed, reason).changed = changed
  BY DEF Record, EntryOf
<1>3. UnflaggedHashWasHeld'
  BY <1>1, <1>2 DEF UnflaggedHashWasHeld, TypeOK, RecordTypeOK
<1>4. HashInv'
  BY DEF HashInv
<1> QED
  BY <1>3, <1>4

(* A step on the file at hand keeps a hash that is not flagged one of what *)
(* the file held.                                                          *)
LEMMA FileStepKeepsHash ==
    ASSUME TypeOK, PhaseInv, EndpointInv, HashInv, UnflaggedHashWasHeld,
           FileStep
    PROVE  HashInv' /\ UnflaggedHashWasHeld'
<1> USE EndpointAssumption
<1>0. /\ "unreadable" \in Reasons /\ "secret_policy" \in Reasons
      /\ digest \in Seq(Nat) /\ digest # None /\ changed \in BOOLEAN
      /\ data \in [Inodes -> Seq(Nat)]
  BY DEF Reasons, TypeOK, WalkTypeOK, EndpointTypeOK
<1>1. CASE OpenToHash
  <2>1. digest = <<>> /\ inode[cur] \in Inodes
    BY <1>1 DEF OpenToHash, HashInv, PhaseInv, Present, TypeOK, EndpointTypeOK
  <2> QED
    BY <1>0, <1>1, <2>1 DEF OpenToHash, HashInv, UnflaggedHashWasHeld, Unmoved
<1>2. CASE OpenToHashFails
  BY <1>0, <1>2, GiveUpKeepsHash DEF OpenToHashFails, GiveUp
<1>3. CASE HashBlock
  <2>1. fd \in Inodes /\ data[fd] \in Seq(Nat)
    BY <1>0, <1>3 DEF HashBlock, PhaseInv
  <2>2. Len(digest) < Len(data[fd])
        /\ digest' = Append(digest, data[fd][Len(digest) + 1])
    BY <1>0, <1>3, <2>1 DEF HashBlock, AtEnd
  <2>3. Len(digest') = Len(digest) + 1
        /\ \A k \in 1..Len(digest') :
              digest'[k] = IF k <= Len(digest) THEN digest[k]
                           ELSE data[fd][Len(digest) + 1]
    BY <1>0, <2>1, <2>2
  <2>4. pc = "hash" /\ UNCHANGED <<pc, inode, data, mtime, st, fd, cur, changed,
                                  restatted, held, entries, seen>>
    BY <1>3 DEF HashBlock
  <2>5. (pc = "hash" /\ Unmoved =>
          /\ fd = inode[cur]
          /\ Len(digest) <= Len(data[fd])
          /\ \A k \in 1..Len(digest) : digest[k] = data[fd][k])'
    <3> SUFFICES ASSUME Unmoved
                 PROVE  /\ fd = inode[cur]
                        /\ Len(digest') <= Len(data[fd])
                        /\ \A k \in 1..Len(digest') : digest'[k] = data[fd][k]
      BY <2>4 DEF Unmoved, Present
    <3>1. /\ fd = inode[cur]
          /\ \A k \in 1..Len(digest) : digest[k] = data[fd][k]
      BY <2>4 DEF HashInv
    <3>2. Len(digest') <= Len(data[fd])
      BY <1>0, <2>1, <2>2, <2>3
    <3>3. ASSUME NEW k \in 1..Len(digest') PROVE digest'[k] = data[fd][k]
      <4>1. CASE k <= Len(digest)
        BY <1>0, <2>3, <3>1, <4>1
      <4>2. CASE k = Len(digest) + 1
        BY <1>0, <2>3, <4>2
      <4> QED
        BY <1>0, <2>3, <4>1, <4>2
    <3> QED
      BY <3>1, <3>2, <3>3
  <2>6. HashInv'
    BY <2>4, <2>5 DEF HashInv
  <2> QED
    BY <2>4, <2>6 DEF UnflaggedHashWasHeld
<1>4. CASE HashEnd
  <2>1. fd \in Inodes /\ data[fd] \in Seq(Nat) /\ pc = "hash"
    BY <1>0, <1>4 DEF HashEnd, PhaseInv
  <2>2. Unmoved => digest = Content(cur)
    <3> SUFFICES ASSUME Unmoved PROVE digest = data[fd]
      BY <2>1 DEF HashInv, Content
    <3>1. Len(digest) = Len(data[fd])
      BY <1>0, <1>4, <2>1 DEF HashEnd, AtEnd, HashInv
    <3>2. \A k \in 1..Len(digest) : digest[k] = data[fd][k]
      BY <2>1 DEF HashInv
    <3> QED
      BY <1>0, <2>1, <3>1, <3>2, SeqEqual
  <2> QED
    BY <1>4, <2>1, <2>2
       DEF HashEnd, HashInv, UnflaggedHashWasHeld, Unmoved, Content, Present
<1>5. CASE HashFails
  BY <1>0, <1>5, GiveUpKeepsHash DEF HashFails, GiveUp
<1>6. CASE Restat
  <2>1. PICK chg \in BOOLEAN :
          /\ \/ /\ Present(cur) /\ chg = StatDiffers
                /\ restatted' = restatted \cup {cur}
             \/ UNCHANGED restatted
          /\ \/ /\ Record(cur, digest, chg, "secret_policy")
                /\ pc' = "files" /\ digest' = <<>> /\ changed' = FALSE
             \/ /\ pc' = "copy_open" /\ changed' = chg
                /\ UNCHANGED <<digest, recordVars>>
          /\ FileFrame
    BY <1>6, Zenon DEF Restat
  <2>2. pc = "restat" /\ cur \in Files /\ cur \in seen /\ cur \notin restatted
        /\ held' = held /\ seen' = seen /\ cur' = cur
    BY <1>6, <2>1 DEF Restat, PhaseInv, HashInv
  <2>3. ~chg /\ cur \in restatted' => digest \in held[cur]
    BY <2>1, <2>2 DEF HashInv, Unmoved, StatDiffers, EndpointInv
  <2>4. restatted' \subseteq seen
    BY <2>1, <2>2 DEF HashInv
  <2>5. CASE Record(cur, digest, chg, "secret_policy") /\ pc' = "files"
             /\ digest' = <<>>
    <3>1. entries' = [entries EXCEPT
                         ![cur] = EntryOf(cur, digest, chg, "secret_policy")]
          /\ EntryOf(cur, digest, chg, "secret_policy").sha = digest
          /\ EntryOf(cur, digest, chg, "secret_policy").changed = chg
      BY <2>5 DEF Record, EntryOf
    <3>2. UnflaggedHashWasHeld'
      BY <2>1, <2>2, <2>3, <3>1 DEF UnflaggedHashWasHeld, TypeOK, RecordTypeOK
    <3> QED
      BY <2>2, <2>4, <2>5, <3>2 DEF HashInv
  <2>6. CASE pc' = "copy_open" /\ changed' = chg /\ UNCHANGED <<digest, entries>>
    <3>1. UnflaggedHashWasHeld'
      BY <2>1, <2>2, <2>6 DEF UnflaggedHashWasHeld, PhaseInv
    <3> QED
      BY <2>2, <2>3, <2>4, <2>6, <3>1 DEF HashInv
  <2> QED
    BY <2>1, <2>5, <2>6
<1>7. CASE OpenToCopy
  BY <1>7 DEF OpenToCopy, HashInv, UnflaggedHashWasHeld
<1>8. CASE OpenToCopyFails
  BY <1>0, <1>8, GiveUpKeepsHash DEF OpenToCopyFails, GiveUp, HashInv
<1>9. CASE CopyBlock
  BY <1>9 DEF CopyBlock, HashInv, UnflaggedHashWasHeld
<1>10. CASE CopyEnd
  BY <1>10 DEF CopyEnd, HashInv, UnflaggedHashWasHeld
<1>11. CASE CopyFails
  BY <1>0, <1>11, GiveUpKeepsHash DEF CopyFails, GiveUp, HashInv
<1>12. CASE FinishCopy
  BY <1>0, <1>12, GiveUpKeepsHash DEF FinishCopy, HashInv
<1> QED
  BY <1>1, <1>2, <1>3, <1>4, <1>5, <1>6, <1>7, <1>8, <1>9, <1>10, <1>11,
     <1>12 DEF FileStep

(* The steps between files leave the digest and the endpoint alone, and    *)
(* begin no file.                                                          *)
LEMMA WalkKeepsHash ==
    ASSUME TypeOK, PhaseInv, EndpointInv, HashInv, UnflaggedHashWasHeld,
           \/ RefuseOut \/ Invoke \/ SkipUser \/ MatchUser \/ NextUser
           \/ UsersDone \/ RegistryDone \/ \E k \in RegistryKeys : ReadKey(k)
           \/ Assemble \/ WriteManifest \/ WriteCustody \/ WriteZip \/ Exit
           \/ Crash
    PROVE  EndpointInv' /\ HashInv' /\ UnflaggedHashWasHeld'
<1>1. UNCHANGED <<endpointVars, held>>
  BY DEF RefuseOut, Invoke, SkipUser, MatchUser, NextUser, UsersDone,
     RegistryDone, ReadKey, Assemble, WriteManifest, WriteCustody, WriteZip,
     Exit, Crash
<1>2. pc' \notin FilePhases
  BY DEF RefuseOut, Invoke, SkipUser, MatchUser, NextUser, UsersDone,
     RegistryDone, ReadKey, Assemble, WriteManifest, WriteCustody, WriteZip,
     Exit, Crash
<1>3. digest' = <<>>
  BY DEF RefuseOut, Invoke, SkipUser, MatchUser, NextUser, UsersDone,
     RegistryDone, ReadKey, Assemble, WriteManifest, WriteCustody, WriteZip,
     Exit, Crash, HashInv
<1>4. \/ UNCHANGED <<entries, restatted, seen>>
      \/ entries' = NoEntries /\ restatted' = {} /\ seen' = {}
  BY DEF RefuseOut, Invoke, SkipUser, MatchUser, NextUser, UsersDone,
     RegistryDone, ReadKey, Assemble, WriteManifest, WriteCustody, WriteZip,
     Exit, Crash
<1>5. EndpointInv'
  BY <1>1 DEF EndpointInv, Present, Content
<1>6. HashInv'
  BY <1>2, <1>3, <1>4 DEF HashInv
<1>7. UnflaggedHashWasHeld'
  BY <1>1, <1>4 DEF UnflaggedHashWasHeld, NoEntries
<1> QED
  BY <1>5, <1>6, <1>7

(* So does beginning a file.                                               *)
LEMMA ExamineKeepsHash ==
    ASSUME TypeOK, PhaseInv, EndpointInv, HashInv, UnflaggedHashWasHeld,
           NEW f \in Files, Examine(f)
    PROVE  EndpointInv' /\ HashInv' /\ UnflaggedHashWasHeld'
<1>1. /\ UNCHANGED <<endpointVars, held, restatted, digest>>
      /\ seen' = seen \cup {f} /\ f \notin seen /\ pc = "files"
  BY DEF Examine, Undecided
<1>2. \/ /\ \E reason \in Reasons : Record(f, None, FALSE, reason)
         /\ UNCHANGED <<pc, cur, st>>
      \/ cur' = f /\ pc' = "open" /\ UNCHANGED recordVars
  <2>1. "unreadable" \in Reasons
    BY DEF Reasons
  <2> QED
    BY <2>1, Zenon DEF Examine
<1>3. EndpointInv'
  BY <1>1 DEF EndpointInv, Present, Content
<1>4. HashInv'
  BY <1>1, <1>2 DEF HashInv
<1>5. UnflaggedHashWasHeld'
  BY <1>1, <1>2 DEF UnflaggedHashWasHeld, Record, EntryOf, TypeOK, RecordTypeOK
<1> QED
  BY <1>3, <1>4, <1>5

(* The collector does not write to the endpoint.                           *)
LEMMA FileStepKeepsEndpoint ==
    ASSUME EndpointInv, FileStep
    PROVE  EndpointInv'
<1>1. UNCHANGED <<endpointVars, held>>
  BY DEF FileStep, OpenToHash, OpenToHashFails, HashBlock, HashEnd, HashFails,
     Restat, OpenToCopy, OpenToCopyFails, CopyBlock, CopyEnd, CopyFails,
     FinishCopy, GiveUp
<1> QED
  BY <1>1 DEF EndpointInv, Present, Content

(* The invariant is inductive. *)
LEMMA Inductive == IInv /\ [Next]_vars => IInv'
<1> SUFFICES ASSUME IInv, [Next]_vars PROVE IInv'
  OBVIOUS
<1> USE DEF IInv
<1>1. CASE RefuseOut \/ Invoke \/ SkipUser \/ MatchUser \/ NextUser
  BY <1>1, WalkType, WalkKeepsHash
<1>2. CASE FileStep
  BY <1>2, FileStepType, FileStepKeepsHash, FileStepKeepsEndpoint
<1>3. ASSUME NEW f \in Files, Examine(f) PROVE IInv'
  BY <1>3, ExamineType, ExamineKeepsHash
<1>4. CASE \/ UsersDone \/ RegistryDone \/ \E k \in RegistryKeys : ReadKey(k)
           \/ Assemble \/ WriteManifest \/ WriteCustody \/ WriteZip \/ Exit
           \/ Crash
  BY <1>4, EndType, WalkKeepsHash
<1>5. ASSUME NEW f \in Files, AgentStep(f) PROVE IInv'
  BY <1>5, AgentStepType, AgentKeepsEndpoint, AgentKeepsHash
<1>6. CASE UNCHANGED vars
  BY <1>6
     DEF TypeOK, EndpointTypeOK, WalkTypeOK, RecordTypeOK, BundleTypeOK,
         HistoryTypeOK, PhaseInv, EndpointInv, HashInv, UnflaggedHashWasHeld,
         Present, Content, Unmoved
<1> QED
  BY <1>1, <1>2, <1>3, <1>4, <1>5, <1>6 DEF Next, RunStep

(* The inductive invariant holds in the beginning.                         *)
LEMMA InitInductive == Init => IInv
<1> SUFFICES ASSUME Init PROVE IInv
  OBVIOUS
<1>1. UnflaggedHashWasHeld
  BY DEF Init, UnflaggedHashWasHeld, NoEntries
<1> QED
  BY <1>1, InitType DEF IInv

(* The inductive invariant of types, phase, endpoint and hashes.           *)
LEMMA Invariance == Spec => []IInv
<1> QED
  BY InitInductive, Inductive, PTL DEF Spec

(* Every variable keeps its type. *)
THEOREM TypeInvariant == Spec => []TypeOK
<1>1. IInv => TypeOK
  BY DEF IInv
<1> QED
  BY <1>1, Invariance, PTL

(* A hash that the manifest does not flag as changed while it was read is  *)
(* the hash of a content the file really had at one moment, however many   *)
(* writers there are and whatever they do between the collector's calls.   *)
THEOREM UnflaggedHash == Spec => []UnflaggedHashWasHeld
<1>1. IInv => UnflaggedHashWasHeld
  BY DEF IInv
<1> QED
  BY <1>1, Invariance, PTL

(* ------------------------------------------------------- one decision --- *)

(* A path gets its entry once in a run: seen_paths keeps the second claim, *)
(* and the second profile, from deciding it again.                         *)
THEOREM DecidedOnceHolds == Spec => DecidedOnce
<1> DEFINE Kept == \A f \in Files : entries[f] # None /\ run' = run =>
                                       entries'[f] = entries[f]
<1>1. ASSUME IInv, Next PROVE Kept
  <2> USE <1>1 DEF IInv
  <2>1. ASSUME NEW f \in Files, entries[f] = None, NEW sha, NEW chg, NEW reason,
               Record(f, sha, chg, reason)
        PROVE  Kept
    BY <2>1 DEF Record, TypeOK, RecordTypeOK
  <2>2. CASE RefuseOut \/ Invoke
    BY <2>2 DEF RefuseOut, Invoke, TypeOK, HistoryTypeOK
  <2>3. CASE FileStep
    <3>1. cur \in Files /\ entries[cur] = None
      BY <2>3 DEF PhaseInv, FileStep, OpenToHash, OpenToHashFails, HashBlock,
         HashEnd, HashFails, Restat, OpenToCopy, OpenToCopyFails, CopyBlock,
         CopyEnd, CopyFails, FinishCopy
    <3>2. \/ entries' = entries
          \/ \E sha, chg, reason : Record(cur, sha, chg, reason)
      BY <2>3, Zenon
         DEF FileStep, OpenToHash, OpenToHashFails, HashBlock,
         HashEnd, HashFails, Restat, OpenToCopy, OpenToCopyFails, CopyBlock,
         CopyEnd, CopyFails, FinishCopy, GiveUp
    <3> QED
      BY <2>1, <3>1, <3>2
  <2>4. ASSUME NEW f \in Files, Examine(f) PROVE Kept
    <3>1. entries[f] = None
      BY <2>4 DEF Examine, Undecided, PhaseInv
    <3>2. \/ entries' = entries
          \/ \E sha, chg, reason : Record(f, sha, chg, reason)
      BY <2>4, Zenon DEF Examine
    <3> QED
      BY <2>1, <3>1, <3>2
  <2>5. CASE \/ SkipUser \/ MatchUser \/ NextUser
             \/ UsersDone \/ RegistryDone \/ \E k \in RegistryKeys : ReadKey(k)
             \/ Assemble \/ WriteManifest \/ WriteCustody \/ WriteZip \/ Exit
             \/ Crash \/ \E f \in Files : AgentStep(f)
    BY <2>5 DEF SkipUser, MatchUser, NextUser, UsersDone, RegistryDone, ReadKey,
       Assemble, WriteManifest, WriteCustody, WriteZip, Exit, Crash, AgentStep
  <2> QED
    BY <1>1, <2>2, <2>3, <2>4, <2>5 DEF Next, RunStep
<1>2. IInv /\ [Next]_vars => [Kept]_vars
  BY <1>1
<1> QED
  BY <1>2, Invariance, PTL DEF DecidedOnce, Spec

(* ------------------------------------------------------------- secrets -- *)

(* Where the bytes under files/ come from: a run that is no dry run has    *)
(* the directory for itself, and until it ends only the path being copied  *)
(* has bytes and no entry.                                                 *)
SecretInv ==
    /\ pc # "idle" /\ ~args.dryRun => outUsed
    /\ pc \in FilePhases => ~args.dryRun
    /\ \A f \in Files : stored[f] # None => outUsed /\ ~args.dryRun
    /\ \A f \in Files :
          pc # "idle" /\ stored[f] # None /\ entries[f] = None =>
             f = cur /\ pc \in {"copy", "utime"}
    /\ pc \in {"copy_open", "copy", "utime"} => ~Withheld(matches[cur])
    /\ SecretsStayOut

(* An entry keeps out the bytes of a path that a secret entry claims. *)
LEMMA RecordKeepsSecret ==
    ASSUME TypeOK, SecretInv, pc # "idle", user <= MaxUsers,
           NEW f \in Files, matches[f] # {},
           pc \in {"copy", "utime"} => f = cur,
           NEW sha \in Seq(Nat) \cup {None}, NEW chg \in BOOLEAN,
           NEW reason \in Reasons \cup {None}, Record(f, sha, chg, reason),
           stored[f] # None => ~Withheld(matches[f]),
           pc' = "files", UNCHANGED <<stored, outUsed, args, matches>>
    PROVE  SecretInv'
<1>1. entries' = [entries EXCEPT ![f] = EntryOf(f, sha, chg, reason)]
      /\ EntryOf(f, sha, chg, reason).claimants = matches[f]
  BY DEF Record, EntryOf
<1>2. EntryOf(f, sha, chg, reason) # None
  <2>1. Primary(matches[f]) \in Artifacts
    BY PrimaryType DEF TypeOK, WalkTypeOK
  <2>2. user \in 1..MaxUsers
    BY CollectorAssumption DEF TypeOK, WalkTypeOK
  <2>3. EntryOf(f, sha, chg, reason) \in Entry
    BY <2>1, <2>2 DEF EntryOf, Entry, TypeOK, WalkTypeOK
  <2> QED
    BY <2>3, NoneIsNoEntry
<1>3. \A g \in Files : entries'[g] = IF g = f THEN EntryOf(f, sha, chg, reason)
                                     ELSE entries[g]
  BY <1>1 DEF TypeOK, RecordTypeOK
<1>4. SecretsStayOut'
  BY <1>1, <1>2, <1>3 DEF SecretInv, SecretsStayOut, Withheld
<1> QED
  BY <1>1, <1>2, <1>3, <1>4 DEF SecretInv

(* Until it is copied, a path that has no entry has no bytes. *)
LEMMA GiveUpKeepsSecret ==
    ASSUME TypeOK, PhaseInv, SecretInv, pc \in FilePhases,
           NEW sha \in Seq(Nat) \cup {None}, NEW chg \in BOOLEAN,
           NEW reason \in Reasons \cup {None}, Record(cur, sha, chg, reason),
           pc' = "files", UNCHANGED <<stored, outUsed, args, matches>>
    PROVE  SecretInv'
<1>1. cur \in Files /\ matches[cur] # {} /\ entries[cur] = None
      /\ user <= MaxUsers
  BY CollectorAssumption DEF PhaseInv, TypeOK, WalkTypeOK
<1>2. stored[cur] # None => ~Withheld(matches[cur])
  BY <1>1 DEF SecretInv
<1> QED
  BY <1>1, <1>2, RecordKeepsSecret

(* A step on the file at hand copies no secret.                            *)
LEMMA FileStepKeepsSecret ==
    ASSUME TypeOK, PhaseInv, SecretInv, FileStep
    PROVE  SecretInv'
<1>0. /\ "unreadable" \in Reasons /\ "secret_policy" \in Reasons
      /\ digest \in Seq(Nat) /\ changed \in BOOLEAN
      /\ stored \in [Files -> Seq(Nat) \cup {None}]
  BY DEF Reasons, TypeOK, WalkTypeOK, BundleTypeOK
<1>1. CASE OpenToHash
  BY <1>1 DEF OpenToHash, SecretInv, SecretsStayOut, Withheld
<1>2. CASE OpenToHashFails
  BY <1>0, <1>2, GiveUpKeepsSecret DEF OpenToHashFails, GiveUp
<1>3. CASE HashBlock
  BY <1>3 DEF HashBlock, SecretInv, SecretsStayOut, Withheld
<1>4. CASE HashEnd
  BY <1>4 DEF HashEnd, SecretInv, SecretsStayOut, Withheld
<1>5. CASE HashFails
  BY <1>0, <1>5, GiveUpKeepsSecret DEF HashFails, GiveUp
<1>6. CASE Restat
  <2>1. PICK chg \in BOOLEAN :
          /\ \/ /\ Record(cur, digest, chg, "secret_policy")
                /\ pc' = "files"
             \/ /\ ~Withheld(matches[cur])
                /\ pc' = "copy_open" /\ UNCHANGED recordVars
          /\ pc = "restat" /\ UNCHANGED stored
          /\ FileFrame
    BY <1>6, Zenon DEF Restat
  <2>2. CASE Record(cur, digest, chg, "secret_policy") /\ pc' = "files"
    BY <1>0, <2>1, <2>2, GiveUpKeepsSecret
  <2>3. CASE ~Withheld(matches[cur]) /\ pc' = "copy_open" /\ UNCHANGED recordVars
    BY <2>1, <2>3 DEF SecretInv, SecretsStayOut, Withheld
  <2> QED
    BY <2>1, <2>2, <2>3
<1>7. CASE OpenToCopy
  <2>1. /\ pc = "copy_open" /\ pc' = "copy" /\ cur \in Files
        /\ \A g \in Files \ {cur} : stored'[g] = stored[g]
        /\ UNCHANGED <<cur, entries, args, matches, outUsed>>
    BY <1>0, <1>7 DEF OpenToCopy, PhaseInv
  <2>2. entries[cur] = None /\ ~Withheld(matches[cur]) /\ ~args.dryRun /\ outUsed
    BY <2>1 DEF PhaseInv, SecretInv
  <2>3. SecretsStayOut'
    BY <2>1, <2>2 DEF SecretInv, SecretsStayOut, Withheld
  <2> QED
    BY <2>1, <2>2, <2>3 DEF SecretInv, Withheld
<1>8. CASE OpenToCopyFails
  BY <1>0, <1>8, GiveUpKeepsSecret DEF OpenToCopyFails, GiveUp
<1>9. CASE CopyBlock
  <2>1. /\ pc = "copy" /\ pc' = "copy" /\ cur \in Files
        /\ \A g \in Files \ {cur} : stored'[g] = stored[g]
        /\ UNCHANGED <<cur, entries, args, matches, outUsed>>
    BY <1>0, <1>9 DEF CopyBlock, PhaseInv
  <2>2. entries[cur] = None /\ ~Withheld(matches[cur]) /\ ~args.dryRun /\ outUsed
    BY <2>1 DEF PhaseInv, SecretInv
  <2>3. SecretsStayOut'
    BY <2>1, <2>2 DEF SecretInv, SecretsStayOut, Withheld
  <2> QED
    BY <2>1, <2>2, <2>3 DEF SecretInv, Withheld
<1>10. CASE CopyEnd
  BY <1>10 DEF CopyEnd, SecretInv, SecretsStayOut, Withheld
<1>11. CASE CopyFails
  BY <1>0, <1>11, GiveUpKeepsSecret DEF CopyFails, GiveUp
<1>12. CASE FinishCopy
  BY <1>0, <1>12, GiveUpKeepsSecret DEF FinishCopy
<1> QED
  BY <1>1, <1>2, <1>3, <1>4, <1>5, <1>6, <1>7, <1>8, <1>9, <1>10, <1>11,
     <1>12 DEF FileStep

(* So does beginning a file.                                               *)
LEMMA ExamineKeepsSecret ==
    ASSUME TypeOK, PhaseInv, SecretInv, NEW f \in Files, Examine(f)
    PROVE  SecretInv'
<1>1. /\ pc = "files" /\ user <= MaxUsers /\ matches[f] # {} /\ entries[f] = None
      /\ UNCHANGED <<stored, outUsed, args, matches>>
  BY CollectorAssumption
     DEF Examine, Undecided, Matched, PhaseInv, TypeOK, WalkTypeOK
<1>2. \/ \E reason \in Reasons : Record(f, None, FALSE, reason)
                                /\ UNCHANGED <<pc, cur>>
      \/ cur' = f /\ pc' = "open" /\ ~args.dryRun /\ UNCHANGED recordVars
  <2>1. "unreadable" \in Reasons
    BY DEF Reasons
  <2> QED
    BY <2>1, Zenon DEF Examine
<1>3. stored[f] = None
  BY <1>1 DEF SecretInv
<1>4. ASSUME NEW reason \in Reasons, Record(f, None, FALSE, reason),
             UNCHANGED <<pc, cur>>
      PROVE  SecretInv'
  BY <1>1, <1>3, <1>4, RecordKeepsSecret
<1>5. CASE cur' = f /\ pc' = "open" /\ ~args.dryRun /\ UNCHANGED recordVars
  BY <1>1, <1>5 DEF SecretInv, SecretsStayOut, Withheld
<1> QED
  BY <1>2, <1>4, <1>5

(* No other step touches what was copied of a secret.                      *)
LEMMA WalkKeepsSecret ==
    ASSUME TypeOK, PhaseInv, SecretInv,
           \/ RefuseOut \/ Invoke \/ SkipUser \/ MatchUser \/ NextUser
           \/ UsersDone \/ RegistryDone \/ \E k \in RegistryKeys : ReadKey(k)
           \/ Assemble \/ WriteManifest \/ WriteCustody \/ WriteZip \/ Exit
           \/ Crash \/ \E f \in Files : AgentStep(f)
    PROVE  SecretInv'
<1>1. CASE Invoke
  <2>1. \A f \in Files : stored[f] = None
    BY <1>1 DEF Invoke, OutIsFree, SecretInv
  <2> QED
    BY <1>1, <2>1 DEF Invoke, OutIsFree, SecretInv, SecretsStayOut, TypeOK,
       BundleTypeOK
<1>2. CASE MatchUser
  BY <1>2 DEF MatchUser, SecretInv, SecretsStayOut
<1>3. CASE RefuseOut \/ \E f \in Files : AgentStep(f)
  BY <1>3 DEF RefuseOut, AgentStep, SecretInv, SecretsStayOut, Withheld
<1>4. CASE SkipUser \/ NextUser \/ UsersDone \/ RegistryDone
           \/ \E k \in RegistryKeys : ReadKey(k)
  <2>1. /\ UNCHANGED <<stored, entries, matches, args, outUsed, cur>>
        /\ pc \notin FilePhases \cup {"idle"} /\ pc' \notin FilePhases \cup {"idle"}
    BY <1>4 DEF SkipUser, NextUser, UsersDone, RegistryDone, ReadKey
  <2> QED
    BY <2>1 DEF SecretInv, SecretsStayOut
<1>5. CASE Assemble \/ WriteManifest \/ WriteCustody \/ WriteZip \/ Exit \/ Crash
  <2>1. /\ UNCHANGED <<stored, entries, matches, args, outUsed, cur>>
        /\ pc # "idle" /\ pc' \notin FilePhases
        /\ pc' = "idle" \/ pc \notin FilePhases
    BY <1>5 DEF Assemble, WriteManifest, WriteCustody, WriteZip, Exit, Crash
  <2> QED
    BY <2>1 DEF SecretInv, SecretsStayOut
<1> QED
  BY <1>1, <1>2, <1>3, <1>4, <1>5

(* The inductive invariant of the secrets.                                 *)
LEMMA SecretInvariance == Spec => []SecretInv
<1>1. Init => SecretInv
  BY DEF Init, SecretInv, SecretsStayOut, NoEntries
<1>2. IInv /\ SecretInv /\ [Next]_vars => SecretInv'
  <2> SUFFICES ASSUME IInv, SecretInv, [Next]_vars PROVE SecretInv'
    OBVIOUS
  <2>1. TypeOK /\ PhaseInv
    BY DEF IInv
  <2>2. CASE UNCHANGED vars
    BY <2>2 DEF SecretInv, SecretsStayOut, Withheld
  <2> QED
    BY <2>1, <2>2, FileStepKeepsSecret, ExamineKeepsSecret, WalkKeepsSecret
       DEF Next, RunStep
<1> QED
  BY <1>1, <1>2, Invariance, PTL DEF Spec

(* Without --include-secrets no byte of a path that a secret entry claims  *)
(* is ever under files/, whichever entry the manifest lists it under, and  *)
(* whether the run ends, fails on the path or is killed.                   *)
THEOREM SecretsHeldBack == Spec => []SecretsStayOut
<1>1. SecretInv => SecretsStayOut
  BY DEF SecretInv
<1> QED
  BY <1>1, SecretInvariance, PTL

-----------------------------------------------------------------------------

(* The bundle that a collection leaves.                                    *)

(* --------------------------------------------------------- invariants -- *)

(* A directory in use is never written by a second run. *)
WriterInv ==
    /\ args.dryRun => ~outUsed
    /\ ~outUsed => writers = {}
    /\ IsFiniteSet(writers)
    /\ OneRunPerBundle

(* Within a run every path that was taken up has its entry, but for the    *)
(* one that is being read, and every failure has its error.                *)
DropInv ==
    /\ pc # "idle" =>
          \A f \in seen : entries[f] = None => f = cur /\ pc \in FilePhases
    /\ \A f \in Files :
          entries[f] # None /\ entries[f].reason = "unreadable" =>
              [path |-> f, error |-> "unreadable"] \in errors

(* How far the end of a run is, and what it has written by then.  After a  *)
(* crash the run is past the walk if the manifest is whole.                *)
Walked == Matched \subseteq seen /\ \A f \in seen : entries[f] # None

BundleInv ==
    /\ ~outUsed => manifest = "none" /\ custody = "none" /\ regStored = {}
    /\ pc \notin FilePhases \cup {"files", "idle"} => Matched \subseteq seen
    /\ pc \notin {"manifest", "custody", "zip", "exit", "idle"} =>
          manifest = "none"
    /\ pc \notin {"custody", "zip", "exit", "idle"} =>
          manifest # "whole" /\ custody = "none"
    /\ pc \in {"manifest", "custody", "zip"} => ~args.dryRun
    /\ pc \in {"custody", "zip", "exit"} /\ ~args.dryRun => manifest = "whole"
    /\ pc \in {"zip", "exit"} /\ ~args.dryRun => custody = "whole"
    /\ manifest = "whole" =>
          Walked /\ listed.files = entries /\ listed.registry = registry
    /\ ~args.dryRun =>
          regStored = {k \in RegistryKeys : registry[k] = "collected"}

(* A path nobody wrote to since it was examined still has the stamp of     *)
(* that moment, so all that is read of it is what it holds.                *)
QuietInv ==
    /\ pc \notin {"copy_open", "copy", "utime"} => ~changed
    /\ pc \in FilePhases /\ cur \notin touched => Unmoved /\ ~changed
    /\ pc \in {"copy_open", "copy", "utime"} /\ cur \notin touched =>
          digest = Content(cur)
    /\ pc = "copy" /\ cur \notin touched =>
          /\ fd = inode[cur]
          /\ Len(stored[cur]) <= Len(data[fd])
          /\ \A k \in 1..Len(stored[cur]) : stored[cur][k] = data[fd][k]
    /\ pc = "utime" /\ cur \notin touched => stored[cur] = Content(cur)
    /\ \A f \in Files \ touched :
          entries[f] # None /\ entries[f].sha # None => Present(f)
    /\ QuietFileIsExact

(* What an entry says of the bytes beside it, and what is known when main  *)
(* has returned the code of a completed collection.                        *)
Told ==
    \A f \in Files : entries[f] # None =>
        /\ entries[f].collected <=> entries[f].reason = None
        /\ entries[f].collected => entries[f].sha # None
        /\ stored[f] # None /\ ~entries[f].collected =>
              entries[f].reason = "unreadable"

EndInv ==
    /\ Told
    /\ exit \in {0, 1, 3} /\ ~args.dryRun =>
          /\ pc = "idle" /\ manifest = "whole" /\ custody = "whole"
          /\ \A f \in Files : stored[f] # None => entries[f] # None

(* The frames and the groups of variables, expanded everywhere below. *)
USE DEF vars, collectorVars, endpointVars, bundleVars, fileVars, recordVars,
        walkVars, inputVars, runVars, historyVars, FileFrame, WriteFrame,
        FilePhases, WriteStates

(* ------------------------------------------------ one run per bundle --- *)

(* Only run() creates files/, and only for a run that is no dry run. *)
LEMMA OnlyInvokeWrites ==
    ASSUME [Next]_vars
    PROVE  Invoke \/ UNCHANGED <<args, outUsed, writers>>
<1>1. CASE RefuseOut \/ SkipUser \/ MatchUser \/ NextUser \/ UsersDone
           \/ RegistryDone \/ \E k \in RegistryKeys : ReadKey(k)
  BY <1>1 DEF RefuseOut, SkipUser, MatchUser, NextUser, UsersDone,
     RegistryDone, ReadKey
<1>2. CASE Assemble \/ WriteManifest \/ WriteCustody \/ WriteZip \/ Exit
           \/ Crash \/ UNCHANGED vars
  BY <1>2 DEF Assemble, WriteManifest, WriteCustody, WriteZip, Exit, Crash
<1>3. CASE FileStep
  BY <1>3 DEF FileStep, OpenToHash, OpenToHashFails, HashBlock, HashEnd,
     HashFails, Restat, OpenToCopy, OpenToCopyFails, CopyBlock, CopyEnd,
     CopyFails, FinishCopy, GiveUp
<1>4. CASE \E f \in Files : Examine(f) \/ AgentStep(f)
  BY <1>4 DEF Examine, AgentStep
<1> QED
  BY <1>1, <1>2, <1>3, <1>4 DEF Next, RunStep

(* The inductive invariant of who writes the bundle.                       *)
LEMMA WriterInvariance == Spec => []WriterInv
<1>1. Init => WriterInv
  BY FS_EmptySet DEF Init, WriterInv, OneRunPerBundle
<1>2. WriterInv /\ [Next]_vars => WriterInv'
  <2> SUFFICES ASSUME WriterInv, [Next]_vars PROVE WriterInv'
    OBVIOUS
  <2>1. CASE UNCHANGED <<args, outUsed, writers>>
    BY <2>1 DEF WriterInv, OneRunPerBundle
  <2>2. CASE Invoke /\ args.dryRun
    BY <2>2 DEF Invoke, WriterInv, OneRunPerBundle
  <2>3. CASE Invoke /\ ~args.dryRun
    <3>1. writers' = {run + 1} /\ outUsed' /\ args' = args
      BY <2>3 DEF Invoke, OutIsFree, WriterInv
    <3>2. IsFiniteSet(writers') /\ Cardinality(writers') = 1
      BY <3>1, FS_Singleton
    <3> QED
      BY <2>3, <3>1, <3>2 DEF WriterInv, OneRunPerBundle
  <2> QED
    BY <2>1, <2>2, <2>3, OnlyInvokeWrites
<1> QED
  BY <1>1, <1>2, PTL DEF Spec

(* Whatever a run left in --out, whether it ended or was killed, no other  *)
(* run writes there: the directory is in use from the first mkdir on.      *)
THEOREM OneRunWrites == Spec => []OneRunPerBundle
<1>1. WriterInv => OneRunPerBundle
  BY DEF WriterInv
<1> QED
  BY <1>1, WriterInvariance, PTL

(* ------------------------------------------------- nothing is dropped -- *)

(* An entry that Record adds is one, and says what was recorded. *)
LEMMA RecordedEntry ==
    ASSUME TypeOK, user <= MaxUsers,
           NEW f \in Files, matches[f] # {}, NEW sha \in Seq(Nat) \cup {None},
           NEW chg \in BOOLEAN, NEW reason \in Reasons \cup {None},
           Record(f, sha, chg, reason)
    PROVE  /\ \A g \in Files \ {f} : entries'[g] = entries[g]
           /\ entries'[f] # None
           /\ entries'[f].sha = sha
           /\ entries'[f].collected = (reason = None)
           /\ entries'[f].reason = reason
           /\ entries'[f].changed = chg
           /\ errors' = IF reason = "unreadable"
                        THEN errors \cup {[path |-> f, error |-> "unreadable"]}
                        ELSE errors
           /\ registry' = registry
<1>1. Primary(matches[f]) \in Artifacts
  BY PrimaryType DEF TypeOK, WalkTypeOK
<1>2. user \in 1..MaxUsers
  BY CollectorAssumption DEF TypeOK, WalkTypeOK
<1>3. EntryOf(f, sha, chg, reason) \in Entry
  BY <1>1, <1>2 DEF EntryOf, Entry, TypeOK, WalkTypeOK
<1>4. entries'[f] = EntryOf(f, sha, chg, reason)
  BY DEF Record, TypeOK, RecordTypeOK
<1>5. entries'[f] # None
  BY <1>3, <1>4, NoneIsNoEntry
<1> QED
  BY <1>4, <1>5 DEF Record, EntryOf, TypeOK, RecordTypeOK

(* The phases of a file end with its entry, or leave all entries alone. *)
LEMMA FileStepRecords ==
    ASSUME TypeOK, PhaseInv, FileStep
    PROVE  /\ pc \in FilePhases /\ cur \in Files /\ matches[cur] # {}
           /\ user <= MaxUsers
           /\ FileFrame
           /\ \/ /\ pc' \in FilePhases /\ UNCHANGED recordVars
              \/ /\ pc' = "files"
                 /\ \E sha \in Seq(Nat) \cup {None}, chg \in BOOLEAN,
                       reason \in Reasons \cup {None} :
                         Record(cur, sha, chg, reason)
<1>1. pc \in FilePhases
  BY DEF FileStep, OpenToHash, OpenToHashFails, HashBlock, HashEnd,
     HashFails, Restat, OpenToCopy, OpenToCopyFails, CopyBlock, CopyEnd,
     CopyFails, FinishCopy
<1>2. cur \in Files /\ matches[cur] # {} /\ user <= MaxUsers
  BY <1>1, CollectorAssumption DEF PhaseInv, TypeOK, WalkTypeOK
<1>3. FileFrame
  BY DEF FileStep, OpenToHash, OpenToHashFails, HashBlock, HashEnd,
     HashFails, Restat, OpenToCopy, OpenToCopyFails, CopyBlock, CopyEnd,
     CopyFails, FinishCopy, GiveUp
<1>4. "unreadable" \in Reasons /\ "secret_policy" \in Reasons
      /\ digest \in Seq(Nat) /\ changed \in BOOLEAN
  BY DEF Reasons, TypeOK, WalkTypeOK
<1>5. \/ /\ pc' \in FilePhases /\ UNCHANGED recordVars
      \/ /\ pc' = "files"
         /\ \E sha \in Seq(Nat) \cup {None}, chg \in BOOLEAN,
               reason \in Reasons \cup {None} :
                 Record(cur, sha, chg, reason)
  <2>1. CASE OpenToHash \/ HashBlock \/ HashEnd \/ OpenToCopy \/ CopyBlock
             \/ CopyEnd
    BY <2>1 DEF OpenToHash, HashBlock, HashEnd, OpenToCopy, CopyBlock, CopyEnd
  <2>2. CASE OpenToHashFails \/ HashFails
    BY <1>4, <2>2 DEF OpenToHashFails, HashFails, GiveUp
  <2>3. CASE OpenToCopyFails \/ CopyFails \/ FinishCopy
    BY <1>4, <2>3 DEF OpenToCopyFails, CopyFails, FinishCopy, GiveUp
  <2>4. CASE Restat
    BY <1>4, <2>4, Zenon DEF Restat
  <2> QED
    BY <2>1, <2>2, <2>3, <2>4 DEF FileStep
<1> QED
  BY <1>1, <1>2, <1>3, <1>5

(* lstat ends with an entry too, or takes the path up to be read. *)
LEMMA ExamineRecords ==
    ASSUME TypeOK, PhaseInv, NEW f \in Files, Examine(f)
    PROVE  /\ pc = "files" /\ f \notin seen /\ f \in Matched
           /\ entries[f] = None /\ matches[f] # {} /\ user <= MaxUsers
           /\ seen' = seen \cup {f} /\ touched' = touched \ {f}
           /\ UNCHANGED <<endpointVars, inputVars, user, matches, fd, digest,
                          changed, bundleVars, runVars, restatted, held>>
           /\ \/ /\ \E reason \in Reasons : Record(f, None, FALSE, reason)
                 /\ UNCHANGED <<pc, cur, st>>
              \/ /\ Present(f) /\ cur' = f /\ st' = mtime[inode[f]]
                 /\ pc' = "open" /\ ~args.dryRun /\ UNCHANGED recordVars
<1>1. /\ pc = "files" /\ f \notin seen /\ f \in Matched
      /\ entries[f] = None /\ matches[f] # {} /\ user <= MaxUsers
      /\ seen' = seen \cup {f} /\ touched' = touched \ {f}
      /\ UNCHANGED <<endpointVars, inputVars, user, matches, fd, digest,
                     changed, bundleVars, runVars, restatted, held>>
  BY CollectorAssumption
     DEF Examine, Undecided, Matched, PhaseInv, TypeOK, WalkTypeOK
<1>2. \/ /\ \E reason \in Reasons : Record(f, None, FALSE, reason)
         /\ UNCHANGED <<pc, cur, st>>
      \/ /\ Present(f) /\ cur' = f /\ st' = mtime[inode[f]]
         /\ pc' = "open" /\ ~args.dryRun /\ UNCHANGED recordVars
  <2>1. "unreadable" \in Reasons
    BY DEF Reasons
  <2> QED
    BY <2>1, Zenon DEF Examine
<1> QED
  BY <1>1, <1>2


(* Recording a file makes it one that is accounted for.                    *)
LEMMA RecordKeepsDrop ==
    ASSUME TypeOK, DropInv, pc # "idle", user <= MaxUsers,
           NEW f \in Files, matches[f] # {}, NEW sha \in Seq(Nat) \cup {None},
           NEW chg \in BOOLEAN, NEW reason \in Reasons \cup {None},
           Record(f, sha, chg, reason), pc \in FilePhases => cur = f,
           seen' \in {seen, seen \cup {f}}, pc' = "files"
    PROVE  DropInv'
<1>1. /\ \A g \in Files \ {f} : entries'[g] = entries[g]
      /\ entries'[f] # None /\ entries'[f].reason = reason
      /\ errors' = IF reason = "unreadable"
                   THEN errors \cup {[path |-> f, error |-> "unreadable"]}
                   ELSE errors
  BY RecordedEntry
<1>2. (pc # "idle" =>
         \A g \in seen : entries[g] = None => g = cur /\ pc \in FilePhases)'
  BY <1>1 DEF DropInv, TypeOK, WalkTypeOK
<1>3. (\A g \in Files :
          entries[g] # None /\ entries[g].reason = "unreadable" =>
              [path |-> g, error |-> "unreadable"] \in errors)'
  BY <1>1 DEF DropInv
<1> QED
  BY <1>2, <1>3 DEF DropInv

(* Every step keeps a matched file accounted for or yet to come.           *)
LEMMA DropStep ==
    ASSUME TypeOK, PhaseInv, DropInv, [Next]_vars
    PROVE  DropInv'
<1>1. CASE FileStep
  <2>1. /\ pc \in FilePhases /\ cur \in Files /\ matches[cur] # {}
        /\ user <= MaxUsers /\ UNCHANGED <<seen, cur>>
    BY <1>1, FileStepRecords
  <2>2. CASE pc' \in FilePhases /\ UNCHANGED recordVars
    BY <2>1, <2>2 DEF DropInv
  <2>3. ASSUME NEW sha \in Seq(Nat) \cup {None}, NEW chg \in BOOLEAN,
               NEW reason \in Reasons \cup {None},
               Record(cur, sha, chg, reason), pc' = "files"
        PROVE  DropInv'
    BY <2>1, <2>3, RecordKeepsDrop
  <2> QED
    BY <1>1, <2>2, <2>3, FileStepRecords
<1>2. ASSUME NEW f \in Files, Examine(f)
      PROVE  DropInv'
  <2>1. /\ pc = "files" /\ matches[f] # {} /\ user <= MaxUsers
        /\ seen' = seen \cup {f}
    BY <1>2, ExamineRecords
  <2>2. CASE cur' = f /\ pc' = "open" /\ UNCHANGED recordVars
    BY <2>1, <2>2 DEF DropInv
  <2>3. ASSUME NEW reason \in Reasons, Record(f, None, FALSE, reason), pc' = pc
        PROVE  DropInv'
    BY <2>1, <2>3, RecordKeepsDrop
  <2> QED
    BY <1>2, <2>2, <2>3, ExamineRecords
<1>3. CASE Invoke
  BY <1>3 DEF Invoke, NoEntries, DropInv
<1>4. CASE MatchUser
  <2>1. /\ errors \subseteq errors' /\ pc = "users" /\ pc' = "files"
        /\ UNCHANGED <<entries, seen>>
    BY <1>4, Zenon DEF MatchUser
  <2> QED
    BY <2>1 DEF DropInv
<1>5. CASE RefuseOut \/ SkipUser \/ NextUser \/ UsersDone
           \/ RegistryDone \/ \E k \in RegistryKeys : ReadKey(k)
  BY <1>5 DEF RefuseOut, SkipUser, NextUser, UsersDone, RegistryDone, ReadKey,
     DropInv
<1>6. CASE Assemble \/ WriteManifest \/ WriteCustody \/ WriteZip \/ Exit
           \/ Crash \/ UNCHANGED vars \/ \E f \in Files : AgentStep(f)
  <2>1. UNCHANGED <<entries, errors, seen, cur>>
        /\ (pc' = pc \/ pc' = "idle" \/ pc \notin FilePhases \cup {"idle"})
    BY <1>6 DEF Assemble, WriteManifest, WriteCustody, WriteZip, Exit, Crash,
       AgentStep
  <2> QED
    BY <2>1 DEF DropInv
<1> QED
  BY <1>1, <1>2, <1>3, <1>4, <1>5, <1>6 DEF Next, RunStep

(* The inductive invariant of what is accounted for.                       *)
LEMMA DropInvariance == Spec => []DropInv
<1>1. Init => DropInv
  BY DEF Init, DropInv, NoEntries
<1>2. IInv /\ DropInv /\ [Next]_vars => DropInv'
  BY DropStep DEF IInv
<1> QED
  BY <1>1, <1>2, Invariance, PTL DEF Spec

(* No early return of collect_file loses a path: whatever the system calls *)
(* do, a path that was taken up has an entry when the next one is, and an  *)
(* entry that reports a failure has its error.                             *)
THEOREM NothingIsDropped == Spec => []NothingDropped
<1>1. IInv /\ DropInv => NothingDropped
  BY DEF IInv, TypeOK, WalkTypeOK, DropInv, NothingDropped
<1> QED
  BY <1>1, Invariance, DropInvariance, PTL

(* ------------------------------------------- what a whole manifest is -- *)

(* The steps before the manifest is written: there is none yet. *)
LEMMA WalkKeepsBundle ==
    ASSUME TypeOK, PhaseInv, WriterInv, SecretInv, DropInv, BundleInv,
           \/ Invoke \/ SkipUser \/ MatchUser \/ NextUser \/ FileStep
           \/ \E f \in Files : Examine(f)
    PROVE  BundleInv'
<1>1. CASE Invoke
  BY <1>1 DEF Invoke, OutIsFree, NoRegistry, NoMatches, Matched, BundleInv,
     WriterInv
<1>2. CASE SkipUser \/ NextUser
  BY <1>2 DEF SkipUser, NextUser, Matched, BundleInv
<1>3. CASE MatchUser
  BY <1>3 DEF MatchUser, BundleInv
<1>4. CASE FileStep
  <2>1. /\ pc \in FilePhases /\ pc' \in FilePhases \cup {"files"}
        /\ registry' = registry /\ FileFrame
    BY <1>4, FileStepRecords DEF Record
  <2> QED
    BY <2>1 DEF BundleInv
<1>5. ASSUME NEW f \in Files, Examine(f) PROVE BundleInv'
  <2>1. /\ pc = "files" /\ pc' \in FilePhases \cup {"files"}
        /\ registry' = registry /\ UNCHANGED <<args, bundleVars>>
    BY <1>5, ExamineRecords DEF Record
  <2> QED
    BY <2>1 DEF BundleInv
<1> QED
  BY <1>1, <1>2, <1>3, <1>4, <1>5

(* The steps after the walk, and those that are none of the collector's. *)
LEMMA EndKeepsBundle ==
    ASSUME TypeOK, PhaseInv, SecretInv, DropInv, BundleInv,
           \/ RefuseOut \/ UsersDone \/ RegistryDone
           \/ \E k \in RegistryKeys : ReadKey(k)
           \/ Assemble \/ WriteManifest \/ WriteCustody \/ WriteZip \/ Exit
           \/ Crash \/ UNCHANGED vars \/ \E f \in Files : AgentStep(f)
    PROVE  BundleInv'
<1>1. CASE UsersDone \/ RegistryDone
  BY <1>1 DEF UsersDone, RegistryDone, Matched, BundleInv
<1>2. ASSUME NEW k \in RegistryKeys, ReadKey(k) PROVE BundleInv'
  <2>1. /\ pc = "registry" /\ pc' = pc /\ registry[k] = "unread"
        /\ UNCHANGED <<args, matches, seen, outUsed, manifest, custody>>
    BY <1>2 DEF ReadKey
  <2>2. ~args.dryRun => outUsed
    BY <2>1 DEF SecretInv
  <2>3. PICK there \in BOOLEAN :
          /\ registry' = [registry EXCEPT ![k] =
                             IF there THEN "collected" ELSE "absent"]
          /\ regStored' = IF there /\ ~args.dryRun
                          THEN regStored \cup {k} ELSE regStored
    BY <1>2, Zenon DEF ReadKey
  <2>4. ~args.dryRun =>
          regStored' = {j \in RegistryKeys : registry'[j] = "collected"}
    BY <2>1, <2>3 DEF BundleInv, TypeOK, RecordTypeOK
  <2>5. (~outUsed => manifest = "none" /\ custody = "none" /\ regStored = {})'
    BY <2>1, <2>2, <2>3 DEF BundleInv
  <2> QED
    BY <2>1, <2>4, <2>5 DEF Matched, BundleInv
<1>3. CASE Assemble
  BY <1>3 DEF Assemble, Matched, BundleInv
<1>4. CASE WriteManifest
  <2>1. Walked /\ outUsed
    BY <1>4 DEF WriteManifest, Walked, BundleInv, DropInv, SecretInv
  <2> QED
    BY <1>4, <2>1 DEF WriteManifest, Walked, Matched, BundleInv
<1>5. CASE WriteCustody
  BY <1>5 DEF WriteCustody, Walked, Matched, BundleInv, SecretInv
<1>6. CASE WriteZip \/ Exit
  BY <1>6 DEF WriteZip, Exit, Walked, Matched, BundleInv
<1>7. CASE Crash
  BY <1>7 DEF Crash, Walked, Matched, BundleInv
<1>8. CASE RefuseOut \/ UNCHANGED vars \/ \E f \in Files : AgentStep(f)
  BY <1>8 DEF RefuseOut, AgentStep, Walked, Matched, BundleInv
<1> QED
  BY <1>1, <1>2, <1>3, <1>4, <1>5, <1>6, <1>7, <1>8


(* The inductive invariant of what the manifest says of the bundle.        *)
LEMMA BundleInvariance == Spec => []BundleInv
<1>1. Init => BundleInv
  BY DEF Init, BundleInv, NoRegistry, NoMatches, Matched
<1>2. IInv /\ WriterInv /\ SecretInv /\ DropInv /\ BundleInv /\ [Next]_vars
      => BundleInv'
  BY WalkKeepsBundle, EndKeepsBundle DEF IInv, Next, RunStep
<1> QED
  BY <1>1, <1>2, Invariance, WriterInvariance, SecretInvariance, DropInvariance,
     PTL DEF Spec

(* However a run was cut short, a bundle that verify finds intact is a     *)
(* whole one: it is not possible for a crash to leave a manifest that      *)
(* passes and lists less than was matched.                                 *)
THEOREM VerifiedIsWhole == Spec => []VerifiedBundleIsWhole
<1>1. IInv /\ BundleInv => VerifiedBundleIsWhole
  <2> SUFFICES ASSUME IInv, BundleInv, manifest = "whole"
               PROVE  /\ pc \in {"zip", "exit", "idle", "custody"}
                      /\ listed.files = entries /\ listed.registry = registry
                      /\ \A f \in seen \cup Matched : listed.files[f] # None
    BY DEF Verifies, VerifiedBundleIsWhole
  <2> QED
    BY DEF BundleInv, Walked, IInv, TypeOK, WalkTypeOK
<1> QED
  BY <1>1, Invariance, BundleInvariance, PTL


(* ------------------------------------------------------- quiet files --- *)

(* An entry is exact when what it records is. *)
LEMMA RecordKeepsQuiet ==
    ASSUME TypeOK, QuietInv, user <= MaxUsers,
           NEW f \in Files, matches[f] # {}, NEW sha \in Seq(Nat) \cup {None},
           NEW chg \in BOOLEAN, NEW reason \in Reasons \cup {None},
           Record(f, sha, chg, reason), pc' = "files", ~changed',
           touched' \in {touched, touched \ {f}},
           UNCHANGED <<endpointVars, stored>>,
           f \notin touched' =>
              /\ ~chg
              /\ sha # None => Present(f) /\ sha = Content(f)
              /\ reason = None => stored[f] = sha
    PROVE  QuietInv'
<1>1. /\ \A g \in Files \ {f} : entries'[g] = entries[g]
      /\ entries'[f].sha = sha /\ entries'[f].changed = chg
      /\ entries'[f].collected = (reason = None)
  BY RecordedEntry
<1>2. QuietFileIsExact'
  BY <1>1 DEF QuietInv, QuietFileIsExact, Content
<1>3. (\A g \in Files \ touched :
          entries[g] # None /\ entries[g].sha # None => Present(g))'
  BY <1>1 DEF QuietInv, Present
<1> QED
  BY <1>2, <1>3 DEF QuietInv

(* Each read of the copy takes the next block of what the path holds. *)
LEMMA CopyBlockKeepsQuiet ==
    ASSUME TypeOK, PhaseInv, QuietInv, CopyBlock
    PROVE  QuietInv'
<1>1. /\ pc = "copy" /\ pc' = pc /\ cur \in Files /\ fd \in Inodes
      /\ entries[cur] = None /\ stored[cur] \in Seq(Nat)
      /\ data[fd] \in Seq(Nat) /\ ~(Len(stored[cur]) >= Len(data[fd]))
      /\ \A g \in Files \ {cur} : stored'[g] = stored[g]
      /\ stored'[cur] = Append(stored[cur], data[fd][Len(stored[cur]) + 1])
      /\ UNCHANGED <<endpointVars, cur, st, fd, digest, changed, touched, entries>>
  BY DEF CopyBlock, AtEnd, PhaseInv, TypeOK, BundleTypeOK, EndpointTypeOK
<1>2. /\ Len(stored'[cur]) = Len(stored[cur]) + 1
      /\ \A k \in 1..Len(stored'[cur]) :
            stored'[cur][k] = IF k <= Len(stored[cur]) THEN stored[cur][k]
                              ELSE data[fd][Len(stored[cur]) + 1]
  BY <1>1
<1>3. ASSUME cur \notin touched
      PROVE  /\ fd = inode[cur]
             /\ Len(stored'[cur]) <= Len(data[fd])
             /\ \A k \in 1..Len(stored'[cur]) : stored'[cur][k] = data[fd][k]
  <2>1. /\ fd = inode[cur]
        /\ \A k \in 1..Len(stored[cur]) : stored[cur][k] = data[fd][k]
    BY <1>1, <1>3 DEF QuietInv
  <2>2. Len(stored'[cur]) <= Len(data[fd])
    BY <1>1, <1>2
  <2>3. ASSUME NEW k \in 1..Len(stored'[cur])
        PROVE  stored'[cur][k] = data[fd][k]
    <3>1. CASE k <= Len(stored[cur])
      BY <1>1, <1>2, <2>1, <3>1, SMTT(30)
    <3>2. CASE k = Len(stored[cur]) + 1
      BY <1>1, <1>2, <3>2
    <3> QED
      BY <1>1, <1>2, <3>1, <3>2
  <2> QED
    BY <2>1, <2>2, <2>3
<1>4. QuietFileIsExact'
  BY <1>1 DEF QuietInv, QuietFileIsExact, Content
<1> QED
  BY <1>1, <1>3, <1>4 DEF QuietInv, Unmoved, Present, Content

(* A step on a file that no one writes to keeps its copy the file.         *)
LEMMA FileStepKeepsQuiet ==
    ASSUME TypeOK, PhaseInv, HashInv, QuietInv, FileStep
    PROVE  QuietInv'
<1>0. /\ "unreadable" \in Reasons /\ "secret_policy" \in Reasons
      /\ None \notin Reasons
      /\ digest \in Seq(Nat) /\ changed \in BOOLEAN
      /\ pc \in FilePhases /\ cur \in Files /\ matches[cur] # {}
      /\ user <= MaxUsers /\ entries[cur] = None
  BY NoneIsNoReason, FileStepRecords
     DEF Reasons, TypeOK, WalkTypeOK, PhaseInv
<1>1. CASE OpenToHash \/ HashBlock
  BY <1>1 DEF OpenToHash, HashBlock, QuietInv, QuietFileIsExact, Unmoved,
     Present, Content
<1>2. CASE HashEnd
  BY <1>2 DEF HashEnd, QuietInv, QuietFileIsExact, Unmoved, Present, Content
<1>3. CASE OpenToHashFails \/ HashFails
  <2>1. Record(cur, None, changed, "unreadable") /\ pc' = "files" /\ ~changed'
        /\ UNCHANGED <<endpointVars, stored, touched>>
        /\ pc \notin {"copy_open", "copy", "utime"}
    BY <1>3 DEF OpenToHashFails, HashFails, GiveUp
  <2> QED
    BY <1>0, <2>1, RecordKeepsQuiet DEF QuietInv
<1>4. CASE Restat
  <2>1. PICK chg \in BOOLEAN :
          /\ chg = StatDiffers \/ ~chg
          /\ \/ /\ Record(cur, digest, chg, "secret_policy")
                /\ pc' = "files" /\ changed' = FALSE
             \/ /\ pc' = "copy_open" /\ changed' = chg
                /\ UNCHANGED <<digest, recordVars>>
          /\ pc = "restat" /\ UNCHANGED stored
          /\ FileFrame
    BY <1>4, Zenon DEF Restat
  <2>2. cur \notin touched => Present(cur) /\ Unmoved /\ ~chg
                             /\ digest = Content(cur)
    BY <2>1 DEF QuietInv, HashInv, StatDiffers, Unmoved
  <2>3. CASE Record(cur, digest, chg, "secret_policy") /\ pc' = "files"
             /\ changed' = FALSE
    BY <1>0, <2>1, <2>2, <2>3, RecordKeepsQuiet
  <2>4. CASE pc' = "copy_open" /\ changed' = chg /\ UNCHANGED <<digest, recordVars>>
    BY <2>1, <2>2, <2>4 DEF QuietInv, QuietFileIsExact, Unmoved, Present, Content
  <2> QED
    BY <2>1, <2>3, <2>4
<1>5. CASE OpenToCopy
  <2>1. /\ pc = "copy_open" /\ pc' = "copy" /\ fd' = inode[cur]
        /\ \A g \in Files \ {cur} : stored'[g] = stored[g]
        /\ stored'[cur] = <<>> /\ Present(cur)
        /\ UNCHANGED <<endpointVars, cur, st, digest, changed, touched, entries>>
    BY <1>0, <1>5 DEF OpenToCopy, TypeOK, BundleTypeOK
  <2>2. QuietFileIsExact'
    BY <1>0, <2>1 DEF QuietInv, QuietFileIsExact, Content
  <2>3. inode[cur] \in Inodes /\ Len(data[inode[cur]]) \in Nat
    BY <1>0, <2>1 DEF Present, TypeOK, EndpointTypeOK
  <2> QED
    BY <2>1, <2>2, <2>3 DEF QuietInv, Unmoved, Present, Content
<1>6. CASE OpenToCopyFails \/ CopyFails
  <2>1. Record(cur, digest, changed, "unreadable") /\ pc' = "files" /\ ~changed'
        /\ UNCHANGED <<endpointVars, stored, touched>>
        /\ pc \in {"copy_open", "copy", "utime"}
    BY <1>6 DEF OpenToCopyFails, CopyFails, GiveUp
  <2>2. cur \notin touched => ~changed /\ Present(cur) /\ digest = Content(cur)
    BY <2>1 DEF QuietInv, Unmoved
  <2> QED
    BY <1>0, <2>1, <2>2, RecordKeepsQuiet
<1>7. CASE CopyBlock
  BY <1>7, CopyBlockKeepsQuiet
<1>8. CASE CopyEnd
  <2>1. /\ pc = "copy" /\ pc' = "utime" /\ fd \in Inodes
        /\ stored[cur] \in Seq(Nat) /\ data[fd] \in Seq(Nat)
        /\ Len(stored[cur]) >= Len(data[fd])
        /\ UNCHANGED <<endpointVars, cur, st, digest, changed, touched, entries,
                       stored>>
    BY <1>0, <1>8
       DEF CopyEnd, AtEnd, PhaseInv, TypeOK, BundleTypeOK, EndpointTypeOK
  <2>2. ASSUME cur \notin touched PROVE stored[cur] = Content(cur)
    <3>1. /\ fd = inode[cur]
          /\ Len(stored[cur]) <= Len(data[fd])
          /\ \A k \in 1..Len(stored[cur]) : stored[cur][k] = data[fd][k]
      BY <2>1, <2>2 DEF QuietInv
    <3>2. Len(stored[cur]) = Len(data[fd])
      BY <2>1, <3>1
    <3> QED
      BY <2>1, <3>1, <3>2, SeqEqual DEF Content
  <2> QED
    BY <2>1, <2>2 DEF QuietInv, QuietFileIsExact, Unmoved, Present, Content
<1>9. CASE FinishCopy
  <2>1. Record(cur, digest, changed, None) /\ pc' = "files" /\ ~changed'
        /\ UNCHANGED <<endpointVars, stored, touched>> /\ pc = "utime"
    BY <1>9 DEF FinishCopy
  <2>2. cur \notin touched => /\ ~changed /\ Present(cur)
                             /\ digest = Content(cur) /\ stored[cur] = digest
    BY <2>1 DEF QuietInv, Unmoved
  <2> QED
    BY <1>0, <2>1, <2>2, RecordKeepsQuiet
<1> QED
  BY <1>1, <1>2, <1>3, <1>4, <1>5, <1>6, <1>7, <1>8, <1>9 DEF FileStep

(* So does beginning a file.                                               *)
LEMMA ExamineKeepsQuiet ==
    ASSUME TypeOK, PhaseInv, QuietInv, NEW f \in Files, Examine(f)
    PROVE  QuietInv'
<1>1. /\ pc = "files" /\ matches[f] # {} /\ user <= MaxUsers
      /\ entries[f] = None /\ touched' = touched \ {f} /\ ~changed'
      /\ UNCHANGED <<endpointVars, stored>>
  BY ExamineRecords DEF QuietInv
<1>2. ASSUME NEW reason \in Reasons, Record(f, None, FALSE, reason), pc' = pc
      PROVE  QuietInv'
  BY <1>1, <1>2, NoneIsNoReason, RecordKeepsQuiet
<1>3. CASE /\ Present(f) /\ cur' = f /\ st' = mtime[inode[f]]
           /\ pc' = "open" /\ UNCHANGED recordVars
  BY <1>1, <1>3 DEF QuietInv, QuietFileIsExact, Unmoved, Present, Content
<1> QED
  BY <1>2, <1>3, ExamineRecords

(* A write of the agent ends what was known of that file only.             *)
LEMMA AgentKeepsQuiet ==
    ASSUME TypeOK, PhaseInv, EndpointInv, QuietInv, NEW f \in Files, AgentStep(f)
    PROVE  QuietInv'
<1>1. Isolated(f) /\ touched' = touched \cup {f} /\ UNCHANGED collectorVars
  BY AgentIsolated DEF AgentStep
<1>2. \A g \in Files : g \notin touched' /\ Present(g) =>
          /\ inode'[g] = inode[g] /\ data'[inode[g]] = data[inode[g]]
          /\ mtime'[inode[g]] = mtime[inode[g]]
  BY <1>1 DEF Isolated
<1>3. (\A g \in Files \ touched :
          entries[g] # None /\ entries[g].sha # None => Present(g))'
  BY <1>1, <1>2 DEF QuietInv, Present
<1>4. QuietFileIsExact'
  BY <1>1, <1>2 DEF QuietInv, QuietFileIsExact, Content
<1>5. pc \in FilePhases => cur \in Files
  BY DEF PhaseInv
<1>6. ASSUME pc \in FilePhases, cur \notin touched'
      PROVE  /\ cur \notin touched /\ Unmoved /\ Unmoved' /\ ~changed
             /\ inode'[cur] = inode[cur] /\ data'[inode[cur]] = data[inode[cur]]
  BY <1>1, <1>2, <1>5, <1>6 DEF QuietInv, Unmoved, Present
<1> QED
  BY <1>1, <1>3, <1>4, <1>6 DEF QuietInv, Content

(* No other step touches a copy.                                           *)
LEMMA WalkKeepsQuiet ==
    ASSUME TypeOK, QuietInv,
           \/ RefuseOut \/ Invoke \/ SkipUser \/ MatchUser \/ NextUser
           \/ UsersDone \/ RegistryDone \/ \E k \in RegistryKeys : ReadKey(k)
           \/ Assemble \/ WriteManifest \/ WriteCustody \/ WriteZip \/ Exit
           \/ Crash
    PROVE  QuietInv'
<1>1. /\ UNCHANGED <<endpointVars, stored, touched>>
      /\ pc' \notin FilePhases /\ ~changed'
  BY DEF RefuseOut, Invoke, SkipUser, MatchUser, NextUser, UsersDone,
     RegistryDone, ReadKey, Assemble, WriteManifest, WriteCustody, WriteZip,
     Exit, Crash, QuietInv
<1>2. entries' = entries \/ entries' = NoEntries
  BY DEF RefuseOut, Invoke, SkipUser, MatchUser, NextUser, UsersDone,
     RegistryDone, ReadKey, Assemble, WriteManifest, WriteCustody, WriteZip,
     Exit, Crash
<1> QED
  BY <1>1, <1>2 DEF QuietInv, QuietFileIsExact, NoEntries, Present, Content

(* The inductive invariant of the files no one writes to.                  *)
LEMMA QuietInvariance == Spec => []QuietInv
<1>1. Init => QuietInv
  BY DEF Init, QuietInv, QuietFileIsExact, NoEntries
<1>2. IInv /\ QuietInv /\ [Next]_vars => QuietInv'
  <2> SUFFICES ASSUME IInv, QuietInv, [Next]_vars PROVE QuietInv'
    OBVIOUS
  <2>1. TypeOK /\ PhaseInv /\ EndpointInv /\ HashInv
    BY DEF IInv
  <2>2. CASE UNCHANGED vars
    BY <2>2 DEF QuietInv, QuietFileIsExact, Unmoved, Present, Content
  <2> QED
    BY <2>1, <2>2, FileStepKeepsQuiet, ExamineKeepsQuiet, AgentKeepsQuiet,
       WalkKeepsQuiet DEF Next, RunStep
<1> QED
  BY <1>1, <1>2, Invariance, PTL DEF Spec

(* A path that nobody wrote to since it was examined is described exactly, *)
(* however many others are written while it is read: it is not flagged,    *)
(* and both its hash and its copy are its content.                         *)
THEOREM QuietIsExact == Spec => []QuietFileIsExact
<1>1. QuietInv => QuietFileIsExact
  BY DEF QuietInv
<1> QED
  BY <1>1, QuietInvariance, PTL


(* ------------------------------------------- a quiet bundle verifies -- *)

(* An entry tells of the bytes beside it what it recorded. *)
LEMMA RecordKeepsTold ==
    ASSUME TypeOK, Told, user <= MaxUsers,
           NEW f \in Files, matches[f] # {}, NEW sha \in Seq(Nat) \cup {None},
           NEW chg \in BOOLEAN, NEW reason \in Reasons \cup {None},
           Record(f, sha, chg, reason), UNCHANGED stored,
           reason = None => sha # None,
           stored[f] # None => reason \in {None, "unreadable"}
    PROVE  Told'
<1>1. /\ \A g \in Files \ {f} : entries'[g] = entries[g]
      /\ entries'[f].sha = sha /\ entries'[f].reason = reason
      /\ entries'[f].collected = (reason = None)
  BY RecordedEntry
<1> QED
  BY <1>1 DEF Told

(* A step on the file at hand keeps what has been told of the errors so    *)
(* far.                                                                    *)
LEMMA FileStepKeepsTold ==
    ASSUME TypeOK, PhaseInv, SecretInv, Told, FileStep
    PROVE  Told'
<1>0. /\ "unreadable" \in Reasons /\ "secret_policy" \in Reasons
      /\ digest \in Seq(Nat) /\ digest # None /\ changed \in BOOLEAN
      /\ pc \in FilePhases /\ cur \in Files /\ matches[cur] # {}
      /\ user <= MaxUsers /\ entries[cur] = None
  BY FileStepRecords, EndpointAssumption
     DEF Reasons, TypeOK, WalkTypeOK, PhaseInv
<1>1. CASE OpenToHash \/ HashBlock \/ HashEnd \/ CopyEnd
  BY <1>1 DEF OpenToHash, HashBlock, HashEnd, CopyEnd, Told
<1>2. CASE OpenToCopy \/ CopyBlock
  <2>1. entries' = entries /\ \A g \in Files \ {cur} : stored'[g] = stored[g]
    BY <1>0, <1>2 DEF OpenToCopy, CopyBlock, TypeOK, BundleTypeOK
  <2> QED
    BY <1>0, <2>1 DEF Told
<1>3. CASE OpenToHashFails \/ HashFails
  <2>1. Record(cur, None, changed, "unreadable") /\ UNCHANGED stored
    BY <1>3 DEF OpenToHashFails, HashFails, GiveUp
  <2> QED
    BY <1>0, <2>1, RecordKeepsTold, NoneIsNoReason
<1>4. CASE OpenToCopyFails \/ CopyFails
  <2>1. Record(cur, digest, changed, "unreadable") /\ UNCHANGED stored
    BY <1>4 DEF OpenToCopyFails, CopyFails, GiveUp
  <2> QED
    BY <1>0, <2>1, RecordKeepsTold
<1>5. CASE FinishCopy
  BY <1>0, <1>5, RecordKeepsTold DEF FinishCopy
<1>6. CASE Restat
  <2>1. PICK chg \in BOOLEAN :
          /\ \/ Record(cur, digest, chg, "secret_policy")
             \/ UNCHANGED recordVars
          /\ pc = "restat" /\ UNCHANGED stored
    BY <1>6, Zenon DEF Restat
  <2>2. stored[cur] = None
    BY <1>0, <2>1 DEF SecretInv
  <2>3. CASE Record(cur, digest, chg, "secret_policy")
    BY <1>0, <2>1, <2>2, <2>3, RecordKeepsTold
  <2>4. CASE UNCHANGED recordVars
    BY <2>1, <2>4 DEF Told
  <2> QED
    BY <2>1, <2>3, <2>4
<1> QED
  BY <1>1, <1>2, <1>3, <1>4, <1>5, <1>6 DEF FileStep

(* So does beginning a file.                                               *)
LEMMA ExamineKeepsTold ==
    ASSUME TypeOK, PhaseInv, SecretInv, Told, NEW f \in Files, Examine(f)
    PROVE  Told'
<1>1. /\ pc = "files" /\ matches[f] # {} /\ user <= MaxUsers
      /\ entries[f] = None /\ UNCHANGED stored
  BY ExamineRecords
<1>2. stored[f] = None
  BY <1>1 DEF SecretInv
<1>3. ASSUME NEW reason \in Reasons, Record(f, None, FALSE, reason)
      PROVE  Told'
  BY <1>1, <1>2, <1>3, NoneIsNoReason, RecordKeepsTold
<1>4. CASE UNCHANGED recordVars
  BY <1>1, <1>4 DEF Told
<1> QED
  BY <1>3, <1>4, ExamineRecords

(* Every step keeps the exit code what the collection came to.             *)
LEMMA EndStep ==
    ASSUME IInv, SecretInv, BundleInv, EndInv, [Next]_vars
    PROVE  EndInv'
<1>0. TypeOK /\ PhaseInv /\ Told
  BY DEF IInv, EndInv
<1>1. CASE FileStep
  <2>1. pc # "idle" /\ UNCHANGED <<exit, args>>
    BY <1>0, <1>1, FileStepRecords
  <2> QED
    BY <1>0, <1>1, <2>1, FileStepKeepsTold DEF EndInv
<1>2. ASSUME NEW f \in Files, Examine(f) PROVE EndInv'
  <2>1. pc # "idle" /\ UNCHANGED <<exit, args>>
    BY <1>0, <1>2, ExamineRecords
  <2> QED
    BY <1>0, <1>2, <2>1, ExamineKeepsTold DEF EndInv
<1>3. CASE Invoke
  BY <1>3, NoneIsNoExitCode DEF Invoke, NoEntries, EndInv, Told
<1>4. CASE SkipUser \/ MatchUser \/ NextUser \/ UsersDone \/ RegistryDone
           \/ \E k \in RegistryKeys : ReadKey(k)
  <2>1. pc # "idle" /\ UNCHANGED <<exit, args, entries, stored>>
    BY <1>4 DEF SkipUser, MatchUser, NextUser, UsersDone, RegistryDone, ReadKey
  <2> QED
    BY <2>1 DEF EndInv, Told
<1>5. CASE Assemble \/ WriteManifest \/ WriteCustody \/ WriteZip \/ Crash
  <2>1. pc # "idle" /\ UNCHANGED <<exit, args, entries, stored>>
    BY <1>5 DEF Assemble, WriteManifest, WriteCustody, WriteZip, Crash
  <2> QED
    BY <2>1 DEF EndInv, Told
<1>6. CASE Exit
  <2>1. \A f \in Files : stored[f] # None => entries[f] # None
    BY <1>6 DEF Exit, SecretInv
  <2>2. ~args.dryRun => manifest = "whole" /\ custody = "whole"
    BY <1>6 DEF Exit, BundleInv
  <2> QED
    BY <1>6, <2>1, <2>2 DEF Exit, EndInv, Told
<1>7. CASE RefuseOut \/ UNCHANGED vars \/ \E f \in Files : AgentStep(f)
  <2>1. /\ UNCHANGED <<pc, args, entries, stored, manifest, custody>>
        /\ exit' \in {exit, 2}
    BY <1>7 DEF RefuseOut, AgentStep
  <2> QED
    BY <2>1 DEF EndInv, Told
<1> QED
  BY <1>1, <1>2, <1>3, <1>4, <1>5, <1>6, <1>7 DEF Next, RunStep

(* The inductive invariant of the exit.                                    *)
LEMMA EndInvariance == Spec => []EndInv
<1>1. Init => EndInv
  BY NoneIsNoExitCode DEF Init, EndInv, Told, NoEntries
<1>2. IInv /\ SecretInv /\ BundleInv /\ EndInv /\ [Next]_vars => EndInv'
  BY EndStep
<1> QED
  BY <1>1, <1>2, Invariance, SecretInvariance, BundleInvariance, PTL DEF Spec

(* When main returns the code of a completed collection, nothing was       *)
(* written meanwhile to a path it took up and no copy was given up, verify *)
(* finds the bundle intact: no missing, changed or unlisted file.          *)
THEOREM QuietVerifies == Spec => []QuietBundleVerifies
<1>1. IInv /\ BundleInv /\ QuietInv /\ EndInv => QuietBundleVerifies
  <2> SUFFICES ASSUME IInv, BundleInv, QuietInv, EndInv,
                      exit \in {0, 1, 3}, ~args.dryRun,
                      \A f \in seen :
                         /\ f \notin touched
                         /\ entries[f].reason = "unreadable" => stored[f] = None
               PROVE  Verifies
    BY DEF QuietBundleVerifies
  <2>1. /\ manifest = "whole" /\ custody = "whole"
        /\ \A f \in Files : stored[f] # None => entries[f] # None
        /\ listed.files = entries /\ listed.registry = registry
        /\ regStored = {k \in RegistryKeys : registry[k] = "collected"}
    BY DEF EndInv, BundleInv
  <2>2. ASSUME NEW f \in Files, entries[f] # None
        PROVE  /\ entries[f].collected =>
                    stored[f] = entries[f].sha /\ stored[f] # None
               /\ stored[f] # None => entries[f].collected
    <3>1. f \in seen /\ f \notin touched
      BY <2>2 DEF IInv, PhaseInv
    <3>2. entries[f].collected => stored[f] = entries[f].sha
      BY <2>2, <3>1 DEF QuietInv, QuietFileIsExact
    <3> QED
      BY <2>2, <3>1, <3>2 DEF EndInv, Told
  <2>3. Missing = {} /\ Mismatched = {} /\ Unexpected = {}
    BY <2>1, <2>2 DEF Missing, Mismatched, Unexpected, Expected
  <2>4. MissingKeys = {} /\ UnexpectedKeys = {}
    BY <2>1 DEF MissingKeys, UnexpectedKeys, ExpectedKeys
  <2> QED
    BY <2>1, <2>3, <2>4 DEF Verifies
<1> QED
  BY <1>1, Invariance, BundleInvariance, QuietInvariance, EndInvariance, PTL
=============================================================================
