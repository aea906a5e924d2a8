--------------------------- MODULE FileServerProofs ---------------------------
(***************************************************************************)
(* Theorems about the static file server and the browser's copy of a page, *)
(* for a clock of any resolution and versions of any number and length.    *)
(***************************************************************************)
EXTENDS FileServer, SequenceTheorems, TLAPS

(* What was opened is an inode, and the condition of the request is the    *)
(* date of the copy, for as long as it matters.                            *)
Asked == /\ pc \in {"header", "send"} => fd # 0
         /\ pc \in {"exists", "validate"} => since \in {NoDate, cache.modified}

(* A response that nobody disturbed is of one version: the one that was    *)
(* opened, which is still read from the open file until all of it is read. *)
OfVersion(v) == /\ length = versions[v].length
                /\ modified = versions[v].mtime \div Second
                /\ \A i \in 1 .. Len(body) : body[i] = v
                /\ Len(body) < length => nodes[fd] = v

Seen == quiet =>
    /\ pc = "header" => /\ path = fd
                        /\ length = versions[nodes[fd]].length
    /\ pc = "send" => \E v \in DOMAIN versions : OfVersion(v)

IInv == TypeOK /\ Asked /\ Seen /\ CopyWholeUnlessOverlapped

-----------------------------------------------------------------------------
(* Whole seconds do not run backwards.                                     *)
LEMMA SecondsMonotone ==
  ASSUME NEW a \in Nat, NEW b \in Nat, a <= b
  PROVE  /\ a \div Second \in Nat
         /\ a \div Second <= b \div Second
<1> DEFINE q == a \div Second
           r == b \div Second
<1>0. Second \in Nat \ {0}
  BY FileAssumption
<1>1. q \in Nat /\ Second * q <= a
  BY <1>0, SMT
<1>2. r \in Nat /\ b < Second * (r + 1)
  BY <1>0, SMT
<1>3. q >= r + 1 => Second * q >= Second * (r + 1)
  BY <1>0, <1>1, <1>2, SMT
<1> QED
  BY <1>0, <1>1, <1>2, <1>3

(* Since 1970 at least one second has passed.                              *)
LEMMA SecondsPositive ==
  ASSUME NEW a \in Nat, Second <= a PROVE a \div Second >= 1
<1>1. Second \in Nat \ {0} /\ Second \div Second = 1
  BY FileAssumption
<1> QED
  BY <1>1, SecondsMonotone

(* What is known of a disk.                                                *)
LEMMA DiskFacts ==
  ASSUME DiskOK
  PROVE  /\ now \in Nat /\ Second <= now /\ now <= MaxTime
         /\ Len(versions) \in Nat /\ Len(nodes) \in Nat
         /\ DOMAIN versions = 1 .. Len(versions)
         /\ DOMAIN nodes = 1 .. Len(nodes)
         /\ \A v \in DOMAIN versions :
                /\ versions[v].length \in 1 .. MaxChunks
                /\ versions[v].mtime \in Nat
                /\ Second <= versions[v].mtime /\ versions[v].mtime <= now
         /\ \A n \in DOMAIN nodes : nodes[n] \in DOMAIN versions
<1>1. now \in Nat /\ Second <= now /\ now <= MaxTime
  BY FileAssumption DEF DiskOK
<1>2. /\ Len(versions) \in Nat /\ Len(nodes) \in Nat
      /\ DOMAIN versions = 1 .. Len(versions)
      /\ DOMAIN nodes = 1 .. Len(nodes)
      /\ \A v \in DOMAIN versions : versions[v] \in Version
      /\ \A n \in DOMAIN nodes : nodes[n] \in DOMAIN versions
  BY DEF DiskOK
<1>3. ASSUME NEW v \in DOMAIN versions
      PROVE  /\ versions[v].length \in 1 .. MaxChunks
             /\ versions[v].mtime \in Nat
             /\ Second <= versions[v].mtime /\ versions[v].mtime <= now
  <2>1. versions[v] \in Version /\ versions[v].mtime <= now
    BY <1>2 DEF DiskOK
  <2> QED
    BY <2>1, FileAssumption DEF Version
<1> QED
  BY <1>1, <1>2, <1>3

(* The invariant holds at first.                                           *)
LEMMA InitIInv == Init => IInv
<1> SUFFICES ASSUME Init PROVE IInv
  OBVIOUS
<1>1. DiskOK
  <2>1. PICK n \in 1 .. MaxChunks : versions = <<[length |-> n, mtime |-> now]>>
    BY DEF Init
  <2>2. [length |-> n, mtime |-> now] \in Version
    BY FileAssumption DEF Init, Version
  <2>3. /\ versions \in Seq(Version) /\ Len(versions) = 1
        /\ DOMAIN versions = {1} /\ versions[1].mtime = now
    BY <2>1, <2>2
  <2>4. nodes = <<1>> /\ path = 1 /\ now = Second
    BY DEF Init
  <2> QED
    BY <2>3, <2>4, FileAssumption DEF DiskOK
<1> USE FileAssumption
<1>2. HandlerOK
  BY DEF Init, HandlerOK, Dates, NoDate
<1>3. CacheOK
  BY DEF Init, CacheOK, NoCopy, Dates, NoDate
<1>4. Asked /\ Seen /\ CopyWholeUnlessOverlapped
  BY DEF Init, Asked, Seen, CopyWholeUnlessOverlapped
<1> QED
  BY <1>1, <1>2, <1>3, <1>4 DEF IInv, TypeOK

(* A version that has been installed stays what it is.                     *)
LEMMA DiskInductive ==
  DiskOK /\ [Next]_vars =>
      /\ DiskOK'
      /\ now <= now'
      /\ Len(versions) <= Len(versions') /\ Len(nodes) <= Len(nodes')
      /\ \A v \in DOMAIN versions : versions'[v] = versions[v]
<1> DEFINE Goal == /\ DiskOK'
                   /\ now <= now'
                   /\ Len(versions) <= Len(versions')
                   /\ Len(nodes) <= Len(nodes')
                   /\ \A v \in DOMAIN versions : versions'[v] = versions[v]
<1> SUFFICES ASSUME DiskOK, [Next]_vars PROVE Goal
  OBVIOUS
<1>0. /\ now \in Nat /\ Second <= now /\ now <= MaxTime
      /\ Len(versions) \in Nat /\ Len(nodes) \in Nat
      /\ DOMAIN versions = 1 .. Len(versions)
      /\ DOMAIN nodes = 1 .. Len(nodes)
      /\ \A v \in DOMAIN versions :
                versions[v].mtime \in Nat /\ versions[v].mtime <= now
  BY DiskFacts
<1> USE FileAssumption
<1>1. CASE UNCHANGED diskVars
  BY <1>0, <1>1 DEF diskVars, DiskOK
<1>2. CASE Tick
  <2>1. UNCHANGED <<versions, nodes, path>> /\ now' = now + 1 /\ now < MaxTime
    BY <1>2 DEF Tick
  <2>2. \A v \in DOMAIN versions : versions[v].mtime <= now'
    BY <1>0, <2>1
  <2>3. now' \in Second .. MaxTime
    BY <1>0, <2>1
  <2> QED
    BY <1>0, <2>1, <2>2, <2>3 DEF DiskOK
<1>3. CASE Install
  <2>1. PICK n \in 1 .. MaxChunks :
            versions' = Append(versions, [length |-> n, mtime |-> now])
    BY <1>3 DEF Install
  <2> DEFINE new == [length |-> n, mtime |-> now]
  <2>2. /\ now' = now
        /\ new \in Version
        /\ Len(versions) < MaxVersions
    BY <1>0, <1>3 DEF Install, Version
  <2>3. versions \in Seq(Version) /\ nodes \in Seq(DOMAIN versions)
        /\ path \in {0} \cup DOMAIN nodes
    BY DEF DiskOK
  <2>4. /\ versions' \in Seq(Version)
        /\ Len(versions') = Len(versions) + 1
        /\ DOMAIN versions' = 1 .. Len(versions) + 1
        /\ \A v \in DOMAIN versions : versions'[v] = versions[v]
        /\ versions'[Len(versions) + 1] = new
    BY <2>1, <2>2, <2>3
  <2>5. \A v \in DOMAIN versions' : versions'[v].mtime <= now'
    BY <1>0, <2>2, <2>4
  <2>6. DOMAIN versions \subseteq DOMAIN versions'
        /\ Len(versions') \in DOMAIN versions'
    BY <1>0, <2>4
  <2>7. nodes \in Seq(DOMAIN versions')
    BY <2>3, <2>6, SeqMonotonic
  <2>10. /\ now' \in Second .. MaxTime /\ now <= now'
         /\ versions' \in Seq(Version)
         /\ Len(versions') \in 1 .. MaxVersions
         /\ Len(versions) <= Len(versions')
         /\ \A v \in DOMAIN versions' : versions'[v].mtime <= now'
         /\ \A v \in DOMAIN versions : versions'[v] = versions[v]
    BY <1>0, <2>2, <2>4, <2>5
  <2>8. CASE /\ path # 0
             /\ nodes' = [nodes EXCEPT ![path] = Len(versions')]
             /\ UNCHANGED path
    <3>1. path \in 1 .. Len(nodes)
      BY <1>0, <2>3, <2>8
    <3>2. Len(nodes') = Len(nodes) /\ nodes' \in Seq(DOMAIN versions')
      BY <2>6, <2>7, <2>8, <3>1, ExceptSeq
    <3>3. path' \in {0} \cup DOMAIN nodes'
      BY <2>8, <3>1, <3>2
    <3> QED
      BY <2>10, <3>2, <3>3 DEF DiskOK
  <2>9. CASE /\ nodes' = Append(nodes, Len(versions'))
             /\ path' = Len(nodes')
    <3>1. Len(nodes') = Len(nodes) + 1 /\ nodes' \in Seq(DOMAIN versions')
      BY <2>6, <2>7, <2>9
    <3>2. path' \in {0} \cup DOMAIN nodes'
      BY <1>0, <2>9, <3>1
    <3> QED
      BY <2>10, <3>1, <3>2 DEF DiskOK
  <2> QED
    BY <1>3, <2>8, <2>9 DEF Install
<1>4. CASE Delete
  BY <1>0, <1>4 DEF Delete, DiskOK
<1> QED
  BY <1>1, <1>2, <1>3, <1>4 DEF Next, World, Handler, vars, Break,
     messageReceived, CheckExists, sendNotModified, CannotValidate, Open,
     setDateAndCacheHeaders, SendChunk, EndOfFile, EndContent

(* The dates of yesterday are dates today.                                 *)
LEMMA DatesGrow ==
  ASSUME DiskOK, DiskOK', now <= now' PROVE Dates \subseteq Dates'
<1>1. now \in Nat /\ now' \in Nat
  BY FileAssumption DEF DiskOK
<1>2. /\ now \div Second \in Nat /\ now' \div Second \in Nat
      /\ now \div Second <= now' \div Second
  BY <1>1, SecondsMonotone
<1>3. 0 .. now \div Second \subseteq 0 .. now' \div Second
  BY <1>2
<1> QED
  BY <1>3 DEF Dates, NoDate

(* The file's date is one of them, and past 1970 if there is a file.       *)
LEMMA LastModifiedIsDate ==
  ASSUME DiskOK
  PROVE  /\ LastModifiedSeconds \in 0 .. now \div Second
         /\ LastModifiedSeconds >= 1 <=> path # 0
<1>1. now \in Nat
  BY DiskFacts
<1>2. now \div Second \in Nat
  BY <1>1, SecondsMonotone
<1>3. CASE path = 0
  BY <1>2, <1>3 DEF LastModifiedSeconds
<1>4. CASE path # 0
  <2>1. nodes[path] \in DOMAIN versions
    BY <1>4, DiskFacts DEF DiskOK
  <2> DEFINE t == Current.mtime
  <2>2. t \in Nat /\ Second <= t /\ t <= now
    BY <2>1, DiskFacts DEF Current
  <2> HIDE DEF t
  <2>3. t \div Second \in Nat /\ t \div Second <= now \div Second
    BY <1>1, <2>2, SecondsMonotone
  <2>4. t \div Second >= 1
    BY <2>2, SecondsPositive
  <2>5. LastModifiedSeconds = t \div Second
    BY <1>4 DEF LastModifiedSeconds, t
  <2> QED
    BY <1>2, <1>4, <2>3, <2>4, <2>5
<1> QED
  BY <1>3, <1>4

(* What a handler holds of its request stays true.                         *)
LEMMA HandlerInductive ==
  DiskOK /\ HandlerOK /\ CacheOK /\ Asked /\ [Next]_vars => HandlerOK' /\ Asked'
<1> SUFFICES ASSUME DiskOK, HandlerOK, CacheOK, Asked, [Next]_vars
             PROVE  HandlerOK' /\ Asked'
  OBVIOUS
<1>1. /\ DiskOK' /\ now <= now'
      /\ Len(versions) <= Len(versions') /\ Len(nodes) <= Len(nodes')
  BY DiskInductive
<1>2. /\ Dates \subseteq Dates'
      /\ DOMAIN versions \subseteq DOMAIN versions'
      /\ DOMAIN nodes \subseteq DOMAIN nodes'
  BY <1>1, DatesGrow DEF DiskOK
<1>3. Seq(DOMAIN versions) \subseteq Seq(DOMAIN versions')
  BY <1>2
<1> USE DEF HandlerOK, Asked, Goto, diskVars
<1>4. CASE UNCHANGED <<handlerVars, cache, quiet>>
  BY <1>2, <1>3, <1>4 DEF handlerVars
<1>5. CASE Install \/ Delete
  BY <1>2, <1>3, <1>5 DEF Install, Delete, handlerVars
<1>6. CASE Break
  BY <1>2, <1>3, <1>6 DEF Break
<1>7. CASE messageReceived
  BY <1>2, <1>3, <1>7 DEF messageReceived, Dates, CacheOK
<1>8. CASE CheckExists \/ sendNotModified \/ CannotValidate
  BY <1>2, <1>3, <1>8 DEF CheckExists, sendNotModified, CannotValidate
<1>9. CASE Open
  <2>1. CASE path = 0
    BY <1>2, <1>3, <1>9, <2>1 DEF Open
  <2>2. CASE path # 0
    <3>1. nodes[path] \in DOMAIN versions
      BY <2>2, DiskFacts DEF DiskOK
    <3>2. Current.length \in 0 .. MaxChunks
      BY <3>1, DiskFacts, FileAssumption DEF Current
    <3> QED
      BY <1>2, <1>3, <1>9, <2>2, <3>2 DEF Open, DiskOK
  <2> QED
    BY <2>1, <2>2
<1>10. CASE setDateAndCacheHeaders
  BY <1>2, <1>3, <1>10, FileAssumption, LastModifiedIsDate
     DEF setDateAndCacheHeaders, Dates
<1>11. CASE SendChunk
  <2>1. nodes[fd] \in DOMAIN versions
    BY <1>11 DEF SendChunk, DiskOK
  <2>2. /\ body' = Append(body, nodes[fd])
        /\ UNCHANGED <<diskVars, pc, since, fd, length, modified, cache, quiet>>
        /\ Len(body) < length
    BY <1>11 DEF SendChunk
  <2>3. body' \in Seq(DOMAIN versions') /\ Len(body') = Len(body) + 1
    BY <2>1, <2>2
  <2>4. Len(body') <= MaxChunks
    BY <2>2, <2>3, FileAssumption
  <2> QED
    BY <1>2, <2>2, <2>3, <2>4
<1>12. CASE EndOfFile \/ EndContent
  BY <1>2, <1>3, <1>12 DEF EndOfFile, EndContent
<1> QED
  BY <1>4, <1>5, <1>6, <1>7, <1>8, <1>9, <1>10, <1>11, <1>12
     DEF Next, World, Handler, vars, Tick

(* A copy and its date stay those of what was sent.                        *)
LEMMA CacheInductive ==
  DiskOK /\ HandlerOK /\ CacheOK /\ [Next]_vars => CacheOK'
<1> SUFFICES ASSUME DiskOK, HandlerOK, CacheOK, [Next]_vars PROVE CacheOK'
  OBVIOUS
<1>1. DiskOK' /\ now <= now' /\ Len(versions) <= Len(versions')
  BY DiskInductive
<1>2. /\ Dates \subseteq Dates'
      /\ DOMAIN versions \subseteq DOMAIN versions'
  BY <1>1, DatesGrow DEF DiskOK
<1>3. Seq(DOMAIN versions) \subseteq Seq(DOMAIN versions')
  BY <1>2
<1>4. CASE UNCHANGED cache
  BY <1>2, <1>3, <1>4 DEF CacheOK
<1>5. CASE EndContent
  BY <1>2, <1>3, <1>5 DEF EndContent, HandlerOK, CacheOK, diskVars
<1> QED
  BY <1>4, <1>5 DEF Next, World, Handler, vars, Tick, Install, Delete, Break,
     messageReceived, CheckExists, sendNotModified, CannotValidate, Open,
     setDateAndCacheHeaders, SendChunk, EndOfFile

(* Others may change the page while the response is on its way.            *)
LEMMA ChangedSeen ==
  ASSUME DiskOK, HandlerOK, Asked, Seen, Install \/ Delete, quiet' PROVE Seen'
<1>1. /\ UNCHANGED handlerVars
      /\ Len(nodes) <= Len(nodes')
      /\ DOMAIN versions \subseteq DOMAIN versions'
      /\ \A v \in DOMAIN versions : versions'[v] = versions[v]
  <2>1. [Next]_vars
    BY DEF Next, World
  <2>2. /\ Len(versions) <= Len(versions') /\ Len(nodes) <= Len(nodes')
        /\ \A v \in DOMAIN versions : versions'[v] = versions[v]
        /\ DiskOK'
    BY <2>1, DiskInductive
  <2>3. DOMAIN versions \subseteq DOMAIN versions'
    BY <2>2 DEF DiskOK
  <2>4. UNCHANGED handlerVars
    BY DEF Install, Delete
  <2> QED
    BY <2>2, <2>3, <2>4
<1>2. quiet /\ pc # "header"
  BY DEF Install, Delete, Disturbs
<1>3. CASE pc = "send"
  <2>1. PICK v \in DOMAIN versions : OfVersion(v)
    BY <1>2, <1>3 DEF Seen
  <2>2. fd \in DOMAIN nodes
    BY <1>3 DEF Asked, HandlerOK
  <2>3. Len(body) < length => nodes'[fd] = nodes[fd]
    <3>1. CASE Delete
      BY <3>1 DEF Delete
    <3>2. CASE Install
      <4>1. CASE /\ path # 0
                 /\ nodes' = [nodes EXCEPT ![path] = Len(versions')]
                 /\ quiet' = (quiet /\ ~ Disturbs(path = fd))
        BY <1>3, <4>1, <2>2 DEF Disturbs
      <4>2. CASE nodes' = Append(nodes, Len(versions'))
        BY <2>2, <4>2 DEF DiskOK
      <4> QED
        BY <3>2, <4>1, <4>2 DEF Install
    <3> QED
      BY <3>1, <3>2
  <2>4. OfVersion(v)' /\ v \in DOMAIN versions'
    BY <1>1, <2>1, <2>3 DEF OfVersion, handlerVars
  <2> QED
    BY <1>1, <1>3, <2>4 DEF Seen, handlerVars
<1> QED
  BY <1>1, <1>2, <1>3 DEF Seen, handlerVars

(* The looks at the file agree while nobody comes between them.            *)
LEMMA SeenInductive ==
  DiskOK /\ HandlerOK /\ Asked /\ Seen /\ [Next]_vars => Seen'
<1> SUFFICES ASSUME DiskOK, HandlerOK, Asked, Seen, [Next]_vars, quiet' PROVE Seen'
  BY DEF Seen
<1> USE DEF Seen, Goto, Current, diskVars, handlerVars
<1>1. CASE UNCHANGED vars \/ Tick
  BY <1>1 DEF vars, Tick, OfVersion
<1>2. CASE Install \/ Delete
  BY <1>2, ChangedSeen
<1>3. CASE Break \/ messageReceived \/ CheckExists \/ sendNotModified
           \/ CannotValidate \/ EndOfFile \/ EndContent
  BY <1>3 DEF Break, messageReceived, CheckExists, sendNotModified,
     CannotValidate, EndOfFile, EndContent
<1>4. CASE Open
  BY <1>4 DEF Open
<1>5. CASE setDateAndCacheHeaders
  <2>1. /\ pc = "header" /\ quiet /\ path = fd /\ fd # 0
        /\ length = versions[nodes[fd]].length
    BY <1>5 DEF setDateAndCacheHeaders, Asked
  <2>2. /\ modified' = LastModifiedSeconds /\ body' = <<>>
        /\ UNCHANGED <<diskVars, fd, length>> /\ pc' = "send"
    BY <1>5 DEF setDateAndCacheHeaders
  <2>3. nodes[fd] \in DOMAIN versions
    BY <2>1 DEF DiskOK
  <2>4. OfVersion(nodes[fd])'
    BY <2>1, <2>2 DEF OfVersion, LastModifiedSeconds
  <2> QED
    BY <2>2, <2>3, <2>4
<1>6. CASE SendChunk
  <2>1. /\ body' = Append(body, nodes[fd]) /\ body \in Seq(DOMAIN versions)
        /\ UNCHANGED <<versions, nodes, fd, length, modified, pc>>
        /\ pc = "send" /\ quiet /\ Len(body) < length
    BY <1>6 DEF SendChunk, HandlerOK
  <2>2. PICK v \in DOMAIN versions : OfVersion(v)
    BY <2>1
  <2>3. nodes[fd] = v /\ \A i \in 1 .. Len(body') : body'[i] = v
    BY <2>1, <2>2 DEF OfVersion
  <2>4. OfVersion(v)'
    BY <2>1, <2>2, <2>3 DEF OfVersion
  <2> QED
    BY <2>1, <2>4
<1> QED
  BY <1>1, <1>2, <1>3, <1>4, <1>5, <1>6 DEF Next, World, Handler

(* A whole version stays one.                                              *)
LEMMA CopyInductive == IInv /\ [Next]_vars => CopyWholeUnlessOverlapped'
<1> SUFFICES ASSUME IInv, [Next]_vars, (cache # NoCopy /\ cache.quiet)'
             PROVE  (\E v \in DOMAIN versions :
                         /\ Whole(cache.body, v)
                         /\ cache.modified = versions[v].mtime \div Second)'
  BY DEF CopyWholeUnlessOverlapped
<1> USE DEF IInv, TypeOK
<1>1. /\ DOMAIN versions \subseteq DOMAIN versions'
      /\ \A v \in DOMAIN versions : versions'[v] = versions[v]
  BY DiskInductive DEF DiskOK
<1>2. CASE UNCHANGED cache
  <2>1. PICK v \in DOMAIN versions :
            /\ Whole(cache.body, v)
            /\ cache.modified = versions[v].mtime \div Second
    BY <1>2 DEF CopyWholeUnlessOverlapped, NoCopy
  <2>2. v \in DOMAIN versions' /\ versions'[v] = versions[v]
    BY <1>1
  <2>3. Whole(cache.body, v)' /\ cache'.modified = versions'[v].mtime \div Second
    BY <1>2, <2>1, <2>2 DEF Whole
  <2> QED
    BY <2>2, <2>3
<1>3. CASE EndContent
  <2>1. /\ cache' = [body |-> body, modified |-> modified, quiet |-> quiet]
        /\ pc = "send" /\ Len(body) = length
        /\ versions' = versions
    BY <1>3 DEF EndContent, Goto, diskVars
  <2>2. PICK v \in DOMAIN versions : OfVersion(v)
    BY <2>1 DEF Seen
  <2>3. Whole(body, v)
    BY <2>1, <2>2 DEF OfVersion, Whole, HandlerOK
  <2>4. Whole(cache.body, v)'
    BY <2>1, <2>3 DEF Whole
  <2>5. v \in DOMAIN versions' /\ cache'.modified = versions'[v].mtime \div Second
    BY <2>1, <2>2 DEF OfVersion
  <2> QED
    BY <2>4, <2>5
<1> QED
  BY <1>2, <1>3 DEF Next, World, Handler, vars, Tick, Install, Delete, Break,
     messageReceived, CheckExists, sendNotModified, CannotValidate, Open,
     setDateAndCacheHeaders, SendChunk, EndOfFile

(* The invariant of the file server and its browser.                       *)
THEOREM Invariance == Spec => []IInv
<1>1. IInv /\ [Next]_vars => IInv'
  BY DiskInductive, HandlerInductive, CacheInductive, SeenInductive,
     CopyInductive DEF IInv, TypeOK
<1> QED
  BY InitIInv, <1>1, PTL DEF Spec

(* Every variable of the file server stays in its range, and no date that  *)
(* is handed on lies in the future.                                        *)
THEOREM TypeCorrect == Spec => []TypeOK
<1>1. IInv => TypeOK
  BY DEF IInv
<1> QED
  BY Invariance, <1>1, PTL

(* A copy of a page is a whole version, with the date of that version,     *)
(* whatever is installed or removed, unless the name changed between the   *)
(* opening of the file and the look-up of its date, or the open file was   *)
(* overwritten before all of it was read.  (messageReceived and            *)
(* setDateAndCacheHeaders in HttpStaticFileServerHandler)                  *)
THEOREM CopiesWhole == Spec => []CopyWholeUnlessOverlapped
<1>1. IInv => CopyWholeUnlessOverlapped
  BY DEF IInv
<1> QED
  BY Invariance, <1>1, PTL

(* 304 tells the truth about a copy that was not disturbed, to the second. *)
THEOREM StaleCopies == Spec => StaleOnlyIfHurried
<1>1. IInv /\ [Next]_vars =>
          [sendNotModified /\ cache.quiet =>
              /\ path # 0
              /\ \E v \in DOMAIN versions :
                    /\ Whole(cache.body, v)
                    /\ \/ v = nodes[path]
                       \/ versions[v].mtime \div Second
                             = Current.mtime \div Second]_vars
  <2> SUFFICES ASSUME IInv, sendNotModified, cache.quiet
               PROVE  /\ path # 0
                      /\ \E v \in DOMAIN versions :
                            /\ Whole(cache.body, v)
                            /\ versions[v].mtime \div Second
                                   = Current.mtime \div Second
    OBVIOUS
  <2> USE DEF IInv, TypeOK
  <2>1. /\ since = cache.modified /\ since # NoDate
        /\ since = LastModifiedSeconds
    BY DEF sendNotModified, Asked, Goto
  <2>2. cache # NoCopy
    <3>1. NoCopy.modified = NoDate
      BY DEF NoCopy
    <3> QED
      BY <2>1, <3>1
  <2>3. PICK v \in DOMAIN versions :
            /\ Whole(cache.body, v)
            /\ cache.modified = versions[v].mtime \div Second
    BY <2>2 DEF CopyWholeUnlessOverlapped
  <2>4. versions[v].mtime \in Nat /\ Second <= versions[v].mtime
    BY DiskFacts
  <2>5. versions[v].mtime \div Second >= 1
    BY <2>4, SecondsPositive
  <2>6. path # 0
    BY <2>1, <2>3, <2>5, LastModifiedIsDate
  <2> QED
    BY <2>1, <2>3, <2>6 DEF LastModifiedSeconds
<1> QED
  BY Invariance, <1>1, PTL DEF Spec, StaleOnlyIfHurried
===============================================================================
