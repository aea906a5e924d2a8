------------------------------ MODULE FileServer ------------------------------
(***************************************************************************)
(* The static file server of ws-one, a browser that keeps a copy of a page *)
(* and asks with If-Modified-Since whether it is still good, and someone   *)
(* who installs new versions of the page meanwhile.  The handler looks at  *)
(* the file five times: does it exist, when was it modified, how long is   *)
(* it, when was it modified (again), and what does it contain.             *)
(***************************************************************************)
EXTENDS Integers, Sequences

CONSTANTS Second,       \* ticks of the file system's clock in a second
          MaxTime,      \* bound: ticks
          MaxVersions,  \* bound: versions of the page
          MaxChunks     \* bound: chunks of 8192 bytes in a version

ASSUME FileAssumption ==
           /\ Second \in Nat \ {0} /\ MaxVersions \in Nat \ {0}
           /\ MaxChunks \in Nat \ {0}
           /\ MaxTime \in Nat /\ MaxTime >= Second

VARIABLES now,       \* the clock
          versions,  \* length and modification time of every version so far
          nodes,     \* the version that each inode contains, or contained last
          path,      \* the inode of the page, 0 if there is none
          pc,        \* where the handler stands
          since,     \* If-Modified-Since of the request, in seconds
          fd,        \* the inode opened by the handler
          length,    \* Content-Length
          modified,  \* Last-Modified, in seconds
          body,      \* the version each chunk was read from
          cache,     \* the browser's copy
          quiet      \* see Disturbs

diskVars == <<now, versions, nodes, path>>
handlerVars == <<pc, since, fd, length, modified, body>>
vars == <<diskVars, handlerVars, cache, quiet>>

NoDate == -1
NoCopy == [body |-> <<>>, modified |-> NoDate, quiet |-> TRUE]

(* Times are handed on in seconds, as the headers have them.               *)
Dates == {NoDate} \cup 0 .. now \div Second

Version == [length : 1 .. MaxChunks, mtime : Second .. MaxTime]

DiskOK == /\ now \in Second .. MaxTime
          /\ versions \in Seq(Version)
          /\ Len(versions) \in 1 .. MaxVersions
          /\ \A v \in DOMAIN versions : versions[v].mtime <= now
          /\ nodes \in Seq(DOMAIN versions)
          /\ path \in {0} \cup DOMAIN nodes

HandlerOK == /\ pc \in {"idle", "exists", "validate", "open", "header", "send"}
             /\ since \in Dates
             /\ fd \in {0} \cup DOMAIN nodes
             /\ length \in 0 .. MaxChunks
             /\ modified \in Dates
             /\ body \in Seq(DOMAIN versions)
             /\ Len(body) <= MaxChunks
             /\ quiet \in BOOLEAN

CacheOK == /\ cache \in [body : Seq(DOMAIN versions), modified : Dates,
                         quiet : BOOLEAN]
           /\ Len(cache.body) <= MaxChunks

TypeOK == DiskOK /\ HandlerOK /\ CacheOK

(* After 1970, so that no file was modified in second 0.                   *)
Init == /\ now = Second
        /\ versions \in {<<[length |-> n, mtime |-> now]>> : n \in 1 .. MaxChunks}
        /\ nodes = <<1>>
        /\ path = 1
        /\ pc = "idle"
        /\ since = NoDate
        /\ fd = 0
        /\ length = 0
        /\ modified = NoDate
        /\ body = <<>>
        /\ cache = NoCopy
        /\ quiet = TRUE

-----------------------------------------------------------------------------
(* The world: time passes, versions are installed by overwriting the file  *)
(* or by putting another in its place, the file is removed, the            *)
(* connection breaks.                                                      *)
Tick == /\ now < MaxTime
        /\ now' = now + 1
        /\ UNCHANGED <<versions, nodes, path, handlerVars, cache, quiet>>

(* A response is at the mercy of whoever changes the page from the moment  *)
(* that the file is open: until its date has been read, under its name, of *)
(* whatever happens to the name; then only of someone who writes over the  *)
(* open file what has not been read of it.                                 *)
Disturbs(overwritten) ==
    \/ pc = "header"
    \/ pc = "send" /\ overwritten /\ Len(body) < length

Install ==
    /\ Len(versions) < MaxVersions
    /\ \E n \in 1 .. MaxChunks :
           versions' = Append(versions, [length |-> n, mtime |-> now])
    /\ \/ /\ path # 0
          /\ nodes' = [nodes EXCEPT ![path] = Len(versions')]
          /\ quiet' = (quiet /\ ~ Disturbs(path = fd))
          /\ UNCHANGED path
       \/ /\ nodes' = Append(nodes, Len(versions'))
          /\ path' = Len(nodes')
          /\ quiet' = (quiet /\ ~ Disturbs(FALSE))
    /\ UNCHANGED <<now, handlerVars, cache>>

Delete == /\ path # 0
          /\ path' = 0
          /\ quiet' = (quiet /\ ~ Disturbs(FALSE))
          /\ UNCHANGED <<now, versions, nodes, handlerVars, cache>>

Break == /\ pc = "send"
         /\ pc' = "idle"
         /\ UNCHANGED <<diskVars, since, fd, length, modified, body, cache,
                        quiet>>

World == Tick \/ Install \/ Delete \/ Break

-----------------------------------------------------------------------------
Goto(from, to) == pc = from /\ pc' = to

Current == versions[nodes[path]]

(* file.lastModified() / 1000; the time of a file that is not there is 0.  *)
LastModifiedSeconds == IF path = 0 THEN 0 ELSE Current.mtime \div Second

(* A request for the page, conditional if the browser has a copy.  Others  *)
(* (malformed, not GET, not a path, a directory) are left out.             *)
messageReceived == /\ Goto("idle", "exists")
                   /\ since' \in {NoDate, cache.modified}
                   /\ UNCHANGED <<diskVars, fd, length, modified, body, cache,
                                  quiet>>

(* 404 Not Found, unless the file exists.                                  *)
CheckExists == /\ Goto("exists", IF path = 0 THEN "idle" ELSE "validate")
               /\ UNCHANGED <<diskVars, since, fd, length, modified, body,
                              cache, quiet>>

(* 304 Not Modified                                                        *)
sendNotModified == /\ Goto("validate", "idle")
                   /\ since # NoDate
                   /\ since = LastModifiedSeconds
                   /\ UNCHANGED <<diskVars, since, fd, length, modified, body,
                                  cache, quiet>>

CannotValidate == /\ Goto("validate", "open")
                  /\ since # LastModifiedSeconds
                  /\ UNCHANGED <<diskVars, since, fd, length, modified, body,
                                 cache, quiet>>

(* Mutation: the last, incomplete chunk is not counted.                    *)
OpenRoundedDown ==
    /\ pc = "open"
    /\ IF path = 0 THEN /\ pc' = "idle"
                        /\ UNCHANGED <<fd, length, quiet>>
                   ELSE /\ pc' = "header"
                        /\ fd' = path
                        /\ length' = Current.length - 1
                        /\ quiet' = TRUE
    /\ UNCHANGED <<diskVars, since, modified, body, cache>>

(* RandomAccessFile and its length; 404 if the file has vanished.          *)
Open == /\ pc = "open"
        /\ IF path = 0 THEN /\ pc' = "idle"
                            /\ UNCHANGED <<fd, length, quiet>>
                       ELSE /\ pc' = "header"
                            /\ fd' = path
                            /\ length' = Current.length
                            /\ quiet' = TRUE
        /\ UNCHANGED <<diskVars, since, modified, body, cache>>

(* Mutation: Last-Modified gets the time that Date has.                    *)
setDateAndCacheHeadersNow == /\ Goto("header", "send")
                             /\ modified' = now \div Second
                             /\ body' = <<>>
                             /\ UNCHANGED <<diskVars, since, fd, length, cache,
                                            quiet>>

setDateAndCacheHeaders == /\ Goto("header", "send")
                          /\ modified' = LastModifiedSeconds
                          /\ body' = <<>>
                          /\ UNCHANGED <<diskVars, since, fd, length, cache,
                                         quiet>>

(* ChunkedFile: the open file, whatever has become of its name.            *)
SendChunk == /\ pc = "send"
             /\ Len(body) < length
             /\ Len(body) < versions[nodes[fd]].length
             /\ body' = Append(body, nodes[fd])
             /\ UNCHANGED <<diskVars, pc, since, fd, length, modified, cache,
                            quiet>>

(* The file has become shorter: the browser never gets the whole length.   *)
EndOfFile == /\ Goto("send", "idle")
             /\ Len(body) < length
             /\ Len(body) >= versions[nodes[fd]].length
             /\ UNCHANGED <<diskVars, since, fd, length, modified, body, cache,
                            quiet>>

(* LastHttpContent: the browser has the length it was told, and keeps it.  *)
EndContent == /\ Goto("send", "idle")
              /\ Len(body) = length
              /\ cache' = [body |-> body, modified |-> modified,
                           quiet |-> quiet]
              /\ UNCHANGED <<diskVars, since, fd, length, modified, body,
                             quiet>>

Handler == \/ messageReceived
           \/ CheckExists
           \/ sendNotModified
           \/ CannotValidate
           \/ Open
           \/ setDateAndCacheHeaders
           \/ SendChunk
           \/ EndOfFile
           \/ EndContent

Next == World \/ Handler

Spec == Init /\ [][Next]_vars

-----------------------------------------------------------------------------
(* Is this the whole of that version?                                      *)
Whole(b, v) == b = [i \in 1 .. versions[v].length |-> v]

(* The copy that a browser keeps is the whole of one version and has its   *)
(* date, although the handler looks at the file again and again while      *)
(* others install and remove it: excused is only a response whose date was *)
(* looked up after the name had changed under the open file, or whose file *)
(* was overwritten in place before its last chunk was read.  Whatever else *)
(* happens between two looks does no harm: a change before the file is     *)
(* opened, or a replacement or removal while the chunks are sent.          *)
CopyWholeUnlessOverlapped ==
    cache # NoCopy /\ cache.quiet =>
        \E v \in DOMAIN versions :
            /\ Whole(cache.body, v)
            /\ cache.modified = versions[v].mtime \div Second

(* 304 is wrong only for a copy that was disturbed as above while it was   *)
(* sent, or if the version it is of and the present one were installed     *)
(* within the same second.                                                 *)
StaleOnlyIfHurried ==
    [][sendNotModified /\ cache.quiet =>
          /\ path # 0
          /\ \E v \in DOMAIN versions :
                /\ Whole(cache.body, v)
                /\ \/ v = nodes[path]
                   \/ versions[v].mtime \div Second
                         = Current.mtime \div Second]_vars

(* The class comment says that "the server knows the file has not been     *)
(* modified because the If-Modified-Since date is the same as the file's   *)
(* last modified date": after a 304 the browser shows the present file.    *)
NotModifiedMeansUnmodified ==
    [][sendNotModified =>
          path # 0 /\ Whole(cache.body, nodes[path])]_vars
=============================================================================
