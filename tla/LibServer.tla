------------------------------ MODULE LibServer ------------------------------
(***************************************************************************)
(* The library and asset server of blank-sr (src/main.go): POST /lib (or   *)
(* /assets, the same code on a file of its own) replaces a zip file on     *)
(* disk, announces the change and then loads the file into the memory it   *)
(* is served from.  One of the two files is modelled: they share nothing.  *)
(*                                                                         *)
(* Every request runs in a goroutine of its own and no lock covers the     *)
(* file, so that creating, writing, reading and swapping interleave.  The  *)
(* file is truncated when it is opened and written by one call, from the   *)
(* start: an archive written over a longer one leaves the longer one's end *)
(* behind, and the file is torn.                                           *)
(*                                                                         *)
(* The change is announced with the configuration in the message, which    *)
(* takes confLocker, and is published under wango's subscribersLocker.     *)
(* Others hold these as long as they like: after a post of a configuration *)
(* that panics (module ConfigReload) the first is held for ever.           *)
(***************************************************************************)
EXTENDS Integers

CONSTANTS Uploaders,     \* bound: goroutines that serve a POST at a time
          Archives,      \* what they post
          BrokenArchives,\* those of them that are no zip file
          ArchiveSize,   \* their lengths
          NoArchive,     \* no file, or nothing served
          EmptyFile, TornFile

ASSUME LibAssumption ==
    /\ BrokenArchives \subseteq Archives
    /\ ArchiveSize \in [Archives -> Nat \ {0}]
    /\ {NoArchive, EmptyFile, TornFile} \cap Archives = {}
    /\ NoArchive # TornFile

VARIABLES
    libFile,     \* lib.zip
    libLength,   \* its length
    libFS,       \* what is served: libFS and libZip
    libUp,       \* the process runs
    othersHold,  \* the locks others hold that a request needs
    upload,      \* the archive each request posts
    libStep,     \* where each request is
    libRead,     \* the contents of the file it has read
    lastUpload,  \* the archive of the last request, if it has had the file to itself
    libDisturbed \* requests have overlapped, or a write has failed or been cut short,
                 \* since a request last had the file to itself

libVars == <<libFile, libLength, libFS, libUp, othersHold, upload, libStep, libRead, lastUpload,
             libDisturbed>>
libHistory == <<lastUpload, libDisturbed>>

FileContents == Archives \cup {NoArchive, EmptyFile, TornFile}

LibTypeOK ==
    /\ libFile \in FileContents /\ libLength \in Nat
    /\ libFS \in Archives \cup {NoArchive, TornFile}
    /\ libUp \in BOOLEAN
    /\ othersHold \subseteq {"confLocker", "subscribersLocker"}
    /\ upload \in [Uploaders -> Archives \cup {NoArchive}]
    /\ libStep \in [Uploaders -> {"idle", "create", "write", "get", "publish", "read", "swap"}]
    /\ libRead \in [Uploaders -> FileContents]
    /\ lastUpload \in Archives \cup {NoArchive}
    /\ libDisturbed \in BOOLEAN

LibInit ==
    /\ libFile = NoArchive /\ libLength = 0
    /\ libFS = NoArchive
    /\ libUp = TRUE /\ othersHold = {}
    /\ upload = [u \in Uploaders |-> NoArchive]
    /\ libStep = [u \in Uploaders |-> "idle"]
    /\ libRead = [u \in Uploaders |-> NoArchive]
    /\ lastUpload = NoArchive
    /\ libDisturbed = FALSE

LibGoto(u, from, to) ==
    /\ libUp /\ libStep[u] = from
    /\ libStep' = [libStep EXCEPT ![u] = to]
    /\ UNCHANGED <<libUp, othersHold>>

\* A request that is done with leaves its variables for the next.
LibReturn(u) ==
    /\ upload' = [upload EXCEPT ![u] = NoArchive]
    /\ libRead' = [libRead EXCEPT ![u] = NoArchive]
-----------------------------------------------------------------------------
\* libHandler: a request has been read to its end.
PostLib(u, a) ==
    /\ LibGoto(u, "idle", "create")
    /\ upload' = [upload EXCEPT ![u] = a]
    /\ UNCHANGED <<libFile, libLength, libFS, libRead, libHistory>>

HasOpened(u) == libStep[u] \in {"write", "get", "publish", "read", "swap"}

CreateLib_KeepsOld(u) ==
    /\ LibGoto(u, "create", "write")
    /\ libFile' = IF libFile = NoArchive THEN EmptyFile ELSE libFile
    /\ libDisturbed' = (\E o \in Uploaders \ {u} : HasOpened(o))
    /\ lastUpload' = IF libDisturbed' THEN NoArchive ELSE upload[u]
    /\ UNCHANGED <<libLength, libFS, upload, libRead>>

\* os.Create truncates the file, which request after request starts from then.
CreateLib(u) ==
    /\ LibGoto(u, "create", "write")
    /\ libFile' = EmptyFile /\ libLength' = 0
    /\ libDisturbed' = (\E o \in Uploaders \ {u} : HasOpened(o))
    /\ lastUpload' = IF libDisturbed' THEN NoArchive ELSE upload[u]
    /\ UNCHANGED <<libFS, upload, libRead>>

\* Without a file handle the request is answered with an error.
CreateLibFails(u) ==
    /\ LibGoto(u, "create", "idle")
    /\ LibReturn(u)
    /\ UNCHANGED <<libFile, libLength, libFS, libHistory>>

\* io.Copy of the body over whatever the file has got since.
WriteLib(u) ==
    /\ LibGoto(u, "write", "get")
    /\ LET size == ArchiveSize[upload[u]] IN
        IF size < libLength
        THEN libFile' = TornFile /\ UNCHANGED libLength
        ELSE libFile' = upload[u] /\ libLength' = size
    /\ UNCHANGED <<libFS, upload, libRead, libHistory>>

\* A write that fails leaves a part of the archive; the request is answered with an error.
WriteLibFails(u) ==
    /\ LibGoto(u, "write", "idle")
    /\ LibReturn(u)
    /\ libFile' = TornFile
    /\ libDisturbed' = TRUE /\ lastUpload' = NoArchive
    /\ UNCHANGED <<libLength, libFS>>

\* config.Get
GetForLib(u) ==
    /\ LibGoto(u, "get", "publish")
    /\ "confLocker" \notin othersHold
    /\ UNCHANGED <<libFile, libLength, libFS, upload, libRead, libHistory>>

\* The configuration is published to say that the library has changed: before it has.
PublishLib(u) ==
    /\ LibGoto(u, "publish", "read")
    /\ "subscribersLocker" \notin othersHold
    /\ UNCHANGED <<libFile, libLength, libFS, upload, libRead, libHistory>>

ReadLib_FirstOnly(u) ==
    /\ LibGoto(u, "read", IF libFS = NoArchive THEN "swap" ELSE "idle")
    /\ IF libFS = NoArchive
       THEN libRead' = [libRead EXCEPT ![u] = libFile] /\ UNCHANGED upload
       ELSE LibReturn(u)
    /\ UNCHANGED <<libFile, libLength, libFS, libHistory>>

\* makeLibFS, makeAssetsFS
ReadLib(u) ==
    /\ LibGoto(u, "read", "swap")
    /\ libRead' = [libRead EXCEPT ![u] = libFile]
    /\ UNCHANGED <<libFile, libLength, libFS, upload, libHistory>>

\* zip.NewReader looks at the end of the file, and that of a torn one may be whole.
MayOpen(contents) == contents \in Archives \ BrokenArchives \/ contents = TornFile
MayFail(contents) == contents \notin Archives \ BrokenArchives

SwapLib_Drops(u) ==
    /\ LibGoto(u, "swap", "idle")
    /\ LibReturn(u)
    /\ \/ MayOpen(libRead[u]) /\ libFS' = libRead[u]
       \/ MayFail(libRead[u]) /\ libFS' = NoArchive
    /\ UNCHANGED <<libFile, libLength, libHistory>>

SwapLib(u) ==
    /\ LibGoto(u, "swap", "idle")
    /\ LibReturn(u)
    /\ \/ MayOpen(libRead[u]) /\ libFS' = libRead[u]
       \/ MayFail(libRead[u]) /\ UNCHANGED libFS
    /\ UNCHANGED <<libFile, libLength, libHistory>>

\* The process dies: what a request had begun to write may be there in part.
LibCrash ==
    /\ libUp
    /\ libUp' = FALSE /\ othersHold' = {}
    /\ libFS' = NoArchive
    /\ libStep' = [u \in Uploaders |-> "idle"]
    /\ upload' = [u \in Uploaders |-> NoArchive]
    /\ libRead' = [u \in Uploaders |-> NoArchive]
    /\ IF \E u \in Uploaders : libStep[u] = "write"
       THEN libFile' \in {libFile, TornFile} /\ libDisturbed' = TRUE /\ lastUpload' = NoArchive
       ELSE UNCHANGED <<libFile, libDisturbed, lastUpload>>
    /\ UNCHANGED libLength

\* start calls makeLibFS before it listens.
LibStart ==
    /\ ~libUp
    /\ libUp' = TRUE
    /\ \/ MayOpen(libFile) /\ libFS' = libFile
       \/ MayFail(libFile) /\ libFS' = NoArchive
    /\ UNCHANGED <<libFile, libLength, othersHold, upload, libStep, libRead, libHistory>>

\* Goroutines of other services take and leave a lock.
OthersLock(l) ==
    /\ libUp /\ l \notin othersHold
    /\ othersHold' = othersHold \cup {l}
    /\ UNCHANGED <<libFile, libLength, libFS, libUp, upload, libStep, libRead, libHistory>>

OthersUnlock(l) ==
    /\ l \in othersHold
    /\ othersHold' = othersHold \ {l}
    /\ UNCHANGED <<libFile, libLength, libFS, libUp, upload, libStep, libRead, libHistory>>

Serve(u) ==
    \/ CreateLib(u) \/ CreateLibFails(u) \/ WriteLib(u) \/ WriteLibFails(u)
    \/ GetForLib(u) \/ PublishLib(u) \/ ReadLib(u) \/ SwapLib(u)

LibNext ==
    \/ \E u \in Uploaders, a \in Archives : PostLib(u, a)
    \/ \E u \in Uploaders : Serve(u)
    \/ \E l \in {"confLocker", "subscribersLocker"} : OthersLock(l) \/ OthersUnlock(l)
    \/ LibCrash
    \/ LibStart

\* A request that has begun is worked on, unless it waits for a lock: nobody has to leave one.
LibFairness == \A u \in Uploaders : WF_libVars(Serve(u))

LibSpec == LibInit /\ [][LibNext]_libVars /\ LibFairness
-----------------------------------------------------------------------------
\* getLibHandler: what a GET is answered with, NoArchive being "file not found".
GetLib == libFS

\* main.go:314: "new %s file created": when no request is at work, and the last one had the
\* file to itself, the file is the archive it posted and, if that is a zip file,
\* the one that is served, whatever requests, crashes and failures came before.
ServedIsFile ==
    libUp /\ ~libDisturbed /\ (\A u \in Uploaders : libStep[u] = "idle") =>
        /\ libFile = lastUpload
        /\ libFile \in Archives \ BrokenArchives => GetLib = libFile

\* main.go:315 announces an archive before it is served.  A client that is told of it and asks
\* is given it in the end, unless the process dies or another post begins meanwhile.
ChangeServed ==
    \A a \in Archives \ BrokenArchives :
        (\E u \in Uploaders : libStep[u] = "read" /\ upload[u] = a) /\ ~libDisturbed
            ~> GetLib = a \/ libDisturbed \/ ~libUp

\* A process that serves a library never stops to: not while another is posted, and
\* not because of one that is broken, torn or could not be written.
StaysServed == [][libUp /\ libUp' /\ libFS # NoArchive => libFS' # NoArchive]_libVars
=============================================================================
