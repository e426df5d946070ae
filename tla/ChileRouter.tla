----------------------------- MODULE ChileRouter -----------------------------
(***************************************************************************)
(* The graph files of the multimodal router: the managers that download    *)
(* them into cache/ (S3, Google Drive, GitHub releases) and the lazy,      *)
(* locked loading of ChileMultiModalRouter. Threads of one process share   *)
(* the router; downloads run in it (ensure_critical_graphs) and in other   *)
(* processes (the command lines of the managers). The route itself is a    *)
(* straight line in either case, so a route is how it was found. Uploads,  *)
(* which also write the compressed twin, are left out.                     *)
(***************************************************************************)
EXTENDS Naturals

CONSTANTS GraphModes,        \* drive, walk, bike: each has one file
          Threads,      \* callers of the router
          Downloaders,  \* processes or calls that download
          Managers,     \* "s3", "drive", "github"
          FewRequests,  \* 5 requests: less is little use
          MaxRequests   \* bound of the statistics of a mode

VARIABLES file,      \* of each mode: absent, torn or whole
          zipped,    \* its compressed twin, local_path + '.gz', likewise
          job,       \* what each downloader does
          left,      \* modes whose file the last to open it has left as it was
          memory,    \* modes whose graph is in _memory_cache
          loaded,    \* modes with _cache_loaded
          lock,      \* holder of each _cache_locks
          requests,  \* _usage_stats of each mode
          cache_hits,
          thread     \* what each thread does: [at, mode, purpose]

graphVars == <<file, zipped, job, left, memory, loaded, lock, requests, cache_hits, thread>>
diskVars == <<file, zipped, job, left>>
routerVars == <<memory, loaded, lock, requests, cache_hits, thread>>

Nobody == "nobody"

ASSUME NobodyAssumption == Nobody \notin Threads

NoJob == [at |-> "none"]
Resting == [at |-> "rest"]

-----------------------------------------------------------------------------
(* Downloads. Every download of a graph goes through the same two names, and   *)
(* whoever truncates, replaces or removes one of them meets the others who     *)
(* have it open: a file that was truncated is written on behind a gap, and one *)
(* that lost its name is written or read on without it. What the servers send  *)
(* is the whole graph, or the request fails.                                   *)

\* A download is at "fetching", "filling" the .gz, "fetched" or "writing" the
\* local file. Of the file it writes: whether that still has its name (linked),
\* whether another has truncated it since (overtaken). source: where the graph is
\* read from, the bytes "in memory" or a file nobody else can reach, the "shared"
\* .gz, or one that is or was "cut".
Start(s, m) ==
    [at |-> "fetching", manager |-> s, mode |-> m,
     linked |-> TRUE, overtaken |-> FALSE, source |-> "in memory"]

Reported(d, ok) == [at |-> "reported", manager |-> job[d].manager, mode |-> job[d].mode, ok |-> ok]

\* What a download notices of what another does to the files of its mode.
Meets(j, m, events) ==
    CASE j.at = "filling" /\ j.mode = m ->
             [j EXCEPT !.linked = @ /\ "zip gone" \notin events,
                       !.overtaken = @ \/ "zip cut" \in events]
      [] j.at = "writing" /\ j.mode = m ->
             [j EXCEPT !.linked = @ /\ "file gone" \notin events,
                       !.overtaken = @ \/ "file cut" \in events,
                       !.source = IF @ = "shared" /\ "zip gone" \in events THEN "in memory"
                                  ELSE IF @ = "shared" /\ "zip cut" \in events THEN "cut"
                                  ELSE @]
      [] OTHER -> j

\* Downloader d goes on as x, and the others meet what it does.
Move(d, x, m, events) ==
    job' = [e \in Downloaders |-> IF e = d THEN x ELSE Meets(job[e], m, events)]

\* An existing file is taken for a downloaded one, whatever is in it.
download_graph(d, s, m, force) ==
    /\ job[d].at \in {"none", "reported"}
    /\ job' = [job EXCEPT ![d] =
           IF file[m] # "absent" /\ ~force
           THEN [at |-> "reported", manager |-> s, mode |-> m, ok |-> TRUE]
           ELSE Start(s, m)]
    /\ UNCHANGED <<file, zipped, left>>

\* Nobody has truncated or removed the local file since d opened it.
LastToOpen(d) == job[d].at = "writing" /\ job[d].linked /\ ~job[d].overtaken

\* d stops without having written all: the file stays as it is.
LeftBy(d) == left \cup {m \in GraphModes : LastToOpen(d) /\ m = job[d].mode}

GiveUp(d) ==
    /\ job' = [job EXCEPT ![d] = Reported(d, FALSE)]
    /\ left' = LeftBy(d)
    /\ UNCHANGED <<file, zipped>>

\* S3 and Drive remove both files of the name, whoever writes them; an os.remove
\* that fails is passed over.
CleanUp(d) ==
    LET m == job[d].mode IN
    \E gone \in SUBSET {"file gone", "zip gone"} :
        /\ file' = IF "file gone" \in gone THEN [file EXCEPT ![m] = "absent"] ELSE file
        /\ zipped' = IF "zip gone" \in gone THEN [zipped EXCEPT ![m] = "absent"] ELSE zipped
        /\ left' = IF "file gone" \in gone THEN left \ {m} ELSE LeftBy(d)
        /\ Move(d, Reported(d, FALSE), m, gone)

\* No address, an error of S3, or GitHub: nothing is touched. Otherwise the files
\* are removed, the ones of before too.
FetchFails(d) ==
    /\ job[d].at = "fetching"
    /\ \/ GiveUp(d)
       \/ job[d].manager # "github" /\ CleanUp(d)

\* Drive truncates the .gz and fills it chunk by chunk.
OpenZip(d) ==
    /\ job[d].at = "fetching" /\ job[d].manager = "drive"
    /\ zipped' = [zipped EXCEPT ![job[d].mode] = "torn"]
    /\ Move(d, [job[d] EXCEPT !.at = "filling"], job[d].mode, {"zip cut"})
    /\ UNCHANGED <<file, left>>

\* What a writer that ends makes of the file it wrote: if another has truncated it
\* meanwhile, a part may be missing until that one ends.
Written(d, content) == IF job[d].overtaken THEN {content, "whole"} ELSE {"whole"}

FillEnds(d) ==
    /\ job[d].at = "filling"
    /\ IF job[d].linked
       THEN \E x \in Written(d, zipped[job[d].mode]) : zipped' = [zipped EXCEPT ![job[d].mode] = x]
       ELSE UNCHANGED zipped
    /\ job' = [job EXCEPT ![d] = [Start(@.manager, @.mode) EXCEPT !.at = "fetched"]]
    /\ UNCHANGED <<file, left>>

\* boto3 downloads to a file of another name and renames it.
ReplaceZip(d) ==
    /\ job[d].at = "fetching" /\ job[d].manager = "s3"
    /\ zipped' = [zipped EXCEPT ![job[d].mode] = "whole"]
    /\ Move(d, [job[d] EXCEPT !.at = "fetched"], job[d].mode, {"zip gone"})
    /\ UNCHANGED <<file, left>>

FillFails(d) == job[d].at = "filling" /\ CleanUp(d)

\* The .gz is opened, then open(local_path, 'wb') truncates the local file. GitHub
\* has decompressed in memory.
OpenLocal(d) ==
    LET m == job[d].mode
        source == IF job[d].manager = "github" THEN "in memory"
                  ELSE IF zipped[m] = "torn" THEN "cut" ELSE "shared"
    IN
    /\ \/ job[d].at = "fetching" /\ job[d].manager = "github"
       \/ job[d].at = "fetched" /\ zipped[m] # "absent"
    /\ file' = [file EXCEPT ![m] = "torn"]
    /\ left' = left \ {m}
    /\ Move(d, [Start(job[d].manager, m) EXCEPT !.at = "writing", !.source = source], m,
            {"file cut"})
    /\ UNCHANGED zipped

\* The .gz is not there any more, or one of the files cannot be opened.
OpenFails(d) == job[d].at = "fetched" /\ CleanUp(d)

\* All is written; of a .gz that is cut, if enough of it was read or refilled.
WriteEnds(d) ==
    LET m == job[d].mode IN
    /\ job[d].at = "writing"
    /\ IF job[d].linked
       THEN \E x \in Written(d, file[m]) : file' = [file EXCEPT ![m] = x]
       ELSE UNCHANGED file
    /\ left' = {n \in left : file'[n] # "whole"}
    /\ job' = [job EXCEPT ![d] = Reported(d, TRUE)]
    /\ UNCHANGED zipped

\* The .gz is still empty when it is read: gzip makes no bytes of it and no error.
WriteNothing(d) ==
    /\ job[d].at = "writing" /\ job[d].source = "cut"
    /\ job' = [job EXCEPT ![d] = Reported(d, TRUE)]
    /\ left' = LeftBy(d)
    /\ UNCHANGED <<file, zipped>>

\* Mutant of WriteFails: no manager removes what it could not finish.
WriteFailsLeavesFile(d) ==
    /\ job[d].at = "writing"
    /\ job' = [job EXCEPT ![d] = Reported(d, FALSE)]
    /\ UNCHANGED <<file, zipped, left>>

\* Decompressing (a .gz that ends too early) or writing fails, or what S3 asks for
\* after it, the sizes of both files. GitHub leaves the partial file.
WriteFails(d) ==
    /\ job[d].at = "writing"
    /\ IF job[d].manager = "github" THEN GiveUp(d) ELSE CleanUp(d)

Dies(d) ==
    /\ job[d].at \in {"fetching", "filling", "fetched", "writing"}
    /\ job' = [job EXCEPT ![d] = NoJob]
    /\ left' = LeftBy(d)
    /\ UNCHANGED <<file, zipped>>

DownloadOf(d) ==
    /\ \/ \E s \in Managers, m \in GraphModes, force \in BOOLEAN : download_graph(d, s, m, force)
       \/ FetchFails(d) \/ OpenZip(d) \/ FillEnds(d) \/ FillFails(d) \/ ReplaceZip(d)
       \/ OpenLocal(d) \/ OpenFails(d)
       \/ WriteEnds(d) \/ WriteNothing(d) \/ WriteFails(d) \/ Dies(d)
    /\ UNCHANGED routerVars

-----------------------------------------------------------------------------
(* Lazy loading *)

SetThread(t, x) == thread' = [thread EXCEPT ![t] = x]
At(t, at) == SetThread(t, [thread[t] EXCEPT !.at = at])

\* A route ends with the time of the line, marked by where it was "found"; a
\* preload ends with whether there is a graph.
Return(t, found) == SetThread(t, [at |-> "done", mode |-> thread[t].mode, found |-> found])

Hit(m) == cache_hits' = [cache_hits EXCEPT ![m] = @ + 1]

\* get_route counts a request before it loads.
get_route(t, m) ==
    /\ thread[t].at \in {"rest", "done"} /\ requests[m] < MaxRequests
    /\ requests' = [requests EXCEPT ![m] = @ + 1]
    /\ SetThread(t, [at |-> "check", mode |-> m])
    /\ UNCHANGED <<memory, loaded, lock, cache_hits>>

preload_cache(t, m) ==
    /\ thread[t].at \in {"rest", "done"}
    /\ SetThread(t, [at |-> "check", mode |-> m])
    /\ UNCHANGED <<memory, loaded, lock, requests, cache_hits>>

\* The check without the lock, and the read of _memory_cache after it.
FastCheck(t) ==
    /\ thread[t].at = "check"
    /\ cache_hits[thread[t].mode] < MaxRequests
    /\ IF thread[t].mode \in loaded
       THEN Hit(thread[t].mode) /\ At(t, "read")
       ELSE At(t, "lock") /\ UNCHANGED cache_hits
    /\ UNCHANGED <<memory, loaded, lock, requests>>

FastRead(t) ==
    /\ thread[t].at = "read"
    /\ Return(t, thread[t].mode \in memory)
    /\ UNCHANGED <<memory, loaded, lock, requests, cache_hits>>

Acquire(t) ==
    /\ thread[t].at \in {"lock", "clear lock", "clear any lock"}
    /\ lock[thread[t].mode] = Nobody
    /\ lock' = [lock EXCEPT ![thread[t].mode] = t]
    /\ At(t, CASE thread[t].at = "lock" -> "check again"
               [] thread[t].at = "clear lock" -> "delete"
               [] OTHER -> "delete any")
    /\ UNCHANGED <<memory, loaded, requests, cache_hits>>

Release(t) == lock' = [lock EXCEPT ![thread[t].mode] = Nobody]

\* Mutant of SecondCheck: what happened before the lock is not looked at.
SecondCheckMissing(t) ==
    /\ thread[t].at = "check again"
    /\ At(t, "unpickle")
    /\ UNCHANGED <<memory, loaded, lock, requests, cache_hits>>

\* The second check, with the lock: loaded meanwhile, no file, or load it.
SecondCheck(t) ==
    /\ thread[t].at = "check again"
    /\ LET m == thread[t].mode IN
           \/ /\ m \in loaded /\ cache_hits[m] < MaxRequests
              /\ Hit(m) /\ Release(t) /\ Return(t, m \in memory)
           \/ /\ m \notin loaded /\ file[m] = "absent"
              /\ Release(t) /\ Return(t, FALSE) /\ UNCHANGED cache_hits
           \/ /\ m \notin loaded /\ file[m] # "absent"
              /\ At(t, "unpickle") /\ UNCHANGED <<lock, cache_hits>>
    /\ UNCHANGED <<memory, loaded, requests>>

\* pickle.load raises on a file that is not whole (any more).
Unpickle(t) ==
    /\ thread[t].at = "unpickle"
    /\ IF file[thread[t].mode] = "whole"
       THEN /\ memory' = memory \cup {thread[t].mode}
            /\ At(t, "flag") /\ UNCHANGED lock
       ELSE Release(t) /\ Return(t, FALSE) /\ UNCHANGED memory
    /\ UNCHANGED <<loaded, requests, cache_hits>>

SetLoaded(t) ==
    /\ thread[t].at = "flag"
    /\ loaded' = loaded \cup {thread[t].mode}
    /\ Release(t) /\ Return(t, TRUE)
    /\ UNCHANGED <<memory, requests, cache_hits>>

-----------------------------------------------------------------------------
(* Clearing *)

\* clear_memory_cache(mode) looks whether there is a graph before it locks.
clear_memory_cache(t, m) ==
    /\ thread[t].at \in {"rest", "done"}
    /\ m \in memory
    /\ SetThread(t, [at |-> "clear lock", mode |-> m])
    /\ UNCHANGED <<memory, loaded, lock, requests, cache_hits>>

\* clear_memory_cache() locks every mode in turn and looks then; one turn.
clear_memory_caches(t, m) ==
    /\ thread[t].at \in {"rest", "done"}
    /\ SetThread(t, [at |-> "clear any lock", mode |-> m])
    /\ UNCHANGED <<memory, loaded, lock, requests, cache_hits>>

\* For modes of little use and few hits.
optimize_memory(t, m) ==
    /\ requests[m] < FewRequests /\ m \in loaded
    /\ requests[m] > 0 => 2 * cache_hits[m] < requests[m]
    /\ clear_memory_cache(t, m)

\* del and the flag, with the lock: another thread has cleared it meanwhile and
\* del raises KeyError, or both are done.
Delete(t) ==
    /\ thread[t].at \in {"delete", "delete any"}
    /\ IF thread[t].mode \in memory \/ thread[t].at = "delete any"
       THEN At(t, "unflag") /\ UNCHANGED lock
       ELSE Release(t) /\ SetThread(t, Resting)
    /\ memory' = memory \ {thread[t].mode}
    /\ UNCHANGED <<loaded, requests, cache_hits>>

Unflag(t) ==
    /\ thread[t].at = "unflag"
    /\ loaded' = loaded \ {thread[t].mode}
    /\ Release(t) /\ SetThread(t, Resting)
    /\ UNCHANGED <<memory, requests, cache_hits>>

\* Steps a thread owes once it is in the router.
Proceed(t) ==
    \/ FastCheck(t) \/ FastRead(t) \/ Acquire(t) \/ SecondCheck(t) \/ Unpickle(t)
    \/ SetLoaded(t) \/ Delete(t) \/ Unflag(t)

Router ==
    /\ \E t \in Threads :
           \/ Proceed(t)
           \/ \E m \in GraphModes :
                  \/ get_route(t, m) \/ preload_cache(t, m)
                  \/ clear_memory_cache(t, m) \/ clear_memory_caches(t, m) \/ optimize_memory(t, m)
    /\ UNCHANGED diskVars

-----------------------------------------------------------------------------
GraphInit ==
    /\ file \in [GraphModes -> {"absent", "whole"}]
    /\ zipped \in [GraphModes -> {"absent", "whole"}]
    /\ job = [d \in Downloaders |-> NoJob]
    /\ left = {}
    /\ memory = {} /\ loaded = {}
    /\ lock = [m \in GraphModes |-> Nobody]
    /\ requests = [m \in GraphModes |-> 0] /\ cache_hits = [m \in GraphModes |-> 0]
    /\ thread = [t \in Threads |-> Resting]

GraphNext == Router \/ \E d \in Downloaders : DownloadOf(d)

GraphSpec == GraphInit /\ [][GraphNext]_graphVars

-----------------------------------------------------------------------------
(* Properties *)

\* A graph of up to 1.8 GB is read once: no thread reads the file, or waits with
\* the lock to read it, while another has put the graph in memory, whatever
\* loads, clears and fast checks interleave; and outside the locks the flag
\* tells whether there is a graph.
GraphReadOnce ==
    /\ \A t \in Threads : thread[t].at = "unpickle" => thread[t].mode \notin memory
    /\ \A m \in GraphModes : lock[m] = Nobody => (m \in loaded <=> m \in memory)

\* A file is torn only while the last to open it is at work, or since that one
\* died, was GitHub's and failed, could not remove it, or met a .gz that another
\* download had just truncated: an overtaken writer that ends, fails or dies, one
\* whose file was removed under it, and forced downloads of the same file at once
\* leave nothing else for the existence check to take for a graph.
TornOnlyIfLeft ==
    \A m \in GraphModes :
        file[m] = "torn" =>
            m \in left \/ \E d \in Downloaders : LastToOpen(d) /\ job[d].mode = m
=============================================================================
