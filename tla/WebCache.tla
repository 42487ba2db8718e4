------------------------------ MODULE WebCache ------------------------------
(***************************************************************************)
(* The file cache of a web server thread (web_cache::cache), with the      *)
(* requests that use it: send_file_request, the file read that follows a   *)
(* miss, custom_read_cb, kill_client at the end of a connection, and the   *)
(* inotify events that mark items as outdated.                             *)
(*                                                                         *)
(* cache is one record, because custom_read_cb runs try_insert_item and    *)
(* fetch_item in one handler; each method is an operator on that record.   *)
(*                                                                         *)
(* A watch descriptor is never handed out twice by the kernel.  It is      *)
(* represented by its file while the kernel reports on it and by Dead from *)
(* inotify_rm_watch on; an event of a descriptor that was removed finds no *)
(* entry in watch_to_cache_idx and has no effect, so it is not kept.  The  *)
(* -1 of a failed inotify_add_watch is stored and mapped like a descriptor.*)
(*                                                                         *)
(* The connections are HTTP ones of the plain server: each serves one      *)
(* request, as read_cb arms no further read.                               *)
(***************************************************************************)
EXTENDS Integers, FiniteSets, Sequences, SequencesExt

CONSTANTS
  N,            \* size of the cache
  Files,
  Clients,      \* client indices
  NoFile,       \* the empty path of a client that has requested nothing
  NoData,       \* an empty buffer
  Dead,         \* a watch descriptor the kernel does not report on
  Failed,       \* -1, what inotify_add_watch returns when it fails
  Unwatchable,  \* files inotify_add_watch may fail for (they are gone, or too many)
  MaxVersion,   \* bound: how often a file may change
  MaxLock,      \* bound: locks that were leaked on, or taken off, a slot too often
  MaxReads,     \* bound: file reads in flight for one client index
  Hangup        \* may a peer hang up while the file for it is being read?

ASSUME CacheAssumption ==
  /\ N \in Nat \ {0}
  /\ MaxVersion \in Nat /\ MaxLock \in Nat /\ MaxReads \in Nat \ {0}
  /\ Hangup \in BOOLEAN
  /\ NoFile \notin Files /\ Dead \notin Files /\ Failed \notin Files /\ Dead # Failed
  /\ Unwatchable \subseteq Files
  /\ NoData \notin [file : Files, version : 0 .. MaxVersion]
  /\ IsFiniteSet(Clients)

Idx   == 0 .. N - 1
Paths == Files \cup {NoFile}
Watches == Files \cup {Failed}
Data  == [file : Files, version : 0 .. MaxVersion] \cup {NoData}

VARIABLES
  cache,      \* the members of web_cache::cache, see Init
  version,    \* of each file on disk
  conn,       \* of each client: "closed", "open", "requested"
  using_file, \* tcp_client::using_file
  last_path,  \* tcp_client::last_requested_read_filepath
  reads,      \* CUSTOM_READ requests in flight of each client
  send_data,  \* of each client: the slot (-1: a buffer of its own) and the data
  writing,    \* of each client: what the kernel is writing to it (num_write_reqs many)
  asked,      \* ghost: the file this connection asked for
  undefined   \* cache_buffer was indexed with -1, or an empty send_data popped

vars == <<cache, version, conn, using_file, last_path, reads, send_data, writing,
          asked, undefined>>

cache_item ==
  [buffer |-> NoData, lock_number |-> 0, next_item_idx |-> -1, prev_item_idx |-> -1,
   outdated |-> FALSE, watch |-> Dead]

\* Mutation of AllFree: the loop of the constructor goes one too far.
AllFree_past_end == 0 .. N

\* The constructor: all slots are free.
AllFree == Idx

Init ==
  /\ cache = [cache_buffer |-> [i \in Idx |-> cache_item],
              filepath_to_cache_idx |-> [p \in Paths |-> -1],
              cache_idx_to_filepath |-> [i \in Idx |-> NoFile],
              free_idxs |-> AllFree,
              client_idx_to_cache_idx |-> [c \in Clients |-> 0],
              watch_to_cache_idx |-> [w \in Watches |-> -1],
              inotify_fd |-> {},   \* watches with an IN_MODIFY event to be read
              highest_idx |-> -1,
              lowest_idx |-> -1]
  /\ version = [f \in Files |-> 0]
  /\ conn = [c \in Clients |-> "closed"]
  /\ using_file = [c \in Clients |-> FALSE]
  /\ last_path = [c \in Clients |-> NoFile]
  /\ reads = [c \in Clients |-> <<>>]
  /\ send_data = [c \in Clients |-> <<>>]
  /\ writing = [c \in Clients |-> <<>>]
  /\ asked = [c \in Clients |-> NoFile]
  /\ undefined = FALSE

-----------------------------------------------------------------------------
(* The methods of the cache.                                               *)

\* Mutation of Unwatch: watch_to_cache_idx keeps the descriptor.
Unwatch_kept(k, w) ==
  IF w = Dead THEN k
  ELSE [k EXCEPT
         !.cache_buffer = [i \in Idx |-> IF @[i].watch = w /\ w # Failed
                                         THEN [@[i] EXCEPT !.watch = Dead] ELSE @[i]]]

\* inotify_rm_watch and watch_to_cache_idx.erase.  (Blank items have the watch 0, which is
\* none.)
Unwatch(k, w) ==
  IF w = Dead THEN k
  ELSE [k EXCEPT
         !.watch_to_cache_idx[w] = -1,
         !.inotify_fd = @ \ {w},
         !.cache_buffer = [i \in Idx |-> IF @[i].watch = w /\ w # Failed
                                         THEN [@[i] EXCEPT !.watch = Dead] ELSE @[i]]]

\* An outdated item is dropped: its slot is blank and free again.
Drop(k, i) ==
  [Unwatch(k, k.cache_buffer[i].watch) EXCEPT !.free_idxs = @ \cup {i},
                                              !.cache_buffer[i] = cache_item]

\* Take item i, which is not the highest, out of the list.
Unlink(k, i) ==
  LET p == k.cache_buffer[i].prev_item_idx
      n == k.cache_buffer[i].next_item_idx
  IN IF p # -1
     THEN LET k1 == [k EXCEPT !.cache_buffer[p].next_item_idx = n]
          IN [k1 EXCEPT !.cache_buffer[n].prev_item_idx = k1.cache_buffer[i].prev_item_idx]
     ELSE [k EXCEPT !.cache_buffer[n].prev_item_idx = -1, !.lowest_idx = n]

\* Mutation of Promote: the old top does not learn of its successor.
Promote_half(k, i) ==
  [k EXCEPT !.cache_buffer[i].next_item_idx = -1,
            !.cache_buffer[i].prev_item_idx = k.highest_idx,
            !.highest_idx = i]

\* Put item i on top of the list.
Promote(k, i) ==
  LET k1 == [k EXCEPT !.cache_buffer[k.highest_idx].next_item_idx = i]
  IN [k1 EXCEPT !.cache_buffer[i].next_item_idx = -1,
                !.cache_buffer[i].prev_item_idx = k.highest_idx,
                !.highest_idx = i]

\* fetch_item: the cache afterwards, whether the file was mapped (and so locked),
\* and the slot served, or -1.
fetch_item(k, path, c) ==
  LET i    == k.filepath_to_cache_idx[path]
      item == k.cache_buffer[i]
      k1   == [k EXCEPT !.cache_buffer[i].lock_number = @ + 1,
                        !.client_idx_to_cache_idx[c] = i]
      k2   == IF item.next_item_idx # -1 THEN Unlink(k1, i)
              ELSE IF item.prev_item_idx # -1
              THEN [k1 EXCEPT !.cache_buffer[item.prev_item_idx].next_item_idx = -1]
              ELSE k1
  IN IF i = -1 THEN [cache |-> k, locked |-> FALSE, slot |-> -1]
     ELSE IF item.outdated THEN [cache |-> Drop(k2, i), locked |-> TRUE, slot |-> -1]
     ELSE IF item.next_item_idx = -1 THEN [cache |-> k1, locked |-> TRUE, slot |-> i]
     ELSE [cache |-> Promote(k2, i), locked |-> TRUE, slot |-> i]

\* Mutation of CanEvict: the lock is not looked at.
CanEvict_locked(k) == k.free_idxs = {}

\* Only an item that nobody uses can make room.
CanEvict(k) == k.free_idxs = {} /\ k.cache_buffer[k.lowest_idx].lock_number = 0

\* Mutation of Evict: the path of the evicted item keeps leading to its slot.
Evict_mapped(k) ==
  LET l == k.lowest_idx
      n == k.cache_buffer[l].next_item_idx
  IN [Unwatch([k EXCEPT !.cache_buffer[n].prev_item_idx = -1], k.cache_buffer[l].watch)
      EXCEPT !.cache_buffer[l] = cache_item,
             !.cache_idx_to_filepath[l] = NoFile,
             !.lowest_idx = n]

\* The lowest item makes room: the second lowest becomes the lowest.
Evict(k) ==
  LET l == k.lowest_idx
      n == k.cache_buffer[l].next_item_idx
  IN [Unwatch([k EXCEPT !.cache_buffer[n].prev_item_idx = -1], k.cache_buffer[l].watch)
      EXCEPT !.cache_buffer[l] = cache_item,
             !.filepath_to_cache_idx[k.cache_idx_to_filepath[l]] = -1,
             !.cache_idx_to_filepath[l] = NoFile,
             !.lowest_idx = n]

\* inotify_add_watch: a file that has a watch keeps its descriptor; it fails for the empty
\* path, and may fail for others.
added_watch(path) ==
  {w \in Watches : w = path \/ (w = Failed /\ path \in Unwatchable \cup {NoFile})}

\* Slot i is filled, watched and put on top.
Fill(k, i, path, data, watch) ==
  LET k1 == IF k.highest_idx = -1 THEN k
            ELSE [k EXCEPT !.cache_buffer[k.highest_idx].next_item_idx = i]
  IN [k1 EXCEPT !.filepath_to_cache_idx[path] = i,
                !.cache_idx_to_filepath[i] = path,
                !.cache_buffer[i].watch = watch,
                !.cache_buffer[i].prev_item_idx = k.highest_idx,
                !.cache_buffer[i].next_item_idx = -1,
                !.cache_buffer[i].buffer = data,
                !.highest_idx = i,
                !.watch_to_cache_idx[watch] = i]

\* try_insert_item: the caches it may leave behind; none when it returns false.
\* free_idxs is an unordered_set, so any free slot may be the first.
try_insert_item(k, path, data) ==
  IF k.free_idxs # {}
  THEN UNION {{Fill([k EXCEPT !.free_idxs = @ \ {i},
                              !.lowest_idx = IF @ = -1 THEN i ELSE @], i, path, data, w)
               : w \in added_watch(path)} : i \in k.free_idxs}
  ELSE IF CanEvict(k)
  THEN {Fill(Evict(k), k.lowest_idx, path, data, w) : w \in added_watch(path)}
  ELSE {}

\* try_insert_item indexes cache_buffer with -1.
OutOfBounds(k) ==
  /\ k.free_idxs = {}
  /\ k.lowest_idx = -1 \/ (CanEvict(k) /\ k.cache_buffer[k.lowest_idx].next_item_idx = -1)

\* finished_with_item: the client gives up its lock.
finished_with_item(k, c) ==
  IF using_file[c]
  THEN [k EXCEPT !.cache_buffer[k.client_idx_to_cache_idx[c]].lock_number = @ - 1]
  ELSE k

-----------------------------------------------------------------------------
(* The handlers of the server thread.                                      *)

\* write_connection: only the first element of send_data is written at once.
write_connection(c, e) ==
  /\ send_data' = [send_data EXCEPT ![c] = Append(@, e)]
  /\ writing' = [writing EXCEPT ![c] = IF send_data[c] = <<>> THEN Append(@, e) ELSE @]

\* ACCEPT: a new connection in this slot, new_tcp_client.  (Not while an answer that
\* outlived its client is written: see TcpServer.)
Connect(c) ==
  /\ conn[c] = "closed"
  /\ send_data[c] = <<>> /\ writing[c] = <<>>
  /\ Len(reads[c]) < MaxReads
  /\ \A i \in Idx : cache.cache_buffer[i].lock_number \in -MaxLock .. MaxLock
  /\ conn' = [conn EXCEPT ![c] = "open"]
  /\ using_file' = [using_file EXCEPT ![c] = FALSE]
  /\ last_path' = [last_path EXCEPT ![c] = NoFile]
  /\ asked' = [asked EXCEPT ![c] = NoFile]
  /\ UNCHANGED <<cache, version, reads, send_data, writing, undefined>>

\* send_file_request: answered from the cache, or the file is read.
send_file_request(c, f) ==
  LET r == fetch_item(cache, f, c) IN
  /\ conn[c] = "open"
  /\ conn' = [conn EXCEPT ![c] = "requested"]
  /\ asked' = [asked EXCEPT ![c] = f]
  /\ cache' = r.cache
  /\ using_file' = [using_file EXCEPT ![c] = @ \/ r.locked]
  /\ \/ /\ r.slot # -1
        /\ write_connection(c, [slot |-> r.slot, data |-> r.cache.cache_buffer[r.slot].buffer])
        /\ UNCHANGED <<last_path, reads>>
     \/ /\ r.slot = -1
        /\ last_path' = [last_path EXCEPT ![c] = f]
        /\ reads' = [reads EXCEPT ![c] = Append(@, [file |-> f, from |-> version[f]])]
        /\ UNCHANGED <<send_data, writing>>
  /\ UNCHANGED <<version, undefined>>

\* custom_read_cb with the file's content as of some moment since the request: the
\* content is cached under the path the client slot has now, and sent to it.
custom_read_cb(c, n) ==
  LET r == reads[c][n] IN
  /\ ~OutOfBounds(cache)
  /\ reads' = [reads EXCEPT ![c] = RemoveAt(@, n)]
  /\ \E v \in r.from .. version[r.file] :
       LET data == [file |-> r.file, version |-> v]
           inserted == try_insert_item(cache, last_path[c], data)
       IN \/ \E k \in inserted :
               LET s == fetch_item(k, last_path[c], c) IN
               /\ cache' = s.cache
               /\ using_file' = [using_file EXCEPT ![c] = TRUE]
               /\ write_connection(c, [slot |-> s.slot, data |-> data])
          \/ /\ inserted = {}
             /\ write_connection(c, [slot |-> -1, data |-> data])
             /\ UNCHANGED <<cache, using_file>>
  /\ UNCHANGED <<version, conn, last_path, asked, undefined>>

\* The same with try_insert_item out of bounds: nothing is known from here on.
custom_read_undefined(c) ==
  /\ reads[c] # <<>>
  /\ OutOfBounds(cache)
  /\ undefined' = TRUE
  /\ UNCHANGED <<cache, version, conn, using_file, last_path, reads, send_data, writing, asked>>

\* kill_client.
kill_client(c) ==
  /\ cache' = finished_with_item(cache, c)
  /\ using_file' = [using_file EXCEPT ![c] = FALSE]

\* WRITE completed: the front of send_data is popped, whatever was written, and the next
\* element written; the connection is closed through kill_client, unless a write is left.
\* A client that was closed before its answer came has its send_data cleared by the close.
WriteDone(c, n) ==
  LET left == RemoveAt(writing[c], n)
      rest == IF conn[c] = "closed" THEN <<>> ELSE Tail(send_data[c])
  IN /\ conn[c] = "closed" \/ send_data[c] # <<>>
     /\ send_data' = [send_data EXCEPT ![c] = rest]
     /\ writing' = [writing EXCEPT ![c] = IF rest = <<>> THEN left ELSE Append(left, Head(rest))]
     /\ kill_client(c)
     /\ conn' = [conn EXCEPT ![c] = IF writing'[c] = <<>> THEN "closed" ELSE @]
     /\ UNCHANGED <<version, last_path, reads, asked, undefined>>

\* The same when the timer has emptied send_data: front() and pop() of an empty queue.
WriteDoneUndefined(c) ==
  /\ conn[c] # "closed" /\ writing[c] # <<>> /\ send_data[c] = <<>>
  /\ undefined' = TRUE
  /\ UNCHANGED <<cache, version, conn, using_file, last_path, reads, send_data, writing, asked>>

\* The connection ends (close_cb for each element of send_data, and close_connection, which
\* leaves the slot alone while a write is in flight).
Ends(c) ==
  /\ kill_client(c)
  /\ send_data' = [send_data EXCEPT ![c] = <<>>]
  /\ conn' = [conn EXCEPT ![c] = IF writing'[c] = <<>> THEN "closed" ELSE @]

\* WRITE failed: everything queued is dropped with the last write.
WriteFails(c, n) ==
  /\ writing' = [writing EXCEPT ![c] = RemoveAt(@, n)]
  /\ IF writing'[c] = <<>> THEN Ends(c) ELSE UNCHANGED <<cache, using_file, send_data, conn>>
  /\ UNCHANGED <<version, last_path, reads, asked, undefined>>

\* The peer has gone, or has shut down its side and the timer finds it, be it in mid-write:
\* the lock of the client is given up and send_data emptied, while the kernel goes on
\* writing.  A file read goes on too.
PeerGone(c) ==
  /\ conn[c] # "closed"
  /\ Hangup \/ reads[c] = <<>>
  /\ writing' = writing
  /\ Ends(c)
  /\ UNCHANGED <<version, last_path, reads, asked, undefined>>

\* A file changes; the kernel queues an event if it is watched.
Modify(f) ==
  /\ version[f] < MaxVersion
  /\ version' = [version EXCEPT ![f] = @ + 1]
  /\ cache' = IF cache.watch_to_cache_idx[f] # -1
              THEN [cache EXCEPT !.inotify_fd = @ \cup {f}] ELSE cache
  /\ UNCHANGED <<conn, using_file, last_path, reads, send_data, writing, asked, undefined>>

\* custom_read_cb for inotify_fd: inotify_event_handler, then the next read.
inotify_event_handler(f) ==
  /\ f \in cache.inotify_fd
  /\ cache' = [cache EXCEPT !.inotify_fd = @ \ {f},
                            !.cache_buffer[cache.watch_to_cache_idx[f]].outdated = TRUE]
  /\ UNCHANGED <<version, conn, using_file, last_path, reads, send_data, writing, asked,
                 undefined>>

Next ==
  /\ ~undefined
  /\ \/ \E c \in Clients :
          \/ Connect(c) \/ PeerGone(c) \/ WriteDoneUndefined(c)
          \/ \E n \in DOMAIN writing[c] : WriteDone(c, n) \/ WriteFails(c, n)
          \/ \E f \in Files : send_file_request(c, f)
          \/ \E n \in DOMAIN reads[c] : custom_read_cb(c, n)
          \/ custom_read_undefined(c)
     \/ \E f \in Files : Modify(f) \/ inotify_event_handler(f)

Spec == Init /\ [][Next]_vars

-----------------------------------------------------------------------------
(* The list of items, lowest first, as an LRU cache sees it.               *)

Cached == N - Cardinality(cache.free_idxs)

\* The k-th item of the list, -1 past its end.
Nth[k \in 1 .. N] ==
  IF k = 1 THEN cache.lowest_idx
  ELSE IF Nth[k - 1] = -1 THEN -1
  ELSE cache.cache_buffer[Nth[k - 1]].next_item_idx

Users(i) == {c \in Clients : using_file[c] /\ cache.client_idx_to_cache_idx[c] = i}

\* A list that breaks off shows as entries without a file.
RecencyOrder ==
  [k \in 1 .. Cached |->
     [file  |-> IF Nth[k] = -1 THEN NoFile ELSE cache.cache_idx_to_filepath[Nth[k]],
      users |-> Users(Nth[k])]]

LRU == INSTANCE LRUCache WITH order <- RecencyOrder

-----------------------------------------------------------------------------
TypeOK ==
  /\ cache.cache_buffer \in
       [Idx -> [buffer : Data, lock_number : Int, next_item_idx : Idx \cup {-1},
                prev_item_idx : Idx \cup {-1}, outdated : BOOLEAN,
                watch : Watches \cup {Dead}]]
  /\ cache.filepath_to_cache_idx \in [Paths -> Idx \cup {-1}]
  /\ cache.cache_idx_to_filepath \in [Idx -> Paths]
  /\ cache.free_idxs \subseteq Idx
  /\ cache.client_idx_to_cache_idx \in [Clients -> Idx]
  /\ cache.watch_to_cache_idx \in [Watches -> Idx \cup {-1}]
  /\ cache.highest_idx \in Idx \cup {-1} /\ cache.lowest_idx \in Idx \cup {-1}
  /\ cache.inotify_fd \subseteq Files
  /\ version \in [Files -> 0 .. MaxVersion]
  /\ conn \in [Clients -> {"closed", "open", "requested"}]
  /\ using_file \in [Clients -> BOOLEAN] /\ last_path \in [Clients -> Paths]
  /\ reads \in [Clients -> Seq([file : Files, from : 0 .. MaxVersion])]
  /\ send_data \in [Clients -> Seq([slot : Idx \cup {-1}, data : Data])]
  /\ writing \in [Clients -> Seq([slot : Idx \cup {-1}, data : Data])]
  /\ asked \in [Clients -> Paths] /\ undefined \in BOOLEAN

\* Files that do not change: the linked list, the maps and the lock numbers together
\* behave as an LRU cache whose entries are not given up while a client uses them,
\* also when two clients miss the same file and both insert it.
RefinesLRU == LRU!Spec

\* "if non zero then this item should NOT be removed (in use)" (cache.h,
\* lock_number): what a client has in send_data, its front being written, stays in its
\* slot of the cache until it is popped, as write_connection keeps a pointer into it.
ServedIntact ==
  \A c \in Clients : \A k \in DOMAIN send_data[c] :
    LET w == send_data[c][k] IN
    w.slot # -1 => cache.cache_buffer[w.slot].buffer = w.data

\* "only if the lock_number is 0, then this item can be inserted in place of the old one
\* (otherwise the old one is still in use)" (cache.h, try_insert_item): the kernel finds
\* in the slot what it was told to write from there.
WrittenIntact ==
  \A c \in Clients : \A k \in DOMAIN writing[c] :
    LET w == writing[c][k] IN
    w.slot # -1 => cache.cache_buffer[w.slot].buffer = w.data

\* A client is sent the content of the file it asked for (send_file_request:
\* "when the file is read, it will be stored with the correct file path").
RightFile ==
  \A c \in Clients : \A k \in DOMAIN send_data[c] :
    LET w == send_data[c][k] IN w.data # NoData /\ w.data.file = asked[c]

\* A watch the kernel still reports on leads to the slot that was filled for its
\* file, whatever was dropped, evicted or inserted twice: an event never marks
\* another file's item as outdated.
WatchLeadsToItem ==
  \A f \in Files :
    LET i == cache.watch_to_cache_idx[f] IN
    i # -1 => /\ cache.cache_buffer[i].watch = f
              /\ cache.cache_buffer[i].buffer # NoData
              /\ cache.cache_idx_to_filepath[i] = f

=============================================================================
