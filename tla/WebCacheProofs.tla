--------------------------- MODULE WebCacheProofs ---------------------------
(***************************************************************************)
(* What WebCache promises for a cache of any size and any number of files  *)
(* and clients.  The methods are operators on the cache record, so the     *)
(* parts of the invariants are predicates on such a record, with a lemma   *)
(* for each method.                                                        *)
(***************************************************************************)
EXTENDS WebCache, FiniteSetTheorems, SequenceTheorems, TLAPS

Fields ==
  {"cache_buffer", "filepath_to_cache_idx", "cache_idx_to_filepath", "free_idxs",
   "client_idx_to_cache_idx", "watch_to_cache_idx", "inotify_fd", "highest_idx", "lowest_idx"}

Links == Idx \cup {-1}

Items ==
  [buffer : Data, lock_number : Int, next_item_idx : Links, prev_item_idx : Links,
   outdated : BOOLEAN, watch : Watches \cup {Dead}]

\* The type of the cache record.
Typed(k) ==
  /\ DOMAIN k = Fields
  /\ k.cache_buffer \in [Idx -> Items]
  /\ k.filepath_to_cache_idx \in [Paths -> Links]
  /\ k.cache_idx_to_filepath \in [Idx -> Paths]
  /\ k.free_idxs \subseteq Idx
  /\ k.client_idx_to_cache_idx \in [Clients -> Idx]
  /\ k.watch_to_cache_idx \in [Watches -> Links]
  /\ k.inotify_fd \subseteq Files
  /\ k.highest_idx \in Links /\ k.lowest_idx \in Links

\* WatchLeadsToItem of any cache record; and no watch leads to a free slot, which is filled
\* with any file next.
Watched(k) ==
  \A f \in Files : k.watch_to_cache_idx[f] # -1 =>
    /\ k.cache_buffer[k.watch_to_cache_idx[f]].watch = f
    /\ k.cache_buffer[k.watch_to_cache_idx[f]].buffer # NoData
    /\ k.cache_idx_to_filepath[k.watch_to_cache_idx[f]] = f
    /\ k.watch_to_cache_idx[f] \notin k.free_idxs

KInv(k) == Typed(k) /\ Watched(k)

-----------------------------------------------------------------------------
(* The linked list: what is relinked keeps its content.                    *)

\* Only the list differs.
Relinked(u, k) ==
  /\ u.filepath_to_cache_idx = k.filepath_to_cache_idx
  /\ u.cache_idx_to_filepath = k.cache_idx_to_filepath
  /\ u.free_idxs = k.free_idxs
  /\ u.client_idx_to_cache_idx = k.client_idx_to_cache_idx
  /\ u.watch_to_cache_idx = k.watch_to_cache_idx
  /\ u.inotify_fd = k.inotify_fd
  /\ \A i \in Idx : /\ u.cache_buffer[i].buffer = k.cache_buffer[i].buffer
                    /\ u.cache_buffer[i].lock_number = k.cache_buffer[i].lock_number
                    /\ u.cache_buffer[i].outdated = k.cache_buffer[i].outdated
                    /\ u.cache_buffer[i].watch = k.cache_buffer[i].watch

LEMMA RelinkedWatched ==
  ASSUME NEW k, KInv(k), NEW u, Typed(u), Relinked(u, k)
  PROVE  KInv(u)
  BY DEF KInv, Typed, Watched, Relinked, Links, Watches

LEMMA RelinkedTwice ==
  ASSUME NEW k, NEW u, NEW v, Relinked(u, k), Relinked(v, u)
  PROVE  Relinked(v, k)
  BY DEF Relinked

\* One item is replaced.
LEMMA ItemPut ==
  ASSUME NEW B \in [Idx -> Items], NEW i, NEW e \in Items, NEW D, D = [B EXCEPT ![i] = e]
  PROVE  /\ D \in [Idx -> Items]
         /\ \A j \in Idx : j # i => D[j] = B[j]
         /\ i \in Idx => D[i] = e
  OBVIOUS

LEMMA LinkNext ==
  ASSUME NEW k, Typed(k), NEW i \in Links, NEW n \in Links,
         NEW u, u = [k EXCEPT !.cache_buffer[i].next_item_idx = n]
  PROVE  /\ Typed(u) /\ Relinked(u, k) /\ u.highest_idx = k.highest_idx
         /\ u.lowest_idx = k.lowest_idx
<1> DEFINE D == [k.cache_buffer EXCEPT ![i] = [@ EXCEPT !.next_item_idx = n]]
<1>1. /\ u.cache_buffer = D /\ DOMAIN u = Fields
      /\ u.filepath_to_cache_idx = k.filepath_to_cache_idx
      /\ u.cache_idx_to_filepath = k.cache_idx_to_filepath
      /\ u.free_idxs = k.free_idxs
      /\ u.client_idx_to_cache_idx = k.client_idx_to_cache_idx
      /\ u.watch_to_cache_idx = k.watch_to_cache_idx
      /\ u.inotify_fd = k.inotify_fd
      /\ u.highest_idx = k.highest_idx /\ u.lowest_idx = k.lowest_idx
  BY DEF Typed, Fields
<1>2. k.cache_buffer \in [Idx -> Items]
  BY DEF Typed
<1>3. D \in [Idx -> Items]
  BY <1>2 DEF Items
<1>4. \A j \in Idx : /\ D[j].buffer = k.cache_buffer[j].buffer
                     /\ D[j].lock_number = k.cache_buffer[j].lock_number
                     /\ D[j].outdated = k.cache_buffer[j].outdated
                     /\ D[j].watch = k.cache_buffer[j].watch
  BY <1>2 DEF Items
<1> HIDE DEF D
<1> QED
  BY <1>1, <1>3, <1>4 DEF Typed, Relinked

LEMMA LinkPrev ==
  ASSUME NEW k, Typed(k), NEW i \in Links, NEW n \in Links,
         NEW u, u = [k EXCEPT !.cache_buffer[i].prev_item_idx = n]
  PROVE  /\ Typed(u) /\ Relinked(u, k) /\ u.highest_idx = k.highest_idx
         /\ u.lowest_idx = k.lowest_idx
<1> DEFINE D == [k.cache_buffer EXCEPT ![i] = [@ EXCEPT !.prev_item_idx = n]]
<1>1. /\ u.cache_buffer = D /\ DOMAIN u = Fields
      /\ u.filepath_to_cache_idx = k.filepath_to_cache_idx
      /\ u.cache_idx_to_filepath = k.cache_idx_to_filepath
      /\ u.free_idxs = k.free_idxs
      /\ u.client_idx_to_cache_idx = k.client_idx_to_cache_idx
      /\ u.watch_to_cache_idx = k.watch_to_cache_idx
      /\ u.inotify_fd = k.inotify_fd
      /\ u.highest_idx = k.highest_idx /\ u.lowest_idx = k.lowest_idx
  BY DEF Typed, Fields
<1>2. k.cache_buffer \in [Idx -> Items]
  BY DEF Typed
<1>3. D \in [Idx -> Items]
  BY <1>2 DEF Items
<1>4. \A j \in Idx : /\ D[j].buffer = k.cache_buffer[j].buffer
                     /\ D[j].lock_number = k.cache_buffer[j].lock_number
                     /\ D[j].outdated = k.cache_buffer[j].outdated
                     /\ D[j].watch = k.cache_buffer[j].watch
  BY <1>2 DEF Items
<1> HIDE DEF D
<1> QED
  BY <1>1, <1>3, <1>4 DEF Typed, Relinked

LEMMA LinkEnds ==
  ASSUME NEW k, Typed(k), NEW h \in Links, NEW l \in Links,
         NEW u, u = [k EXCEPT !.highest_idx = h, !.lowest_idx = l]
  PROVE  Typed(u) /\ Relinked(u, k)
  BY DEF Typed, Fields, Relinked

LEMMA MinusOneLink == -1 \in Links /\ -1 \notin Idx
  BY CacheAssumption DEF Links, Idx, CacheAssumption

\* Unlink.
LEMMA UnlinkRelinks ==
  ASSUME NEW k, Typed(k), NEW i \in Idx, NEW u, u = Unlink(k, i)
  PROVE  Typed(u) /\ Relinked(u, k) /\ u.highest_idx = k.highest_idx
<1> DEFINE p == k.cache_buffer[i].prev_item_idx
           n == k.cache_buffer[i].next_item_idx
<1>1. p \in Links /\ n \in Links
  BY DEF Typed, Items
<1>2. CASE p # -1
  <2> DEFINE v == [k EXCEPT !.cache_buffer[p].next_item_idx = n]
             q == v.cache_buffer[i].prev_item_idx
  <2>1. u = [v EXCEPT !.cache_buffer[n].prev_item_idx = q]
    BY <1>2 DEF Unlink
  <2> HIDE DEF p, n
  <2>2. Typed(v) /\ Relinked(v, k) /\ v.highest_idx = k.highest_idx
    BY <1>1, LinkNext
  <2> HIDE DEF v
  <2>3. q \in Links
    BY <2>2 DEF Typed, Items
  <2> HIDE DEF q
  <2>4. Typed(u) /\ Relinked(u, v) /\ u.highest_idx = v.highest_idx
    BY <1>1, <2>1, <2>2, <2>3, LinkPrev
  <2> QED
    BY <2>2, <2>4, RelinkedTwice
<1>3. CASE p = -1
  <2> DEFINE v == [k EXCEPT !.cache_buffer[n].prev_item_idx = -1]
  <2>1. u = [k EXCEPT !.cache_buffer[n].prev_item_idx = -1, !.lowest_idx = n]
    BY <1>3 DEF Unlink
  <2> HIDE DEF p, n
  <2>2. Typed(v) /\ Relinked(v, k) /\ v.highest_idx = k.highest_idx
    BY <1>1, MinusOneLink, LinkPrev
  <2>3. u = [v EXCEPT !.lowest_idx = n]
    BY <2>1
  <2> HIDE DEF v
  <2>4. Typed(u) /\ Relinked(u, v) /\ u.highest_idx = v.highest_idx
    BY <1>1, <2>2, <2>3 DEF Typed, Fields, Relinked
  <2> QED
    BY <2>2, <2>4, RelinkedTwice
<1> QED
  BY <1>2, <1>3

\* Promote.
LEMMA PromoteRelinks ==
  ASSUME NEW k, Typed(k), NEW i \in Idx, NEW u, u = Promote(k, i)
  PROVE  Typed(u) /\ Relinked(u, k)
<1> DEFINE h == k.highest_idx
           v == [k EXCEPT !.cache_buffer[h].next_item_idx = i]
           w == [v EXCEPT !.cache_buffer[i].next_item_idx = -1]
           x == [w EXCEPT !.cache_buffer[i].prev_item_idx = h]
<1>1. h \in Links /\ i \in Links
  BY DEF Typed, Links
<1>2. u = [v EXCEPT !.cache_buffer[i].next_item_idx = -1, !.cache_buffer[i].prev_item_idx = h,
                    !.highest_idx = i]
  BY DEF Promote
<1> HIDE DEF h
<1>3. Typed(v) /\ Relinked(v, k)
  BY <1>1, LinkNext
<1> HIDE DEF v
<1>4. Typed(w) /\ Relinked(w, v)
  BY <1>1, <1>3, MinusOneLink, LinkNext
<1>5. u = [w EXCEPT !.cache_buffer[i].prev_item_idx = h, !.highest_idx = i]
  BY <1>2
<1> HIDE DEF w
<1>6. Typed(x) /\ Relinked(x, w)
  BY <1>1, <1>4, LinkPrev
<1>7. u = [x EXCEPT !.highest_idx = i]
  BY <1>5
<1> HIDE DEF x
<1>8. Typed(u) /\ Relinked(u, x)
  BY <1>1, <1>6, <1>7 DEF Typed, Fields, Relinked
<1>9. Relinked(w, k)
  BY <1>3, <1>4, RelinkedTwice
<1>10. Relinked(x, k)
  BY <1>6, <1>9, RelinkedTwice
<1> QED
  BY <1>8, <1>10, RelinkedTwice

-----------------------------------------------------------------------------
(* Watches, and slots that are blanked and filled.                         *)

\* No watch leads to slot i.
Unwatched(k, i) == \A f \in Files : k.watch_to_cache_idx[f] # i

\* Slot i has the same content, and is used as before.
Content(u, k, i) ==
  /\ u.cache_buffer[i].buffer = k.cache_buffer[i].buffer
  /\ u.cache_buffer[i].lock_number = k.cache_buffer[i].lock_number
  /\ u.cache_buffer[i].outdated = k.cache_buffer[i].outdated

\* Only watches, and links of the list, differ.
Rewatched(u, k) ==
  /\ u.filepath_to_cache_idx = k.filepath_to_cache_idx
  /\ u.cache_idx_to_filepath = k.cache_idx_to_filepath
  /\ u.free_idxs = k.free_idxs
  /\ u.client_idx_to_cache_idx = k.client_idx_to_cache_idx
  /\ u.inotify_fd \subseteq k.inotify_fd
  /\ \A i \in Idx : Content(u, k, i)

LEMMA RelinkedRewatched ==
  ASSUME NEW k, NEW u, NEW v, Relinked(u, k), Rewatched(v, u)
  PROVE  Rewatched(v, k)
  BY DEF Relinked, Rewatched, Content

\* Unwatch: no watch leads to a slot that had this one.
LEMMA UnwatchKInv ==
  ASSUME NEW k, KInv(k), NEW w \in Watches \cup {Dead}, NEW u, u = Unwatch(k, w)
  PROVE  /\ KInv(u) /\ Rewatched(u, k) /\ u.lowest_idx = k.lowest_idx
         /\ \A i \in Idx : k.cache_buffer[i].watch = w => Unwatched(u, i)
<1>t. /\ Typed(k) /\ Watched(k) /\ Dead \notin Files /\ Failed \notin Files
      /\ Files \subseteq Watches
  BY CacheAssumption DEF KInv, CacheAssumption, Watches
<1>1. CASE w = Dead
  <2>1. u = k
    BY <1>1 DEF Unwatch
  <2>2. \A i \in Idx : k.cache_buffer[i].watch = w => Unwatched(u, i)
    BY <1>1, <1>t, <2>1, MinusOneLink DEF Unwatched, Watched
  <2> QED
    BY <1>t, <2>1, <2>2 DEF KInv, Rewatched, Content
<1>2. CASE w # Dead
  <2> DEFINE D == [i \in Idx |-> IF k.cache_buffer[i].watch = w /\ w # Failed
                                 THEN [k.cache_buffer[i] EXCEPT !.watch = Dead]
                                 ELSE k.cache_buffer[i]]
  <2>1. /\ u.cache_buffer = D /\ DOMAIN u = Fields
        /\ u.filepath_to_cache_idx = k.filepath_to_cache_idx
        /\ u.cache_idx_to_filepath = k.cache_idx_to_filepath
        /\ u.free_idxs = k.free_idxs
        /\ u.client_idx_to_cache_idx = k.client_idx_to_cache_idx
        /\ u.watch_to_cache_idx = [k.watch_to_cache_idx EXCEPT ![w] = -1]
        /\ u.inotify_fd = k.inotify_fd \ {w}
        /\ u.highest_idx = k.highest_idx /\ u.lowest_idx = k.lowest_idx
    BY <1>2, <1>t DEF Unwatch, Typed, Fields
  <2>b. k.cache_buffer \in [Idx -> Items]
    BY <1>t DEF Typed
  <2>2. D \in [Idx -> Items]
    BY <2>b DEF Items
  <2>3. \A i \in Idx : /\ D[i].buffer = k.cache_buffer[i].buffer
                       /\ D[i].lock_number = k.cache_buffer[i].lock_number
                       /\ D[i].outdated = k.cache_buffer[i].outdated
                       /\ k.cache_buffer[i].watch # w => D[i] = k.cache_buffer[i]
    BY <2>b DEF Items
  <2> HIDE DEF D
  <2>4. /\ k.watch_to_cache_idx \in [Watches -> Links]
        /\ \A f \in Watches : u.watch_to_cache_idx[f] =
                              IF f = w THEN -1 ELSE k.watch_to_cache_idx[f]
    BY <1>t, <2>1 DEF Typed
  <2>5. Typed(u)
    <3>1. u.watch_to_cache_idx \in [Watches -> Links]
      BY <2>1, <2>4, MinusOneLink
    <3> QED
      BY <1>t, <2>1, <2>2, <3>1 DEF Typed
  <2>6. Watched(u)
    BY <1>t, <2>1, <2>3, <2>4 DEF Watched, Links
  <2>7. Rewatched(u, k)
    BY <2>1, <2>3 DEF Rewatched, Content
  <2>8. \A i \in Idx : k.cache_buffer[i].watch = w => Unwatched(u, i)
    BY <1>t, <2>4, MinusOneLink DEF Unwatched, Watched
  <2> QED
    BY <2>1, <2>5, <2>6, <2>7, <2>8 DEF KInv
<1> QED
  BY <1>1, <1>2

\* An item that is not there.
LEMMA BlankItem ==
  /\ cache_item \in Items /\ cache_item.buffer = NoData /\ cache_item.lock_number = 0
  /\ cache_item.outdated = FALSE
<1>1. NoData \in Data /\ 0 \in Int /\ FALSE \in BOOLEAN /\ -1 \in Links /\ Dead \in Watches \cup {Dead}
  BY MinusOneLink DEF Data
<1> QED
  BY <1>1 DEF cache_item, Items

\* A slot to which no watch leads is blanked.
LEMMA BlankWatched ==
  ASSUME NEW k, KInv(k), NEW i \in Idx, Unwatched(k, i), NEW u, Typed(u),
         u.watch_to_cache_idx = k.watch_to_cache_idx,
         u.cache_buffer = [k.cache_buffer EXCEPT ![i] = cache_item],
         \A j \in Idx : j # i => u.cache_idx_to_filepath[j] = k.cache_idx_to_filepath[j],
         u.free_idxs \subseteq k.free_idxs \cup {i}
  PROVE  KInv(u)
<1>1. \A j \in Idx : j # i => u.cache_buffer[j] = k.cache_buffer[j]
  BY DEF KInv, Typed
<1>2. Watched(u)
  BY <1>1 DEF KInv, Typed, Watched, Unwatched, Links, Watches
<1> QED
  BY <1>2 DEF KInv

\* Slot i is blank; the others are as they were.
Blanked(u, k, i) ==
  /\ u.client_idx_to_cache_idx = k.client_idx_to_cache_idx
  /\ u.inotify_fd \subseteq k.inotify_fd
  /\ u.cache_buffer[i].buffer = NoData /\ u.cache_buffer[i].lock_number = 0
  /\ u.cache_buffer[i].outdated = FALSE
  /\ \A j \in Idx : j # i => Content(u, k, j)

\* Drop.
LEMMA DropKInv ==
  ASSUME NEW k, KInv(k), NEW i \in Idx, NEW u, u = Drop(k, i)
  PROVE  KInv(u)
<1> DEFINE w == k.cache_buffer[i].watch
           v == Unwatch(k, w)
<1>1. w \in Watches \cup {Dead}
  BY DEF KInv, Typed, Items
<1>2. u = [v EXCEPT !.free_idxs = @ \cup {i}, !.cache_buffer[i] = cache_item]
  BY DEF Drop
<1>3. k.cache_buffer[i].watch = w
  OBVIOUS
<1> HIDE DEF w
<1>4. KInv(v) /\ Unwatched(v, i)
  BY <1>1, <1>3, UnwatchKInv
<1> HIDE DEF v
<1>5. /\ u.cache_buffer = [v.cache_buffer EXCEPT ![i] = cache_item] /\ DOMAIN u = Fields
      /\ u.filepath_to_cache_idx = v.filepath_to_cache_idx
      /\ u.cache_idx_to_filepath = v.cache_idx_to_filepath
      /\ u.free_idxs = v.free_idxs \cup {i}
      /\ u.client_idx_to_cache_idx = v.client_idx_to_cache_idx
      /\ u.watch_to_cache_idx = v.watch_to_cache_idx
      /\ u.inotify_fd = v.inotify_fd
      /\ u.highest_idx = v.highest_idx /\ u.lowest_idx = v.lowest_idx
  BY <1>2, <1>4 DEF KInv, Typed, Fields
<1>6. Typed(u)
  <2>1. u.cache_buffer \in [Idx -> Items]
    BY <1>4, <1>5, BlankItem, ItemPut DEF KInv, Typed
  <2> QED
    BY <1>4, <1>5, <2>1 DEF KInv, Typed
<1> QED
  BY <1>4, <1>5, <1>6, BlankWatched

\* What Evict does: slot l is blank, and its path leads nowhere.
Evicted(u, k, l) ==
  /\ Blanked(u, k, l) /\ Unwatched(u, l)
  /\ u.free_idxs = k.free_idxs
  /\ u.filepath_to_cache_idx = [k.filepath_to_cache_idx EXCEPT ![k.cache_idx_to_filepath[l]] = -1]
  /\ u.cache_idx_to_filepath = [k.cache_idx_to_filepath EXCEPT ![l] = NoFile]

LEMMA EvictKInv ==
  ASSUME NEW k, KInv(k), k.lowest_idx \in Idx, NEW u, u = Evict(k)
  PROVE  KInv(u) /\ Evicted(u, k, k.lowest_idx)
<1> DEFINE l == k.lowest_idx
           n == k.cache_buffer[l].next_item_idx
           w == k.cache_buffer[l].watch
           x == [k EXCEPT !.cache_buffer[n].prev_item_idx = -1]
           v == Unwatch(x, w)
           p == k.cache_idx_to_filepath[l]
<1>1. /\ n \in Links /\ w \in Watches \cup {Dead} /\ p \in Paths /\ Typed(k) /\ l \in Idx
      /\ k.cache_buffer[l].watch = w
  BY DEF KInv, Typed, Items
<1>2. u = [v EXCEPT !.cache_buffer[l] = cache_item,
                    !.filepath_to_cache_idx[p] = -1,
                    !.cache_idx_to_filepath[l] = NoFile,
                    !.lowest_idx = n]
  BY DEF Evict
<1> HIDE DEF l, n, w, p
<1>3. Typed(x) /\ Relinked(x, k)
  BY <1>1, MinusOneLink, LinkPrev
<1> HIDE DEF x
<1>4. KInv(x)
  BY <1>3, RelinkedWatched
<1>5. x.cache_buffer[l].watch = w
  BY <1>1, <1>3 DEF Relinked
<1>6. KInv(v) /\ Unwatched(v, l) /\ Rewatched(v, x)
  BY <1>1, <1>4, <1>5, UnwatchKInv
<1> HIDE DEF v
<1>7. Rewatched(v, k)
  BY <1>3, <1>6, RelinkedRewatched
<1>8. /\ u.cache_buffer = [v.cache_buffer EXCEPT ![l] = cache_item] /\ DOMAIN u = Fields
      /\ u.filepath_to_cache_idx = [v.filepath_to_cache_idx EXCEPT ![p] = -1]
      /\ u.cache_idx_to_filepath = [v.cache_idx_to_filepath EXCEPT ![l] = NoFile]
      /\ u.free_idxs = v.free_idxs
      /\ u.client_idx_to_cache_idx = v.client_idx_to_cache_idx
      /\ u.watch_to_cache_idx = v.watch_to_cache_idx
      /\ u.inotify_fd = v.inotify_fd
      /\ u.highest_idx = v.highest_idx /\ u.lowest_idx = n
  BY <1>2, <1>6 DEF KInv, Typed, Fields
<1>t. Typed(v)
  BY <1>6 DEF KInv
<1>9. Typed(u)
  <2>b. v.cache_buffer \in [Idx -> Items] /\ v.cache_idx_to_filepath \in [Idx -> Paths]
    BY <1>t DEF Typed
  <2>c. cache_item \in Items /\ NoFile \in Paths
    BY BlankItem DEF Paths
  <2>1. u.cache_buffer \in [Idx -> Items]
    BY <1>8, <2>b, <2>c
  <2>2. u.filepath_to_cache_idx \in [Paths -> Links]
    BY <1>t, <1>8, MinusOneLink DEF Typed
  <2>3. u.cache_idx_to_filepath \in [Idx -> Paths]
    BY <1>8, <2>b, <2>c
  <2> QED
    BY <1>t, <1>1, <1>8, <2>1, <2>2, <2>3 DEF Typed
<1>10. \A j \in Idx : j # l => u.cache_idx_to_filepath[j] = v.cache_idx_to_filepath[j]
  BY <1>t, <1>8 DEF Typed
<1>11. KInv(u)
  <2>1. /\ u.watch_to_cache_idx = v.watch_to_cache_idx
        /\ u.cache_buffer = [v.cache_buffer EXCEPT ![l] = cache_item]
        /\ u.free_idxs \subseteq v.free_idxs \cup {l}
    BY <1>8
  <2> QED
    BY <1>1, <1>6, <1>9, <1>10, <2>1, BlankWatched
<1>12. /\ u.cache_buffer[l] = cache_item
       /\ \A j \in Idx : j # l => u.cache_buffer[j] = v.cache_buffer[j]
  BY <1>t, <1>1, <1>8 DEF Typed
<1>13. \A j \in Idx : j # l => Content(u, k, j)
  BY <1>7, <1>12 DEF Rewatched, Content
<1>14. Blanked(u, k, l)
  BY <1>7, <1>8, <1>12, <1>13, BlankItem DEF Blanked, Rewatched
<1>15. Unwatched(u, l)
  BY <1>6, <1>8 DEF Unwatched
<1>16. Evicted(u, k, l)
  BY <1>7, <1>8, <1>14, <1>15 DEF Evicted, Rewatched, p
<1> QED
  BY <1>11, <1>16 DEF l

\* What Fill does.
Filled(u, k, i, path, data) ==
  /\ u.filepath_to_cache_idx = [k.filepath_to_cache_idx EXCEPT ![path] = i]
  /\ u.cache_idx_to_filepath = [k.cache_idx_to_filepath EXCEPT ![i] = path]
  /\ u.free_idxs = k.free_idxs
  /\ u.client_idx_to_cache_idx = k.client_idx_to_cache_idx
  /\ u.inotify_fd = k.inotify_fd
  /\ u.cache_buffer[i].buffer = data
  /\ u.cache_buffer[i].lock_number = k.cache_buffer[i].lock_number
  /\ u.cache_buffer[i].outdated = k.cache_buffer[i].outdated
  /\ \A j \in Idx : j # i => Content(u, k, j)

LEMMA FillKInv ==
  ASSUME NEW k, KInv(k), NEW i \in Idx, i \notin k.free_idxs, Unwatched(k, i),
         NEW path \in Paths, NEW data \in Data \ {NoData}, NEW w \in added_watch(path),
         NEW u, u = Fill(k, i, path, data, w)
  PROVE  KInv(u) /\ Filled(u, k, i, path, data)
<1> DEFINE h == k.highest_idx
           x == IF h = -1 THEN k ELSE [k EXCEPT !.cache_buffer[h].next_item_idx = i]
           e == [x.cache_buffer[i] EXCEPT !.watch = w, !.prev_item_idx = h,
                                          !.next_item_idx = -1, !.buffer = data]
<1>1. h \in Links /\ i \in Links /\ Typed(k) /\ w \in Watches /\ (w \in Files => w = path)
  BY CacheAssumption DEF KInv, Typed, Links, added_watch, CacheAssumption
<1>2. u = [x EXCEPT !.filepath_to_cache_idx[path] = i,
                !.cache_idx_to_filepath[i] = path,
                !.cache_buffer[i].watch = w,
                !.cache_buffer[i].prev_item_idx = h,
                !.cache_buffer[i].next_item_idx = -1,
                !.cache_buffer[i].buffer = data,
                !.highest_idx = i,
                !.watch_to_cache_idx[w] = i]
  BY DEF Fill
<1> HIDE DEF h
<1>3. Typed(x) /\ Relinked(x, k) /\ x.lowest_idx = k.lowest_idx
  <2>1. CASE h = -1
    BY <1>1, <2>1 DEF Relinked
  <2>2. CASE h # -1
    BY <1>1, <2>2, LinkNext
  <2> QED
    BY <2>1, <2>2
<1> HIDE DEF x
<1>4. KInv(x)
  BY <1>3, RelinkedWatched
<1>d. DOMAIN x = Fields /\ DOMAIN u = Fields
  BY <1>2, <1>3 DEF Typed
<1>b. u.cache_buffer = [x.cache_buffer EXCEPT ![i] = e]
  <2>1. x.cache_buffer \in [Idx -> Items]
    BY <1>3 DEF Typed
  <2>2. u.cache_buffer = [x.cache_buffer EXCEPT ![i].watch = w, ![i].prev_item_idx = h,
                                                ![i].next_item_idx = -1, ![i].buffer = data]
    BY <1>2, <1>d DEF Fields
  <2> QED
    BY <2>1, <2>2
<1>w. u.watch_to_cache_idx = [x.watch_to_cache_idx EXCEPT ![w] = i]
  BY <1>2, <1>d DEF Fields
<1>p. u.filepath_to_cache_idx = [x.filepath_to_cache_idx EXCEPT ![path] = i]
  BY <1>2, <1>d DEF Fields
<1>i. u.cache_idx_to_filepath = [x.cache_idx_to_filepath EXCEPT ![i] = path]
  BY <1>2, <1>d DEF Fields
<1>r. /\ u.free_idxs = x.free_idxs
      /\ u.client_idx_to_cache_idx = x.client_idx_to_cache_idx
      /\ u.inotify_fd = x.inotify_fd
      /\ u.highest_idx = i /\ u.lowest_idx = x.lowest_idx
  BY <1>2, <1>d DEF Fields
<1>5. /\ u.cache_buffer = [x.cache_buffer EXCEPT ![i] = e] /\ DOMAIN u = Fields
      /\ u.filepath_to_cache_idx = [x.filepath_to_cache_idx EXCEPT ![path] = i]
      /\ u.cache_idx_to_filepath = [x.cache_idx_to_filepath EXCEPT ![i] = path]
      /\ u.free_idxs = x.free_idxs
      /\ u.client_idx_to_cache_idx = x.client_idx_to_cache_idx
      /\ u.watch_to_cache_idx = [x.watch_to_cache_idx EXCEPT ![w] = i]
      /\ u.inotify_fd = x.inotify_fd
      /\ u.highest_idx = i /\ u.lowest_idx = x.lowest_idx
  BY <1>b, <1>d, <1>p, <1>i, <1>w, <1>r
<1>6. /\ e \in Items /\ e.watch = w /\ e.buffer = data
      /\ e.lock_number = x.cache_buffer[i].lock_number
      /\ e.outdated = x.cache_buffer[i].outdated
  <2>1. x.cache_buffer[i] \in Items /\ -1 \in Links /\ data \in Data
    BY <1>3, MinusOneLink DEF Typed
  <2> QED
    BY <1>1, <2>1 DEF Items
<1> HIDE DEF e
<1>7. Typed(u)
  <2>1. u.cache_buffer \in [Idx -> Items]
    BY <1>3, <1>5, <1>6, ItemPut DEF Typed
  <2>2. u.filepath_to_cache_idx \in [Paths -> Links]
    BY <1>1, <1>3, <1>5 DEF Typed
  <2>3. u.cache_idx_to_filepath \in [Idx -> Paths]
    BY <1>3, <1>5 DEF Typed
  <2>4. u.watch_to_cache_idx \in [Watches -> Links]
    BY <1>1, <1>3, <1>5 DEF Typed
  <2> QED
    BY <1>1, <1>3, <1>5, <2>1, <2>2, <2>3, <2>4 DEF Typed
<1>8. /\ u.cache_buffer[i] = e
      /\ \A j \in Idx : j # i => u.cache_buffer[j] = x.cache_buffer[j]
      /\ u.cache_idx_to_filepath[i] = path
      /\ \A j \in Idx : j # i => u.cache_idx_to_filepath[j] = x.cache_idx_to_filepath[j]
      /\ u.watch_to_cache_idx[w] = i
      /\ \A f \in Files : f # w => u.watch_to_cache_idx[f] = x.watch_to_cache_idx[f]
  BY <1>1, <1>3, <1>5 DEF Typed, Watches
<1>9. Watched(u)
  <2> SUFFICES ASSUME NEW f \in Files, u.watch_to_cache_idx[f] # -1
               PROVE  /\ u.cache_buffer[u.watch_to_cache_idx[f]].watch = f
                      /\ u.cache_buffer[u.watch_to_cache_idx[f]].buffer # NoData
                      /\ u.cache_idx_to_filepath[u.watch_to_cache_idx[f]] = f
                      /\ u.watch_to_cache_idx[f] \notin u.free_idxs
    BY DEF Watched
  <2>1. CASE f = w
    <3>1. u.watch_to_cache_idx[f] = i /\ path = f /\ i \notin u.free_idxs
      BY <1>1, <1>3, <1>5, <1>8, <2>1 DEF Relinked
    <3> QED
      BY <1>6, <1>8, <2>1, <3>1
  <2>2. CASE f # w
    <3>1. u.watch_to_cache_idx[f] = x.watch_to_cache_idx[f]
      BY <1>8, <2>2
    <3>2. x.watch_to_cache_idx[f] \in Idx /\ x.watch_to_cache_idx[f] # i
      BY <1>3, <3>1 DEF Typed, Links, Unwatched, Relinked, Watches
    <3> QED
      BY <1>4, <1>5, <1>8, <3>1, <3>2 DEF KInv, Watched
  <2> QED
    BY <2>1, <2>2
<1>10. \A j \in Idx : j # i => Content(u, k, j)
  BY <1>3, <1>8 DEF Relinked, Content
<1>11. Filled(u, k, i, path, data)
  BY <1>3, <1>5, <1>6, <1>8, <1>10 DEF Relinked, Filled
<1> QED
  BY <1>7, <1>9, <1>11 DEF KInv

-----------------------------------------------------------------------------
(* try_insert_item and fetch_item.                                         *)

\* What try_insert_item does with slot i: it was free, or nobody used it.
Inserted(u, k, i, path, data) ==
  /\ i \in Idx /\ i \notin u.free_idxs /\ u.free_idxs \subseteq k.free_idxs
  /\ i \in k.free_idxs \/ k.cache_buffer[i].lock_number = 0
  /\ u.client_idx_to_cache_idx = k.client_idx_to_cache_idx
  /\ u.inotify_fd \subseteq k.inotify_fd
  /\ u.filepath_to_cache_idx[path] = i
  /\ \A p \in Paths : p # path => u.filepath_to_cache_idx[p] \in {k.filepath_to_cache_idx[p], -1}
  /\ \A p \in Paths : p # path /\ i \notin k.free_idxs /\ p = k.cache_idx_to_filepath[i]
                        => u.filepath_to_cache_idx[p] = -1
  /\ u.cache_idx_to_filepath = [k.cache_idx_to_filepath EXCEPT ![i] = path]
  /\ u.cache_buffer[i].buffer = data
  /\ u.cache_buffer[i].lock_number = k.cache_buffer[i].lock_number
  /\ u.cache_buffer[i].outdated = TRUE => k.cache_buffer[i].outdated = TRUE
  /\ \A j \in Idx : j # i => Content(u, k, j)

LEMMA InsertKInv ==
  ASSUME NEW k, KInv(k), ~OutOfBounds(k), NEW path \in Paths, NEW data \in Data \ {NoData},
         NEW u \in try_insert_item(k, path, data)
  PROVE  KInv(u) /\ \E i \in Idx : Inserted(u, k, i, path, data)
<1>t. Typed(k) /\ Watched(k)
  BY DEF KInv
<1>1. CASE k.free_idxs # {}
  <2>1. PICK i \in k.free_idxs, w \in added_watch(path) :
          u = Fill([k EXCEPT !.free_idxs = @ \ {i}, !.lowest_idx = IF @ = -1 THEN i ELSE @],
                   i, path, data, w)
    BY <1>1 DEF try_insert_item
  <2> DEFINE v == [k EXCEPT !.free_idxs = @ \ {i}, !.lowest_idx = IF @ = -1 THEN i ELSE @]
  <2>2. i \in Idx
    BY <1>t DEF Typed
  <2>3. /\ v.cache_buffer = k.cache_buffer /\ DOMAIN v = Fields
        /\ v.filepath_to_cache_idx = k.filepath_to_cache_idx
        /\ v.cache_idx_to_filepath = k.cache_idx_to_filepath
        /\ v.free_idxs = k.free_idxs \ {i}
        /\ v.client_idx_to_cache_idx = k.client_idx_to_cache_idx
        /\ v.watch_to_cache_idx = k.watch_to_cache_idx
        /\ v.inotify_fd = k.inotify_fd
        /\ v.highest_idx = k.highest_idx /\ v.lowest_idx \in {i, k.lowest_idx}
    BY <1>t DEF Typed, Fields
  <2>4. u = Fill(v, i, path, data, w)
    BY <2>1
  <2> HIDE DEF v
  <2>5. Typed(v)
    BY <1>t, <2>2, <2>3 DEF Typed, Links
  <2>6. Watched(v)
    BY <1>t, <2>3 DEF Watched
  <2>7. Unwatched(v, i) /\ i \notin v.free_idxs
    BY <1>t, <2>2, <2>3, MinusOneLink DEF Watched, Unwatched
  <2>8. KInv(u) /\ Filled(u, v, i, path, data)
    BY <2>2, <2>4, <2>5, <2>6, <2>7, FillKInv DEF KInv
  <2>9. \A j \in Idx : j # i => Content(u, k, j)
    BY <2>3, <2>8 DEF Filled, Content
  <2>10. /\ u.filepath_to_cache_idx[path] = i
         /\ \A p \in Paths : p # path => u.filepath_to_cache_idx[p] = k.filepath_to_cache_idx[p]
    BY <1>t, <2>3, <2>8 DEF Typed, Filled
  <2>11. Inserted(u, k, i, path, data)
    BY <2>2, <2>3, <2>8, <2>9, <2>10 DEF Inserted, Filled
  <2> QED
    BY <2>2, <2>8, <2>11
<1>2. CASE k.free_idxs = {}
  <2> DEFINE i == k.lowest_idx
             v == Evict(k)
  <2>1. /\ CanEvict(k)
        /\ \E w \in added_watch(path) : u = Fill(v, i, path, data, w)
    BY <1>2 DEF try_insert_item
  <2>2. i \in Idx /\ k.cache_buffer[i].lock_number = 0
    BY <1>2, <1>t, <2>1 DEF OutOfBounds, Typed, Links, CanEvict
  <2>3. KInv(v) /\ Evicted(v, k, i)
    BY <2>2, EvictKInv
  <2> HIDE DEF i, v
  <2>4. i \notin v.free_idxs /\ Unwatched(v, i)
    BY <1>2, <2>3 DEF Evicted
  <2>5. KInv(u) /\ Filled(u, v, i, path, data)
    BY <2>1, <2>2, <2>3, <2>4, FillKInv
  <2>6. \A j \in Idx : j # i => Content(u, k, j)
    BY <2>3, <2>5 DEF Filled, Evicted, Blanked, Content
  <2> DEFINE q == k.cache_idx_to_filepath[i]
  <2>q. q \in Paths
    BY <1>t, <2>2 DEF Typed
  <2>7. /\ u.filepath_to_cache_idx = [v.filepath_to_cache_idx EXCEPT ![path] = i]
        /\ v.filepath_to_cache_idx = [k.filepath_to_cache_idx EXCEPT ![q] = -1]
    BY <2>3, <2>5 DEF Filled, Evicted
  <2>8. k.filepath_to_cache_idx \in [Paths -> Links] /\ k.cache_idx_to_filepath \in [Idx -> Paths]
    BY <1>t DEF Typed
  <2>9. u.cache_idx_to_filepath = [k.cache_idx_to_filepath EXCEPT ![i] = path]
    BY <2>3, <2>5, <2>8 DEF Filled, Evicted
  <2> HIDE DEF q
  <2>10. /\ u.filepath_to_cache_idx[path] = i
         /\ \A p \in Paths : p # path /\ p # q => u.filepath_to_cache_idx[p] = k.filepath_to_cache_idx[p]
         /\ \A p \in Paths : p # path /\ p = q => u.filepath_to_cache_idx[p] = -1
    BY <2>7, <2>8
  <2>11. /\ \A p \in Paths : p # path => u.filepath_to_cache_idx[p] \in {k.filepath_to_cache_idx[p], -1}
         /\ \A p \in Paths : p # path /\ i \notin k.free_idxs /\ p = k.cache_idx_to_filepath[i]
                        => u.filepath_to_cache_idx[p] = -1
    BY <2>10 DEF q
  <2>12. /\ i \notin u.free_idxs /\ u.free_idxs \subseteq k.free_idxs
         /\ u.client_idx_to_cache_idx = k.client_idx_to_cache_idx
         /\ u.inotify_fd \subseteq k.inotify_fd
         /\ u.cache_buffer[i].buffer = data
         /\ u.cache_buffer[i].lock_number = k.cache_buffer[i].lock_number
         /\ u.cache_buffer[i].outdated = FALSE
    BY <1>2, <2>2, <2>3, <2>5 DEF Filled, Evicted, Blanked
  <2>13. Inserted(u, k, i, path, data)
    BY <2>2, <2>6, <2>9, <2>10, <2>11, <2>12 DEF Inserted
  <2> QED
    BY <2>2, <2>5, <2>13
<1> QED
  BY <1>1, <1>2

\* What client c's use of the item in slot i does.
Used(u, k, i, c) ==
  /\ u.filepath_to_cache_idx = k.filepath_to_cache_idx
  /\ u.cache_idx_to_filepath = k.cache_idx_to_filepath
  /\ u.free_idxs = k.free_idxs
  /\ u.client_idx_to_cache_idx = [k.client_idx_to_cache_idx EXCEPT ![c] = i]
  /\ u.inotify_fd = k.inotify_fd
  /\ u.cache_buffer[i].lock_number = k.cache_buffer[i].lock_number + 1
  /\ \A j \in Idx : /\ j # i => u.cache_buffer[j].lock_number = k.cache_buffer[j].lock_number
                    /\ u.cache_buffer[j].buffer = k.cache_buffer[j].buffer
                    /\ u.cache_buffer[j].outdated = k.cache_buffer[j].outdated

LEMMA RelinkedUsed ==
  ASSUME NEW k, NEW i \in Idx, NEW c, NEW u, NEW v, Used(u, k, i, c), Relinked(v, u)
  PROVE  Used(v, k, i, c)
  BY DEF Relinked, Used

LEMMA LockKInv ==
  ASSUME NEW k, KInv(k), NEW i \in Idx, NEW c \in Clients,
         NEW u, u = [k EXCEPT !.cache_buffer[i].lock_number = @ + 1,
                              !.client_idx_to_cache_idx[c] = i]
  PROVE  KInv(u) /\ Used(u, k, i, c) /\ u.highest_idx = k.highest_idx
<1> DEFINE e == [k.cache_buffer[i] EXCEPT !.lock_number = @ + 1]
<1>t. Typed(k) /\ k.cache_buffer \in [Idx -> Items] /\ k.cache_buffer[i] \in Items
  BY DEF KInv, Typed
<1>1. /\ u.cache_buffer = [k.cache_buffer EXCEPT ![i] = e] /\ DOMAIN u = Fields
      /\ u.filepath_to_cache_idx = k.filepath_to_cache_idx
      /\ u.cache_idx_to_filepath = k.cache_idx_to_filepath
      /\ u.free_idxs = k.free_idxs
      /\ u.client_idx_to_cache_idx = [k.client_idx_to_cache_idx EXCEPT ![c] = i]
      /\ u.watch_to_cache_idx = k.watch_to_cache_idx
      /\ u.inotify_fd = k.inotify_fd
      /\ u.highest_idx = k.highest_idx /\ u.lowest_idx = k.lowest_idx
  BY <1>t DEF Typed, Fields
<1>2. /\ e \in Items /\ e.lock_number = k.cache_buffer[i].lock_number + 1
      /\ e.buffer = k.cache_buffer[i].buffer /\ e.outdated = k.cache_buffer[i].outdated
      /\ e.watch = k.cache_buffer[i].watch
  BY <1>t DEF Items
<1> HIDE DEF e
<1>3. /\ u.cache_buffer \in [Idx -> Items] /\ u.cache_buffer[i] = e
      /\ \A j \in Idx : j # i => u.cache_buffer[j] = k.cache_buffer[j]
  BY <1>t, <1>1, <1>2
<1>4. u.client_idx_to_cache_idx \in [Clients -> Idx]
  BY <1>t, <1>1 DEF Typed
<1>5. Typed(u)
  BY <1>t, <1>1, <1>3, <1>4 DEF Typed
<1>6. \A j \in Idx : /\ u.cache_buffer[j].watch = k.cache_buffer[j].watch
                     /\ u.cache_buffer[j].buffer = k.cache_buffer[j].buffer
  BY <1>2, <1>3
<1>7. Watched(u)
  BY <1>1, <1>5, <1>6 DEF KInv, Typed, Watched, Links, Watches
<1> QED
  BY <1>1, <1>2, <1>3, <1>5, <1>7 DEF KInv, Used

LEMMA FetchKInv ==
  ASSUME NEW k, KInv(k), NEW path \in Paths, NEW c \in Clients,
         NEW r, r = fetch_item(k, path, c)
  PROVE  /\ KInv(r.cache) /\ r.slot \in Links /\ r.locked \in BOOLEAN
         /\ k.filepath_to_cache_idx[path] = -1 => r.cache = k /\ ~r.locked /\ r.slot = -1
         /\ k.filepath_to_cache_idx[path] # -1
              /\ ~k.cache_buffer[k.filepath_to_cache_idx[path]].outdated
              => /\ r.locked /\ r.slot = k.filepath_to_cache_idx[path]
                 /\ Used(r.cache, k, r.slot, c)
<1> DEFINE i == k.filepath_to_cache_idx[path]
           item == k.cache_buffer[i]
           u == [k EXCEPT !.cache_buffer[i].lock_number = @ + 1,
                          !.client_idx_to_cache_idx[c] = i]
           v == IF item.next_item_idx # -1 THEN Unlink(u, i)
                ELSE IF item.prev_item_idx # -1
                THEN [u EXCEPT !.cache_buffer[item.prev_item_idx].next_item_idx = -1]
                ELSE u
<1>1. r = IF i = -1 THEN [cache |-> k, locked |-> FALSE, slot |-> -1]
          ELSE IF item.outdated THEN [cache |-> Drop(v, i), locked |-> TRUE, slot |-> -1]
          ELSE IF item.next_item_idx = -1 THEN [cache |-> u, locked |-> TRUE, slot |-> i]
          ELSE [cache |-> Promote(v, i), locked |-> TRUE, slot |-> i]
  BY DEF fetch_item
<1>t. Typed(k) /\ i \in Links
  BY DEF KInv, Typed
<1>2. CASE i = -1
  BY <1>1, <1>2, MinusOneLink
<1>3. CASE i # -1
  <2>1. i \in Idx /\ i \in Links /\ item.prev_item_idx \in Links
    BY <1>3, <1>t DEF Links, Typed, Items
  <2> HIDE DEF i
  <2>2. KInv(u) /\ Used(u, k, i, c)
    BY <2>1, LockKInv
  <2> HIDE DEF u
  <2>3. Typed(v) /\ Relinked(v, u)
    <3>1. CASE item.next_item_idx # -1
      BY <2>1, <2>2, <3>1, UnlinkRelinks DEF KInv
    <3>2. CASE item.next_item_idx = -1 /\ item.prev_item_idx # -1
      <4> DEFINE q == item.prev_item_idx
      <4>1. v = [u EXCEPT !.cache_buffer[q].next_item_idx = -1]
        BY <3>2
      <4>2. q \in Links /\ -1 \in Links /\ Typed(u)
        BY <2>1, <2>2, MinusOneLink DEF KInv
      <4> HIDE DEF q, v
      <4> QED
        BY <4>1, <4>2, LinkNext
    <3>3. CASE item.next_item_idx = -1 /\ item.prev_item_idx = -1
      BY <2>2, <3>3 DEF KInv, Relinked
    <3> QED
      BY <3>1, <3>2, <3>3
  <2> HIDE DEF v, item
  <2>4. KInv(v)
    BY <2>2, <2>3, RelinkedWatched
  <2>5. CASE item.outdated
    <3>1. r.cache = Drop(v, i) /\ r.locked = TRUE /\ r.slot = -1
      BY <1>1, <1>3, <2>5
    <3>2. KInv(r.cache)
      BY <2>1, <2>4, <3>1, DropKInv
    <3> QED
      BY <1>3, <2>5, <3>1, <3>2, MinusOneLink DEF item, i
  <2>6. CASE ~item.outdated
    <3>0. r.locked = TRUE /\ r.slot = i
      BY <1>1, <1>3, <2>6
    <3>1. KInv(r.cache) /\ Used(r.cache, k, i, c)
      <4>1. CASE item.next_item_idx = -1
        BY <1>1, <1>3, <2>2, <2>6, <4>1
      <4>2. CASE item.next_item_idx # -1
        <5>1. r.cache = Promote(v, i)
          BY <1>1, <1>3, <2>6, <4>2
        <5>2. Typed(r.cache) /\ Relinked(r.cache, v)
          BY <2>1, <2>3, <5>1, PromoteRelinks
        <5>3. Relinked(r.cache, u)
          BY <2>3, <5>2, RelinkedTwice
        <5> QED
          BY <2>1, <2>2, <5>2, <5>3, RelinkedWatched, RelinkedUsed
      <4> QED
        BY <4>1, <4>2
    <3> QED
      BY <1>3, <2>1, <3>0, <3>1 DEF i
  <2> QED
    BY <2>5, <2>6
<1> QED
  BY <1>2, <1>3

-----------------------------------------------------------------------------
(* The types, and the watches, for any behaviour of files and peers.       *)

Read == [file : Files, from : 0 .. MaxVersion]
Write == [slot : Links, data : Data]

\* The variables other than the cache.
ThreadTypes ==
  /\ version \in [Files -> 0 .. MaxVersion]
  /\ conn \in [Clients -> {"closed", "open", "requested"}]
  /\ using_file \in [Clients -> BOOLEAN] /\ last_path \in [Clients -> Paths]
  /\ reads \in [Clients -> Seq(Read)]
  /\ send_data \in [Clients -> Seq(Write)] /\ writing \in [Clients -> Seq(Write)]
  /\ asked \in [Clients -> Paths] /\ undefined \in BOOLEAN

CInv == KInv(cache) /\ ThreadTypes

LEMMA CInvTypeOK == CInv => TypeOK /\ WatchLeadsToItem
  BY DEF CInv, ThreadTypes, KInv, Typed, Watched, TypeOK, WatchLeadsToItem, Items, Links, Read, Write

LEMMA CInvInit == Init => CInv
<1> SUFFICES ASSUME Init PROVE CInv
  OBVIOUS
<1>1. /\ cache.cache_buffer = [i \in Idx |-> cache_item] /\ DOMAIN cache = Fields
      /\ cache.filepath_to_cache_idx = [p \in Paths |-> -1]
      /\ cache.cache_idx_to_filepath = [i \in Idx |-> NoFile]
      /\ cache.free_idxs = Idx
      /\ cache.client_idx_to_cache_idx = [c \in Clients |-> 0]
      /\ cache.watch_to_cache_idx = [w \in Watches |-> -1]
      /\ cache.inotify_fd = {} /\ cache.highest_idx = -1 /\ cache.lowest_idx = -1
  BY DEF Init, Fields, AllFree
<1>2. 0 \in Idx /\ NoFile \in Paths /\ 0 \in 0 .. MaxVersion
  BY CacheAssumption DEF CacheAssumption, Idx, Paths
<1>3. Typed(cache)
  BY <1>1, <1>2, MinusOneLink, BlankItem DEF Typed
<1>4. Watched(cache)
  BY <1>1 DEF Watched, Watches
<1>5. ThreadTypes
  BY <1>2 DEF Init, ThreadTypes
<1> QED
  BY <1>3, <1>4, <1>5 DEF CInv, KInv

LEMMA RemoveAtType ==
  ASSUME NEW S, NEW s \in Seq(S), NEW n \in DOMAIN s
  PROVE  RemoveAt(s, n) \in Seq(S)
  BY DEF RemoveAt

LEMMA UnlockKInv ==
  ASSUME NEW k, KInv(k), NEW c \in Clients, NEW u, u = finished_with_item(k, c)
  PROVE  /\ KInv(u)
         /\ ~using_file[c] => u = k
         /\ using_file[c] =>
              /\ u.filepath_to_cache_idx = k.filepath_to_cache_idx
              /\ u.cache_idx_to_filepath = k.cache_idx_to_filepath
              /\ u.free_idxs = k.free_idxs
              /\ u.client_idx_to_cache_idx = k.client_idx_to_cache_idx
              /\ u.inotify_fd = k.inotify_fd
              /\ \A j \in Idx :
                   /\ j = k.client_idx_to_cache_idx[c]
                        => u.cache_buffer[j].lock_number = k.cache_buffer[j].lock_number - 1
                   /\ j # k.client_idx_to_cache_idx[c]
                        => u.cache_buffer[j].lock_number = k.cache_buffer[j].lock_number
                   /\ u.cache_buffer[j].buffer = k.cache_buffer[j].buffer
                   /\ u.cache_buffer[j].outdated = k.cache_buffer[j].outdated
<1>1. CASE ~using_file[c]
  BY <1>1 DEF finished_with_item
<1>2. CASE using_file[c]
  <2> DEFINE i == k.client_idx_to_cache_idx[c]
             e == [k.cache_buffer[i] EXCEPT !.lock_number = @ - 1]
  <2>t. Typed(k) /\ k.cache_buffer \in [Idx -> Items] /\ i \in Idx /\ k.cache_buffer[i] \in Items
    BY DEF KInv, Typed
  <2>0. u = [k EXCEPT !.cache_buffer[i].lock_number = @ - 1]
    BY <1>2 DEF finished_with_item
  <2>i. i = k.client_idx_to_cache_idx[c]
    OBVIOUS
  <2> HIDE DEF i
  <2>1. /\ u.cache_buffer = [k.cache_buffer EXCEPT ![i] = e] /\ DOMAIN u = Fields
        /\ u.filepath_to_cache_idx = k.filepath_to_cache_idx
        /\ u.cache_idx_to_filepath = k.cache_idx_to_filepath
        /\ u.free_idxs = k.free_idxs
        /\ u.client_idx_to_cache_idx = k.client_idx_to_cache_idx
        /\ u.watch_to_cache_idx = k.watch_to_cache_idx
        /\ u.inotify_fd = k.inotify_fd
        /\ u.highest_idx = k.highest_idx /\ u.lowest_idx = k.lowest_idx
    BY <2>t, <2>0 DEF Typed, Fields
  <2>2. /\ e \in Items /\ e.lock_number = k.cache_buffer[i].lock_number - 1
        /\ e.buffer = k.cache_buffer[i].buffer /\ e.outdated = k.cache_buffer[i].outdated
        /\ e.watch = k.cache_buffer[i].watch
    BY <2>t DEF Items
  <2> HIDE DEF e
  <2>3. /\ u.cache_buffer \in [Idx -> Items] /\ u.cache_buffer[i] = e
        /\ \A j \in Idx : j # i => u.cache_buffer[j] = k.cache_buffer[j]
    BY <2>t, <2>1, <2>2
  <2>4. Typed(u)
    BY <2>t, <2>1, <2>3 DEF Typed
  <2>5. \A j \in Idx : /\ u.cache_buffer[j].watch = k.cache_buffer[j].watch
                       /\ u.cache_buffer[j].buffer = k.cache_buffer[j].buffer
                       /\ u.cache_buffer[j].outdated = k.cache_buffer[j].outdated
    BY <2>2, <2>3
  <2>6. Watched(u)
    BY <2>1, <2>4, <2>5 DEF KInv, Typed, Watched, Links, Watches
  <2> QED
    BY <1>2, <2>i, <2>1, <2>2, <2>3, <2>4, <2>5, <2>6 DEF KInv
<1> QED
  BY <1>1, <1>2

LEMMA CInvConnect ==
  ASSUME CInv, NEW c \in Clients, Connect(c)
  PROVE  CInv'
<1>1. NoFile \in Paths
  BY DEF Paths
<1>2. cache' = cache
  BY DEF Connect
<1>3. KInv(cache')
  BY <1>2 DEF CInv
<1>4. ThreadTypes'
  BY <1>1 DEF CInv, ThreadTypes, Connect
<1> QED
  BY <1>2, <1>3, <1>4 DEF CInv

\* write_connection.
LEMMA WriteTypes ==
  ASSUME send_data \in [Clients -> Seq(Write)], writing \in [Clients -> Seq(Write)],
         NEW c \in Clients, NEW e \in Write, write_connection(c, e)
  PROVE  send_data' \in [Clients -> Seq(Write)] /\ writing' \in [Clients -> Seq(Write)]
<1>1. Append(send_data[c], e) \in Seq(Write) /\ Append(writing[c], e) \in Seq(Write)
  OBVIOUS
<1> QED
  BY <1>1 DEF write_connection

LEMMA CInvRequest ==
  ASSUME CInv, NEW c \in Clients, NEW f \in Files, send_file_request(c, f)
  PROVE  CInv'
<1> DEFINE r == fetch_item(cache, f, c)
<1>1. f \in Paths /\ KInv(cache)
  BY DEF Paths, CInv
<1>2. KInv(r.cache) /\ r.slot \in Links /\ r.locked \in BOOLEAN
  BY <1>1, FetchKInv
<1>3. /\ conn' = [conn EXCEPT ![c] = "requested"] /\ asked' = [asked EXCEPT ![c] = f]
      /\ cache' = r.cache /\ using_file' = [using_file EXCEPT ![c] = @ \/ r.locked]
      /\ version' = version /\ undefined' = undefined
      /\ \/ /\ r.slot # -1
            /\ write_connection(c, [slot |-> r.slot,
                                    data |-> r.cache.cache_buffer[r.slot].buffer])
            /\ last_path' = last_path /\ reads' = reads
         \/ /\ r.slot = -1
            /\ last_path' = [last_path EXCEPT ![c] = f]
            /\ reads' = [reads EXCEPT ![c] = Append(@, [file |-> f, from |-> version[f]])]
            /\ send_data' = send_data /\ writing' = writing
  BY DEF send_file_request
<1> HIDE DEF r
<1>4. r.slot # -1 => [slot |-> r.slot, data |-> r.cache.cache_buffer[r.slot].buffer] \in Write
  BY <1>2 DEF KInv, Typed, Items, Links, Write
<1>5. [file |-> f, from |-> version[f]] \in Read
  BY DEF CInv, ThreadTypes, Read
<1>6. /\ send_data' \in [Clients -> Seq(Write)] /\ writing' \in [Clients -> Seq(Write)]
      /\ reads' \in [Clients -> Seq(Read)]
  <2> DEFINE a == [slot |-> r.slot, data |-> r.cache.cache_buffer[r.slot].buffer]
             b == [file |-> f, from |-> version[f]]
  <2>1. /\ r.slot # -1 => a \in Write
        /\ b \in Read /\ reads \in [Clients -> Seq(Read)]
        /\ send_data \in [Clients -> Seq(Write)] /\ writing \in [Clients -> Seq(Write)]
    BY <1>4, <1>5 DEF CInv, ThreadTypes
  <2>2. \/ r.slot # -1 /\ reads' = reads /\ write_connection(c, a)
        \/ /\ send_data' = send_data /\ writing' = writing
           /\ reads' = [reads EXCEPT ![c] = Append(@, b)]
    BY <1>3
  <2> HIDE DEF a, b
  <2>3. CASE r.slot # -1 /\ reads' = reads /\ write_connection(c, a)
    BY <2>1, <2>3, WriteTypes
  <2>4. CASE /\ send_data' = send_data /\ writing' = writing
             /\ reads' = [reads EXCEPT ![c] = Append(@, b)]
    <3>1. Append(reads[c], b) \in Seq(Read)
      BY <2>1
    <3> QED
      BY <2>1, <2>4, <3>1
  <2> QED
    BY <2>2, <2>3, <2>4
<1>7. last_path' \in [Clients -> Paths] /\ using_file' \in [Clients -> BOOLEAN]
  BY <1>1, <1>2, <1>3 DEF CInv, ThreadTypes
<1>8. ThreadTypes'
  BY <1>1, <1>3, <1>6, <1>7 DEF CInv, ThreadTypes
<1> QED
  BY <1>2, <1>3, <1>8 DEF CInv

LEMMA CInvRead ==
  ASSUME CInv, NEW c \in Clients, NEW n \in DOMAIN reads[c], custom_read_cb(c, n)
  PROVE  CInv'
<1> DEFINE r == reads[c][n]
<1>1. r \in Read /\ reads[c] \in Seq(Read)
  BY DEF CInv, ThreadTypes
<1>2. reads' \in [Clients -> Seq(Read)]
  BY <1>1, RemoveAtType DEF CInv, ThreadTypes, custom_read_cb
<1>3. PICK v \in r.from .. version[r.file] :
        LET data == [file |-> r.file, version |-> v]
            inserted == try_insert_item(cache, last_path[c], data)
        IN \/ \E k \in inserted :
                LET s == fetch_item(k, last_path[c], c) IN
                /\ cache' = s.cache
                /\ using_file' = [using_file EXCEPT ![c] = TRUE]
                /\ write_connection(c, [slot |-> s.slot, data |-> data])
           \/ /\ inserted = {}
              /\ write_connection(c, [slot |-> -1, data |-> data])
              /\ UNCHANGED <<cache, using_file>>
  BY DEF custom_read_cb
<1> DEFINE data == [file |-> r.file, version |-> v]
<1>4. data \in Data \ {NoData}
  <2>1. r.file \in Files /\ r.from \in 0 .. MaxVersion /\ version[r.file] \in 0 .. MaxVersion
    BY <1>1 DEF Read, CInv, ThreadTypes
  <2>2. v \in 0 .. MaxVersion
    BY <2>1, CacheAssumption DEF CacheAssumption
  <2>3. data \in [file : Files, version : 0 .. MaxVersion]
    BY <2>1, <2>2
  <2> QED
    BY <2>3, CacheAssumption DEF CacheAssumption, Data
<1>5. ~OutOfBounds(cache) /\ KInv(cache) /\ last_path[c] \in Paths
  BY DEF custom_read_cb, CInv, ThreadTypes
<1>t. /\ send_data \in [Clients -> Seq(Write)] /\ writing \in [Clients -> Seq(Write)]
      /\ using_file \in [Clients -> BOOLEAN]
  BY DEF CInv, ThreadTypes
<1>6. /\ KInv(cache') /\ using_file' \in [Clients -> BOOLEAN]
      /\ send_data' \in [Clients -> Seq(Write)] /\ writing' \in [Clients -> Seq(Write)]
  <2>1. CASE \E k \in try_insert_item(cache, last_path[c], data) :
               LET s == fetch_item(k, last_path[c], c) IN
               /\ cache' = s.cache
               /\ using_file' = [using_file EXCEPT ![c] = TRUE]
               /\ write_connection(c, [slot |-> s.slot, data |-> data])
    <3>1. PICK k \in try_insert_item(cache, last_path[c], data) :
               LET s == fetch_item(k, last_path[c], c) IN
               /\ cache' = s.cache
               /\ using_file' = [using_file EXCEPT ![c] = TRUE]
               /\ write_connection(c, [slot |-> s.slot, data |-> data])
      BY <2>1
    <3> DEFINE s == fetch_item(k, last_path[c], c)
    <3> HIDE DEF data
    <3>2. KInv(k)
      BY <1>4, <1>5, InsertKInv
    <3>3. KInv(s.cache) /\ s.slot \in Links
      BY <1>5, <3>2, FetchKInv
    <3>4. [slot |-> s.slot, data |-> data] \in Write
      BY <1>4, <3>3 DEF Write
    <3>5. /\ cache' = s.cache
          /\ using_file' = [using_file EXCEPT ![c] = TRUE]
          /\ write_connection(c, [slot |-> s.slot, data |-> data])
      BY <3>1
    <3> HIDE DEF s
    <3> QED
      BY <1>t, <3>3, <3>4, <3>5, WriteTypes
  <2>2. CASE /\ write_connection(c, [slot |-> -1, data |-> data])
             /\ UNCHANGED <<cache, using_file>>
    <3> HIDE DEF data
    <3>1. [slot |-> -1, data |-> data] \in Write
      BY <1>4, MinusOneLink DEF Write
    <3>2. KInv(cache')
      BY <1>5, <2>2
    <3> QED
      BY <1>t, <2>2, <3>1, <3>2, WriteTypes
  <2> QED
    BY <1>3, <2>1, <2>2
<1>7. ThreadTypes'
  BY <1>2, <1>6 DEF CInv, ThreadTypes, custom_read_cb
<1> QED
  BY <1>6, <1>7 DEF CInv

LEMMA CInvKill ==
  ASSUME CInv, NEW c \in Clients, kill_client(c)
  PROVE  KInv(cache') /\ using_file' \in [Clients -> BOOLEAN]
<1>1. cache' = finished_with_item(cache, c) /\ KInv(cache)
  BY DEF kill_client, CInv
<1>2. KInv(cache')
  BY <1>1, UnlockKInv
<1> QED
  BY <1>2 DEF kill_client, CInv, ThreadTypes

LEMMA CInvWriteDone ==
  ASSUME CInv, NEW c \in Clients, NEW n \in DOMAIN writing[c], WriteDone(c, n)
  PROVE  CInv'
<1> DEFINE left == RemoveAt(writing[c], n)
           rest == IF conn[c] = "closed" THEN <<>> ELSE Tail(send_data[c])
           next == IF rest = <<>> THEN left ELSE Append(left, Head(rest))
<1>t. /\ ThreadTypes /\ send_data \in [Clients -> Seq(Write)]
      /\ writing \in [Clients -> Seq(Write)]
  BY DEF CInv, ThreadTypes
<1>1. KInv(cache') /\ using_file' \in [Clients -> BOOLEAN]
  BY CInvKill DEF WriteDone
<1>2. left \in Seq(Write)
  BY <1>t, RemoveAtType
<1>3. /\ send_data' = [send_data EXCEPT ![c] = rest]
      /\ writing' = [writing EXCEPT ![c] = next]
      /\ conn[c] = "closed" \/ send_data[c] # <<>>
  BY DEF WriteDone
<1> HIDE DEF left
<1>4. rest \in Seq(Write)
  <2>1. <<>> \in Seq(Write) /\ (send_data[c] # <<>> => Tail(send_data[c]) \in Seq(Write))
    BY <1>t
  <2> QED
    BY <1>3, <2>1
<1> HIDE DEF rest
<1>5. next \in Seq(Write)
  BY <1>2, <1>4
<1> HIDE DEF next
<1>6. send_data' \in [Clients -> Seq(Write)] /\ writing' \in [Clients -> Seq(Write)]
  BY <1>t, <1>3, <1>4, <1>5
<1>7. conn' \in [Clients -> {"closed", "open", "requested"}]
  BY <1>t DEF WriteDone, ThreadTypes
<1>8. ThreadTypes'
  BY <1>t, <1>1, <1>6, <1>7 DEF WriteDone, ThreadTypes
<1> QED
  BY <1>1, <1>8 DEF CInv

LEMMA CInvEnds ==
  ASSUME CInv, NEW c \in Clients, Ends(c), writing' \in [Clients -> Seq(Write)],
         UNCHANGED <<version, last_path, reads, asked, undefined>>
  PROVE  CInv'
<1>1. KInv(cache') /\ using_file' \in [Clients -> BOOLEAN]
  BY CInvKill DEF Ends
<1>2. /\ send_data' \in [Clients -> Seq(Write)]
      /\ conn' \in [Clients -> {"closed", "open", "requested"}]
  BY DEF Ends, CInv, ThreadTypes
<1>3. ThreadTypes'
  BY <1>1, <1>2 DEF CInv, ThreadTypes
<1> QED
  BY <1>1, <1>3 DEF CInv

LEMMA CInvWriteFails ==
  ASSUME CInv, NEW c \in Clients, NEW n \in DOMAIN writing[c], WriteFails(c, n)
  PROVE  CInv'
<1>t. ThreadTypes /\ writing \in [Clients -> Seq(Write)] /\ KInv(cache)
  BY DEF CInv, ThreadTypes
<1>1. writing' \in [Clients -> Seq(Write)]
  <2>1. RemoveAt(writing[c], n) \in Seq(Write)
    BY <1>t, RemoveAtType
  <2> QED
    BY <1>t, <2>1 DEF WriteFails
<1>2. UNCHANGED <<version, last_path, reads, asked, undefined>>
  BY DEF WriteFails
<1>3. CASE Ends(c)
  BY <1>1, <1>2, <1>3, CInvEnds
<1>4. CASE UNCHANGED <<cache, using_file, send_data, conn>>
  BY <1>t, <1>1, <1>2, <1>4 DEF CInv, ThreadTypes
<1> QED
  BY <1>3, <1>4 DEF WriteFails

LEMMA CInvPeerGone ==
  ASSUME CInv, NEW c \in Clients, PeerGone(c)
  PROVE  CInv'
<1>1. writing' \in [Clients -> Seq(Write)]
  BY DEF PeerGone, CInv, ThreadTypes
<1> QED
  BY <1>1, CInvEnds DEF PeerGone

LEMMA CInvModify ==
  ASSUME CInv, NEW f \in Files, Modify(f)
  PROVE  CInv'
<1>1. version' \in [Files -> 0 .. MaxVersion]
  BY CacheAssumption DEF Modify, CInv, ThreadTypes, CacheAssumption
<1>2. ThreadTypes'
  BY <1>1 DEF Modify, CInv, ThreadTypes
<1>3. cache' = cache \/ cache' = [cache EXCEPT !.inotify_fd = @ \cup {f}]
  BY DEF Modify
<1>4. Typed(cache')
  BY <1>3 DEF CInv, KInv, Typed, Fields
<1>5. Watched(cache')
  BY <1>3 DEF CInv, KInv, Typed, Fields, Watched
<1> QED
  BY <1>2, <1>4, <1>5 DEF CInv, KInv

LEMMA CInvEvent ==
  ASSUME CInv, NEW f \in Files, inotify_event_handler(f)
  PROVE  CInv'
<1> DEFINE i == cache.watch_to_cache_idx[f]
           D == [cache.cache_buffer EXCEPT ![i].outdated = TRUE]
<1>t. Typed(cache) /\ cache.cache_buffer \in [Idx -> Items]
  BY DEF CInv, KInv, Typed
<1>1. /\ cache'.cache_buffer = D /\ DOMAIN cache' = Fields
      /\ cache'.filepath_to_cache_idx = cache.filepath_to_cache_idx
      /\ cache'.cache_idx_to_filepath = cache.cache_idx_to_filepath
      /\ cache'.free_idxs = cache.free_idxs
      /\ cache'.client_idx_to_cache_idx = cache.client_idx_to_cache_idx
      /\ cache'.watch_to_cache_idx = cache.watch_to_cache_idx
      /\ cache'.inotify_fd = cache.inotify_fd \ {f}
      /\ cache'.highest_idx = cache.highest_idx /\ cache'.lowest_idx = cache.lowest_idx
  BY <1>t DEF inotify_event_handler, Typed, Fields
<1> HIDE DEF i
<1>2. /\ D \in [Idx -> Items]
      /\ \A j \in Idx : D[j].watch = cache.cache_buffer[j].watch /\ D[j].buffer = cache.cache_buffer[j].buffer
  BY <1>t DEF Items
<1> HIDE DEF D
<1>3. Typed(cache')
  BY <1>t, <1>1, <1>2 DEF Typed
<1>4. Watched(cache')
  BY <1>t, <1>1, <1>2 DEF CInv, KInv, Typed, Watched, Links, Watches
<1>5. ThreadTypes'
  BY DEF inotify_event_handler, CInv, ThreadTypes
<1> QED
  BY <1>3, <1>4, <1>5 DEF CInv, KInv

LEMMA CInvNext == CInv /\ [Next]_vars => CInv'
<1> SUFFICES ASSUME CInv, [Next]_vars PROVE CInv'
  OBVIOUS
<1>1. ASSUME NEW c \in Clients, custom_read_undefined(c) PROVE CInv'
  <2>1. cache' = cache /\ KInv(cache)
    BY <1>1 DEF custom_read_undefined, CInv
  <2>2. ThreadTypes'
    BY <1>1 DEF custom_read_undefined, CInv, ThreadTypes
  <2> QED
    BY <2>1, <2>2 DEF CInv
<1>2. ASSUME NEW c \in Clients, WriteDoneUndefined(c) PROVE CInv'
  <2>1. cache' = cache /\ KInv(cache)
    BY <1>2 DEF WriteDoneUndefined, CInv
  <2>2. ThreadTypes'
    BY <1>2 DEF WriteDoneUndefined, CInv, ThreadTypes
  <2> QED
    BY <2>1, <2>2 DEF CInv
<1>3. CASE UNCHANGED vars
  BY <1>3 DEF vars, CInv, ThreadTypes
<1> QED
  BY <1>1, <1>2, <1>3, CInvConnect, CInvRequest, CInvRead, CInvWriteDone, CInvWriteFails,
     CInvPeerGone, CInvModify, CInvEvent DEF Next

\* The types of the cache and of the thread that uses it hold whatever clients, files and
\* peers do; above all no index that the list, the maps or a client keeps leaves the cache.
THEOREM CacheTypes == Spec => []TypeOK
<1>1. Spec => []CInv
  BY CInvInit, CInvNext, PTL DEF Spec
<1> QED
  BY <1>1, CInvTypeOK, PTL

\* A watch the kernel reports on leads to the slot that was filled for its file, so that
\* inotify_event_handler marks no other file's item as outdated: for caches of every size,
\* files that change at any moment, and peers that hang up at any moment.
THEOREM EventsFindTheirItem == Spec => []WatchLeadsToItem
<1>1. Spec => []CInv
  BY CInvInit, CInvNext, PTL DEF Spec
<1> QED
  BY <1>1, CInvTypeOK, PTL

-----------------------------------------------------------------------------
(* Files that do not change, and peers that wait for them.                 *)

\* Every item is up to date, and a path leads to the item of its file.
Static(k) ==
  /\ k.inotify_fd = {}
  /\ \A i \in Idx : ~k.cache_buffer[i].outdated
  /\ k.filepath_to_cache_idx[NoFile] = -1
  /\ \A p \in Files : k.filepath_to_cache_idx[p] # -1 =>
       /\ k.cache_idx_to_filepath[k.filepath_to_cache_idx[p]] = p
       /\ k.filepath_to_cache_idx[p] \notin k.free_idxs
       /\ k.cache_buffer[k.filepath_to_cache_idx[p]].buffer = [file |-> p, version |-> 0]

\* The clients of U that use slot i.
UsersOf(k, U, i) == {c \in Clients : U[c] /\ k.client_idx_to_cache_idx[c] = i}

\* A lock number counts the clients that use the item, and no free slot is used.
Locked(k, U) ==
  /\ \A i \in Idx : k.cache_buffer[i].lock_number = Cardinality(UsersOf(k, U, i))
  /\ \A c \in Clients : U[c] => k.client_idx_to_cache_idx[c] \notin k.free_idxs

\* A connection has one file read, or one write, for what it asked for; and a write from
\* a slot of the cache is of the content it started with, by the client that locked it.
OneRequest(c) ==
  /\ conn[c] # "requested" =>
       reads[c] = <<>> /\ send_data[c] = <<>> /\ writing[c] = <<>> /\ ~using_file[c]
  /\ reads[c] # <<>> =>
       /\ Len(reads[c]) = 1 /\ send_data[c] = <<>> /\ writing[c] = <<>> /\ ~using_file[c]
       /\ reads[c][1].file = asked[c] /\ last_path[c] = asked[c]
  /\ send_data[c] # <<>> =>
       /\ Len(send_data[c]) = 1 /\ reads[c] = <<>>
       /\ send_data[c][1].data = [file |-> asked[c], version |-> 0]
       /\ asked[c] \in Files
       /\ send_data[c][1].slot # -1 =>
            /\ using_file[c] /\ cache.client_idx_to_cache_idx[c] = send_data[c][1].slot
            /\ cache.cache_buffer[send_data[c][1].slot].buffer = send_data[c][1].data
  /\ Len(writing[c]) <= 1

SInv ==
  /\ CInv /\ Static(cache) /\ Locked(cache, using_file)
  /\ \A c \in Clients : OneRequest(c)

LEMMA InsertStatic ==
  ASSUME NEW k, KInv(k), NEW u, KInv(u), Static(k), NEW i \in Idx, NEW path \in Files,
         Inserted(u, k, i, path, [file |-> path, version |-> 0])
  PROVE  Static(u) /\ u.filepath_to_cache_idx[path] = i
<1> DEFINE data == [file |-> path, version |-> 0]
<1>1. Inserted(u, k, i, path, data)
  OBVIOUS
<1>d. \A p : p = path => data = [file |-> p, version |-> 0]
  OBVIOUS
<1> HIDE DEF data
<1>2. Files \subseteq Paths /\ NoFile \in Paths /\ NoFile # path
  BY CacheAssumption DEF CacheAssumption, Paths
<1>3. u.filepath_to_cache_idx[path] = i /\ u.inotify_fd = {}
  BY <1>1 DEF Inserted, Static
<1>4. \A j \in Idx : ~u.cache_buffer[j].outdated
  BY <1>1 DEF Inserted, Static, Content, KInv, Typed, Items
<1>5. u.filepath_to_cache_idx[NoFile] = -1
  BY <1>1, <1>2 DEF Inserted, Static
<1>6. ASSUME NEW p \in Files, u.filepath_to_cache_idx[p] # -1
      PROVE  /\ u.cache_idx_to_filepath[u.filepath_to_cache_idx[p]] = p
             /\ u.filepath_to_cache_idx[p] \notin u.free_idxs
             /\ u.cache_buffer[u.filepath_to_cache_idx[p]].buffer = [file |-> p, version |-> 0]
  <2>0. k.cache_idx_to_filepath \in [Idx -> Paths] /\ k.filepath_to_cache_idx \in [Paths -> Links]
    BY DEF KInv, Typed
  <2>1. CASE p = path
    <3>1. u.cache_idx_to_filepath[i] = path /\ i \notin u.free_idxs /\ u.cache_buffer[i].buffer = data
      BY <1>1, <2>0 DEF Inserted
    <3> QED
      BY <1>3, <1>d, <2>1, <3>1
  <2>2. CASE p # path
    <3> DEFINE j == k.filepath_to_cache_idx[p]
    <3>1. u.filepath_to_cache_idx[p] = j /\ j # -1 /\ p \in Paths
      BY <1>1, <1>2, <1>6, <2>2 DEF Inserted
    <3>2. j \in Idx /\ j \notin k.free_idxs /\ k.cache_idx_to_filepath[j] = p
      BY <2>0, <3>1 DEF Static, Links
    <3>b. k.cache_buffer[j].buffer = [file |-> p, version |-> 0]
      BY <3>1 DEF Static
    <3> HIDE DEF j
    <3>3. j # i
      BY <1>1, <2>2, <3>1, <3>2 DEF Inserted
    <3>4. /\ u.cache_idx_to_filepath[j] = p /\ j \notin u.free_idxs
          /\ u.cache_buffer[j].buffer = k.cache_buffer[j].buffer
      BY <1>1, <2>0, <3>2, <3>3 DEF Inserted, Content
    <3> QED
      BY <3>1, <3>b, <3>4
  <2> QED
    BY <2>1, <2>2
<1> QED
  BY <1>3, <1>4, <1>5, <1>6 DEF Static

LEMMA UsersFinite ==
  ASSUME NEW k, NEW U, NEW i
  PROVE  IsFiniteSet(UsersOf(k, U, i)) /\ Cardinality(UsersOf(k, U, i)) \in Nat
<1>1. UsersOf(k, U, i) \subseteq Clients /\ IsFiniteSet(Clients)
  BY CacheAssumption DEF UsersOf, CacheAssumption
<1>2. IsFiniteSet(UsersOf(k, U, i))
  BY <1>1, FS_Subset
<1> QED
  BY <1>2, FS_CardinalityType

LEMMA InsertLocked ==
  ASSUME NEW k, NEW u, NEW U, Locked(k, U), NEW i \in Idx, NEW path, NEW data,
         Inserted(u, k, i, path, data)
  PROVE  /\ Locked(u, U)
         /\ \A c \in Clients : U[c] => k.client_idx_to_cache_idx[c] # i
<1>1. \A j : UsersOf(u, U, j) = UsersOf(k, U, j)
  BY DEF Inserted, UsersOf
<1>2. \A j \in Idx : u.cache_buffer[j].lock_number = k.cache_buffer[j].lock_number
  BY DEF Inserted, Content
<1>3. Locked(u, U)
  BY <1>1, <1>2 DEF Locked, Inserted
<1>4. ASSUME NEW c \in Clients, U[c], k.client_idx_to_cache_idx[c] = i PROVE FALSE
  <2>1. k.cache_buffer[i].lock_number = 0
    BY <1>4 DEF Locked, Inserted
  <2>2. Cardinality(UsersOf(k, U, i)) = 0
    BY <2>1 DEF Locked
  <2>3. UsersOf(k, U, i) = {}
    BY <2>2, UsersFinite, FS_EmptySet
  <2>4. c \in UsersOf(k, U, i)
    BY <1>4 DEF UsersOf
  <2> QED
    BY <2>3, <2>4
<1> QED
  BY <1>3, <1>4

LEMMA UsedStatic ==
  ASSUME NEW k, KInv(k), NEW u, Static(k), NEW i \in Idx, NEW c, Used(u, k, i, c)
  PROVE  Static(u)
<1>1. \A p \in Files : k.filepath_to_cache_idx[p] # -1 => k.filepath_to_cache_idx[p] \in Idx
  BY DEF KInv, Typed, Links, Paths
<1> QED
  BY <1>1 DEF Static, Used

\* A client that uses nothing takes slot i.
LEMMA UsedLocked ==
  ASSUME NEW k, KInv(k), NEW u, NEW U \in [Clients -> BOOLEAN], Locked(k, U),
         NEW i \in Idx, i \notin k.free_idxs,
         NEW c \in Clients, ~U[c], Used(u, k, i, c), NEW V, V = [U EXCEPT ![c] = TRUE]
  PROVE  Locked(u, V)
<1>0. k.client_idx_to_cache_idx \in [Clients -> Idx]
  BY DEF KInv, Typed
<1>1. /\ u.client_idx_to_cache_idx[c] = i /\ V[c]
      /\ \A d \in Clients : d # c => /\ u.client_idx_to_cache_idx[d] = k.client_idx_to_cache_idx[d]
                                     /\ V[d] = U[d]
  BY <1>0 DEF Used
<1>2. UsersOf(u, V, i) = UsersOf(k, U, i) \cup {c} /\ c \notin UsersOf(k, U, i)
  BY <1>1 DEF UsersOf
<1>3. \A j \in Idx : j # i => UsersOf(u, V, j) = UsersOf(k, U, j)
  BY <1>1 DEF UsersOf
<1>4. Cardinality(UsersOf(u, V, i)) = Cardinality(UsersOf(k, U, i)) + 1
  BY <1>2, UsersFinite, FS_AddElement
<1>5. \A d \in Clients : V[d] => u.client_idx_to_cache_idx[d] \notin u.free_idxs
  BY <1>1 DEF Locked, Used
<1>6. \A j \in Idx : u.cache_buffer[j].lock_number = Cardinality(UsersOf(u, V, j))
  BY <1>3, <1>4 DEF Locked, Used
<1> QED
  BY <1>5, <1>6 DEF Locked

\* kill_client.
LEMMA UnlockLocked ==
  ASSUME NEW k, KInv(k), NEW u, using_file \in [Clients -> BOOLEAN], Locked(k, using_file),
         Static(k), NEW c \in Clients, u = finished_with_item(k, c),
         NEW V, V = [using_file EXCEPT ![c] = FALSE]
  PROVE  /\ Locked(u, V) /\ Static(u)
         /\ u.client_idx_to_cache_idx = k.client_idx_to_cache_idx
         /\ \A j \in Idx : u.cache_buffer[j].buffer = k.cache_buffer[j].buffer
<1>0. k.client_idx_to_cache_idx \in [Clients -> Idx]
  BY DEF KInv, Typed
<1>m. \A p \in Files : k.filepath_to_cache_idx[p] # -1 => k.filepath_to_cache_idx[p] \in Idx
  BY DEF KInv, Typed, Links, Paths
<1>1. CASE ~using_file[c]
  <2>1. u = k /\ V = using_file
    BY <1>1 DEF finished_with_item
  <2> QED
    BY <2>1
<1>2. CASE using_file[c]
  <2> DEFINE i == k.client_idx_to_cache_idx[c]
  <2>1. /\ u.filepath_to_cache_idx = k.filepath_to_cache_idx
        /\ u.cache_idx_to_filepath = k.cache_idx_to_filepath
        /\ u.free_idxs = k.free_idxs
        /\ u.client_idx_to_cache_idx = k.client_idx_to_cache_idx
        /\ u.inotify_fd = k.inotify_fd
        /\ \A j \in Idx :
             /\ j = i => u.cache_buffer[j].lock_number = k.cache_buffer[j].lock_number - 1
             /\ j # i => u.cache_buffer[j].lock_number = k.cache_buffer[j].lock_number
             /\ u.cache_buffer[j].buffer = k.cache_buffer[j].buffer
             /\ u.cache_buffer[j].outdated = k.cache_buffer[j].outdated
    BY <1>2, UnlockKInv
  <2>2. i \in Idx /\ ~V[c] /\ \A d \in Clients : d # c => V[d] = using_file[d]
    BY <1>0
  <2>3. /\ UsersOf(u, V, i) = UsersOf(k, using_file, i) \ {c} /\ c \in UsersOf(k, using_file, i)
        /\ \A j \in Idx : j # i => UsersOf(u, V, j) = UsersOf(k, using_file, j)
    BY <1>2, <2>1, <2>2 DEF UsersOf
  <2> HIDE DEF i
  <2>4. Cardinality(UsersOf(u, V, i)) = Cardinality(UsersOf(k, using_file, i)) - 1
    BY <2>3, UsersFinite, FS_RemoveElement
  <2>5. \A j \in Idx : u.cache_buffer[j].lock_number = Cardinality(UsersOf(u, V, j))
    BY <2>1, <2>3, <2>4 DEF Locked
  <2>6. \A d \in Clients : V[d] => u.client_idx_to_cache_idx[d] \notin u.free_idxs
    BY <2>1, <2>2 DEF Locked
  <2>7. Static(u)
    BY <1>m, <2>1 DEF Static
  <2> QED
    BY <2>1, <2>5, <2>6, <2>7 DEF Locked
<1> QED
  BY <1>1, <1>2

\* A step of another client, or one that takes nothing from d.
LEMMA RequestKept ==
  ASSUME NEW d \in Clients, OneRequest(d),
         conn'[d] = conn[d], reads'[d] = reads[d], send_data'[d] = send_data[d],
         writing'[d] = writing[d],
         using_file'[d] = using_file[d], asked'[d] = asked[d], last_path'[d] = last_path[d],
         cache'.client_idx_to_cache_idx[d] = cache.client_idx_to_cache_idx[d],
         send_data[d] # <<>> /\ send_data[d][1].slot # -1 =>
           cache'.cache_buffer[send_data[d][1].slot].buffer =
             cache.cache_buffer[send_data[d][1].slot].buffer
  PROVE  OneRequest(d)'
  BY DEF OneRequest

LEMMA WrittenSlot ==
  ASSUME CInv, NEW d \in Clients, send_data[d] # <<>>, send_data[d][1].slot # -1
  PROVE  send_data[d][1].slot \in Idx
<1>1. send_data[d] \in Seq(Write)
  BY DEF CInv, ThreadTypes
<1>2. send_data[d][1] \in Write
  BY <1>1
<1> QED
  BY <1>2 DEF Write, Links

\* What is left of SInv when the cache keeps its content, its users and its clients' slots.
LEMMA SInvSameCache ==
  ASSUME SInv, CInv', cache' = cache, using_file' = using_file,
         \A c \in Clients : OneRequest(c)'
  PROVE  SInv'
  BY DEF SInv, Static, Locked, UsersOf

LEMMA SInvInit == Init => SInv
<1> SUFFICES ASSUME Init PROVE SInv
  OBVIOUS
<1>1. /\ cache.cache_buffer = [i \in Idx |-> cache_item]
      /\ cache.filepath_to_cache_idx = [p \in Paths |-> -1]
      /\ cache.inotify_fd = {}
  BY DEF Init
<1>2. Static(cache)
  BY <1>1, BlankItem DEF Static, Paths
<1>3. \A i : UsersOf(cache, using_file, i) = {}
  BY DEF Init, UsersOf
<1>4. Locked(cache, using_file)
  <2>1. \A i \in Idx : cache.cache_buffer[i].lock_number = 0
    BY <1>1, BlankItem
  <2>2. \A c \in Clients : ~using_file[c]
    BY DEF Init
  <2> QED
    BY <1>3, <2>1, <2>2, FS_EmptySet DEF Locked
<1>5. \A c \in Clients : OneRequest(c)
  BY DEF Init, OneRequest
<1> QED
  BY <1>2, <1>4, <1>5, CInvInit DEF SInv

\* write_connection to a client that nothing is written to.
LEMMA FirstWrite ==
  ASSUME ThreadTypes, NEW c \in Clients, send_data[c] = <<>>, writing[c] = <<>>,
         NEW e, write_connection(c, e)
  PROVE  /\ send_data'[c] = <<e>> /\ writing'[c] = <<e>>
         /\ \A d \in Clients : d # c => send_data'[d] = send_data[d] /\ writing'[d] = writing[d]
  BY DEF ThreadTypes, write_connection

LEMMA SInvConnect ==
  ASSUME SInv, CInv', NEW c \in Clients, Connect(c)
  PROVE  SInv'
<1>t. ThreadTypes /\ \A d \in Clients : OneRequest(d)
  BY DEF SInv, CInv
<1>1. cache' = cache /\ using_file' = using_file
  <2>1. using_file \in [Clients -> BOOLEAN] /\ using_file[c] = FALSE
    BY <1>t DEF ThreadTypes, OneRequest, Connect
  <2>2. cache' = cache /\ using_file' = [using_file EXCEPT ![c] = FALSE]
    BY DEF Connect
  <2> QED
    BY <2>1, <2>2
<1>2. ASSUME NEW d \in Clients PROVE OneRequest(d)'
  <2>1. CASE d = c
    BY <1>t, <1>1, <2>1 DEF Connect, OneRequest, ThreadTypes
  <2>2. CASE d # c
    <3>1. /\ conn'[d] = conn[d] /\ reads'[d] = reads[d] /\ send_data'[d] = send_data[d]
          /\ asked'[d] = asked[d] /\ last_path'[d] = last_path[d] /\ writing'[d] = writing[d]
      BY <1>t, <2>2 DEF Connect, ThreadTypes
    <3> QED
      BY <1>t, <1>1, <3>1, RequestKept
  <2> QED
    BY <2>1, <2>2
<1> QED
  BY <1>1, <1>2, SInvSameCache

LEMMA SInvRequest ==
  ASSUME SInv, CInv', NEW c \in Clients, NEW f \in Files, send_file_request(c, f)
  PROVE  SInv'
<1> DEFINE r == fetch_item(cache, f, c)
           i == cache.filepath_to_cache_idx[f]
<1>t. /\ ThreadTypes /\ KInv(cache) /\ Static(cache) /\ Locked(cache, using_file)
      /\ \A d \in Clients : OneRequest(d)
  BY DEF SInv, CInv
<1>0. f \in Paths /\ NoFile # f
  BY CacheAssumption DEF Paths, CacheAssumption
<1>1. /\ conn[c] = "open" /\ conn' = [conn EXCEPT ![c] = "requested"]
      /\ asked' = [asked EXCEPT ![c] = f]
      /\ cache' = r.cache /\ using_file' = [using_file EXCEPT ![c] = @ \/ r.locked]
      /\ \/ /\ r.slot # -1
            /\ write_connection(c, [slot |-> r.slot,
                                    data |-> r.cache.cache_buffer[r.slot].buffer])
            /\ last_path' = last_path /\ reads' = reads
         \/ /\ r.slot = -1
            /\ last_path' = [last_path EXCEPT ![c] = f]
            /\ reads' = [reads EXCEPT ![c] = Append(@, [file |-> f, from |-> version[f]])]
            /\ send_data' = send_data /\ writing' = writing
  BY DEF send_file_request
<1>2. reads[c] = <<>> /\ send_data[c] = <<>> /\ writing[c] = <<>> /\ using_file[c] = FALSE
  BY <1>t, <1>1 DEF OneRequest, ThreadTypes
<1>3. /\ i = -1 => r.cache = cache /\ ~r.locked /\ r.slot = -1
      /\ i # -1 /\ ~cache.cache_buffer[i].outdated =>
           r.locked /\ r.slot = i /\ Used(r.cache, cache, r.slot, c)
  BY <1>t, <1>0, FetchKInv
<1>l. r.locked \in BOOLEAN
  BY <1>t, <1>0, FetchKInv
<1>i. i \in Links
  BY <1>t, <1>0 DEF KInv, Typed
<1>b. i # -1 => /\ ~cache.cache_buffer[i].outdated /\ i \in Idx /\ i \notin cache.free_idxs
                /\ cache.cache_buffer[i].buffer = [file |-> f, version |-> 0]
  BY <1>t, <1>i DEF Static, Links
<1> HIDE DEF r, i
<1>4. CASE i = -1
  <2>1. cache' = cache /\ using_file' = using_file
    <3>1. using_file' = [using_file EXCEPT ![c] = FALSE] /\ cache' = cache
      BY <1>1, <1>2, <1>3, <1>4, <1>l
    <3> QED
      BY <1>t, <1>2, <3>1 DEF ThreadTypes
  <2>2. /\ last_path' = [last_path EXCEPT ![c] = f]
        /\ send_data' = send_data /\ writing' = writing
        /\ reads' = [reads EXCEPT ![c] = Append(@, [file |-> f, from |-> version[f]])]
    BY <1>1, <1>3, <1>4
  <2>3. ASSUME NEW d \in Clients PROVE OneRequest(d)'
    <3>1. CASE d = c
      <4>1. /\ conn'[c] = "requested" /\ asked'[c] = f /\ last_path'[c] = f
            /\ send_data'[c] = <<>> /\ writing'[c] = <<>> /\ using_file'[c] = FALSE
            /\ reads'[c] = <<[file |-> f, from |-> version[f]]>>
        BY <1>t, <1>1, <1>2, <2>1, <2>2 DEF ThreadTypes
      <4>2. reads'[c][1].file = f /\ Len(reads'[c]) = 1
        BY <4>1
      <4> QED
        BY <3>1, <4>1, <4>2 DEF OneRequest
    <3>2. CASE d # c
      <4>1. /\ conn'[d] = conn[d] /\ reads'[d] = reads[d] /\ send_data'[d] = send_data[d]
            /\ writing'[d] = writing[d] /\ asked'[d] = asked[d] /\ last_path'[d] = last_path[d]
        BY <1>t, <1>1, <2>2, <3>2 DEF ThreadTypes
      <4> QED
        BY <1>t, <2>1, <4>1, RequestKept
    <3> QED
      BY <3>1, <3>2
  <2> QED
    BY <2>1, <2>3, SInvSameCache
<1>5. CASE i # -1
  <2>1. /\ r.slot = i /\ r.locked = TRUE /\ Used(cache', cache, i, c)
        /\ using_file' = [using_file EXCEPT ![c] = TRUE]
    <3>1. /\ r.slot = i /\ r.locked = TRUE /\ Used(cache', cache, i, c)
      BY <1>1, <1>3, <1>5, <1>b, <1>l
    <3> QED
      BY <1>1, <3>1
  <2>2. cache'.cache_buffer[i].buffer = [file |-> f, version |-> 0]
    BY <1>5, <1>b, <2>1 DEF Used
  <2> DEFINE w == [slot |-> i, data |-> [file |-> f, version |-> 0]]
  <2>3. /\ last_path' = last_path /\ reads' = reads
        /\ send_data'[c] = <<w>> /\ writing'[c] = <<w>>
        /\ \A d \in Clients : d # c => send_data'[d] = send_data[d] /\ writing'[d] = writing[d]
    <3>1. last_path' = last_path /\ reads' = reads /\ write_connection(c, w)
      BY <1>1, <1>5, <2>1, <2>2
    <3> HIDE DEF w
    <3> QED
      BY <1>t, <1>2, <3>1, FirstWrite
  <2>4. Static(cache') /\ Locked(cache', using_file')
    <3>1. using_file \in [Clients -> BOOLEAN]
      BY <1>t DEF ThreadTypes
    <3>2. Locked(cache', using_file')
      BY <1>5, <1>b, <1>t, <1>2, <2>1, <3>1, UsedLocked
    <3> QED
      BY <1>5, <1>b, <1>t, <2>1, <3>2, UsedStatic
  <2>5. ASSUME NEW d \in Clients PROVE OneRequest(d)'
    <3>1. CASE d = c
      <4>1. /\ conn'[c] = "requested" /\ asked'[c] = f /\ reads'[c] = <<>>
            /\ using_file'[c] = TRUE /\ send_data'[c] = <<w>> /\ Len(writing'[c]) <= 1
            /\ cache'.client_idx_to_cache_idx[c] = i
        BY <1>t, <1>1, <1>2, <2>1, <2>3 DEF ThreadTypes, Used, KInv, Typed
      <4>2. /\ send_data'[c][1] = w /\ Len(send_data'[c]) = 1 /\ send_data'[c] # <<>>
            /\ w.slot = i /\ w.data = [file |-> f, version |-> 0]
        BY <4>1
      <4> HIDE DEF w
      <4> QED
        BY <2>2, <3>1, <4>1, <4>2 DEF OneRequest
    <3>2. CASE d # c
      <4>1. /\ conn'[d] = conn[d] /\ reads'[d] = reads[d] /\ send_data'[d] = send_data[d]
            /\ writing'[d] = writing[d] /\ asked'[d] = asked[d] /\ last_path'[d] = last_path[d]
            /\ using_file'[d] = using_file[d]
        BY <1>t, <1>1, <2>1, <2>3, <3>2 DEF ThreadTypes
      <4>2. cache'.client_idx_to_cache_idx[d] = cache.client_idx_to_cache_idx[d]
        BY <1>t, <2>1, <3>2 DEF Used, KInv, Typed
      <4>3. send_data[d] # <<>> /\ send_data[d][1].slot # -1 =>
              cache'.cache_buffer[send_data[d][1].slot].buffer =
                cache.cache_buffer[send_data[d][1].slot].buffer
        BY <2>1, WrittenSlot DEF Used, SInv
      <4> QED
        BY <1>t, <4>1, <4>2, <4>3, RequestKept
    <3> QED
      BY <3>1, <3>2
  <2> QED
    BY <2>4, <2>5 DEF SInv
<1> QED
  BY <1>4, <1>5

\* The only file read of a client.
LEMMA RemoveOnly ==
  ASSUME NEW S, NEW s \in Seq(S), Len(s) = 1
  PROVE  RemoveAt(s, 1) = <<>>
<1>1. SubSeq(s, 1, 0) = <<>> /\ SubSeq(s, 2, 1) = <<>>
  OBVIOUS
<1>2. RemoveAt(s, 1) = SubSeq(s, 1, 0) \o SubSeq(s, 2, 1)
  BY DEF RemoveAt
<1> QED
  BY <1>1, <1>2

\* kill_client at the end of c's only write, or without one, or by the timer in mid-write.
LEMMA SInvKill ==
  ASSUME SInv, CInv', NEW c \in Clients, kill_client(c),
         conn' = [conn EXCEPT ![c] = IF writing'[c] = <<>> THEN "closed" ELSE @],
         send_data' = [send_data EXCEPT ![c] = <<>>],
         \A d \in Clients : d # c => writing'[d] = writing[d],
         Len(writing'[c]) <= 1, conn[c] = "requested" \/ writing'[c] = <<>>,
         reads[c] = <<>>, UNCHANGED <<reads, asked, last_path>>
  PROVE  SInv'
<1>t. /\ ThreadTypes /\ KInv(cache) /\ Static(cache) /\ Locked(cache, using_file)
      /\ \A d \in Clients : OneRequest(d)
  BY DEF SInv, CInv
<1>0. using_file \in [Clients -> BOOLEAN]
  BY <1>t DEF ThreadTypes
<1>1. cache' = finished_with_item(cache, c) /\ using_file' = [using_file EXCEPT ![c] = FALSE]
  BY DEF kill_client
<1>2. /\ Locked(cache', using_file') /\ Static(cache')
      /\ cache'.client_idx_to_cache_idx = cache.client_idx_to_cache_idx
      /\ \A j \in Idx : cache'.cache_buffer[j].buffer = cache.cache_buffer[j].buffer
  BY <1>t, <1>0, <1>1, UnlockLocked
<1>3. ASSUME NEW d \in Clients PROVE OneRequest(d)'
  <2>1. CASE d = c
    <3>1. /\ reads'[c] = <<>> /\ send_data'[c] = <<>> /\ ~using_file'[c]
          /\ conn'[c] # "requested" => writing'[c] = <<>>
      BY <1>t, <1>1 DEF ThreadTypes
    <3> QED
      BY <2>1, <3>1 DEF OneRequest
  <2>2. CASE d # c
    <3>1. /\ conn'[d] = conn[d] /\ reads'[d] = reads[d] /\ send_data'[d] = send_data[d]
          /\ asked'[d] = asked[d] /\ last_path'[d] = last_path[d]
          /\ using_file'[d] = using_file[d] /\ writing'[d] = writing[d]
      BY <1>t, <1>1, <2>2 DEF ThreadTypes
    <3>2. send_data[d] # <<>> /\ send_data[d][1].slot # -1 =>
            cache'.cache_buffer[send_data[d][1].slot].buffer =
              cache.cache_buffer[send_data[d][1].slot].buffer
      BY <1>2, WrittenSlot DEF SInv
    <3> QED
      BY <1>t, <1>2, <3>1, <3>2, RequestKept
  <2> QED
    BY <2>1, <2>2
<1> QED
  BY <1>2, <1>3 DEF SInv

\* The only write of a client, and who has one.
LEMMA OnlyWrite ==
  ASSUME SInv, NEW c \in Clients, NEW n \in DOMAIN writing[c]
  PROVE  /\ conn[c] = "requested" /\ reads[c] = <<>>
         /\ RemoveAt(writing[c], n) = <<>>
         /\ writing \in [Clients -> Seq(Write)] /\ send_data[c] \in Seq(Write)
<1>1. OneRequest(c) /\ writing \in [Clients -> Seq(Write)] /\ send_data[c] \in Seq(Write)
  BY DEF SInv, CInv, ThreadTypes
<1>2. writing[c] # <<>> /\ Len(writing[c]) = 1 /\ n = 1
  <2>1. writing[c] \in Seq(Write) /\ Len(writing[c]) <= 1
    BY <1>1 DEF OneRequest
  <2> DEFINE s == writing[c]
  <2>2. s \in Seq(Write) /\ n \in DOMAIN s /\ Len(s) <= 1
    BY <2>1
  <2> HIDE DEF s
  <2>3. DOMAIN s = 1 .. Len(s) /\ Len(s) \in Nat
    BY <2>2, LenProperties
  <2>4. Len(s) = 1 /\ n = 1
    BY <2>2, <2>3
  <2>5. s # <<>>
    BY <2>4
  <2> QED
    BY <2>4, <2>5 DEF s
<1>3. RemoveAt(writing[c], n) = <<>>
  BY <1>1, <1>2, RemoveOnly
<1> QED
  BY <1>1, <1>2, <1>3 DEF OneRequest

LEMMA SInvWriteDone ==
  ASSUME SInv, CInv', NEW c \in Clients, NEW n \in DOMAIN writing[c], WriteDone(c, n)
  PROVE  SInv'
<1>1. /\ conn[c] = "requested" /\ reads[c] = <<>> /\ RemoveAt(writing[c], n) = <<>>
      /\ writing \in [Clients -> Seq(Write)] /\ send_data[c] \in Seq(Write)
  BY OnlyWrite
<1>2. send_data[c] # <<>> /\ Len(send_data[c]) = 1
  BY <1>1 DEF WriteDone, SInv, OneRequest
<1>3. Tail(send_data[c]) = <<>>
  <2>1. Tail(send_data[c]) \in Seq(Write) /\ Len(Tail(send_data[c])) = 0
    BY <1>1, <1>2
  <2> QED
    BY <2>1, EmptySeq
<1>4. /\ send_data' = [send_data EXCEPT ![c] = <<>>] /\ writing' = [writing EXCEPT ![c] = <<>>]
  BY <1>1, <1>3 DEF WriteDone
<1>5. /\ writing'[c] = <<>> /\ Len(writing'[c]) <= 1
      /\ \A d \in Clients : d # c => writing'[d] = writing[d]
  BY <1>1, <1>4
<1> QED
  BY <1>1, <1>4, <1>5, SInvKill DEF WriteDone

LEMMA SInvWriteFails ==
  ASSUME SInv, CInv', NEW c \in Clients, NEW n \in DOMAIN writing[c], WriteFails(c, n)
  PROVE  SInv'
<1>1. /\ conn[c] = "requested" /\ reads[c] = <<>> /\ RemoveAt(writing[c], n) = <<>>
      /\ writing \in [Clients -> Seq(Write)]
  BY OnlyWrite
<1>2. writing' = [writing EXCEPT ![c] = <<>>]
  BY <1>1 DEF WriteFails
<1>3. /\ writing'[c] = <<>> /\ Len(writing'[c]) <= 1
      /\ \A d \in Clients : d # c => writing'[d] = writing[d]
  BY <1>1, <1>2
<1>4. Ends(c) /\ UNCHANGED <<reads, asked, last_path>>
  BY <1>3 DEF WriteFails
<1> QED
  BY <1>1, <1>3, <1>4, SInvKill DEF Ends

LEMMA SInvPeerGone ==
  ASSUME ~Hangup, SInv, CInv', NEW c \in Clients, PeerGone(c)
  PROVE  SInv'
<1>1. /\ reads[c] = <<>> /\ Ends(c) /\ writing' = writing
      /\ UNCHANGED <<reads, asked, last_path>>
  BY DEF PeerGone
<1>2. Len(writing'[c]) <= 1 /\ (conn[c] = "requested" \/ writing'[c] = <<>>)
  BY <1>1 DEF SInv, OneRequest
<1>3. \A d \in Clients : d # c => writing'[d] = writing[d]
  BY <1>1
<1> QED
  BY <1>1, <1>2, <1>3, SInvKill DEF Ends

LEMMA SInvRead ==
  ASSUME MaxVersion = 0, SInv, CInv', NEW c \in Clients, NEW n \in DOMAIN reads[c],
         custom_read_cb(c, n)
  PROVE  SInv'
<1>t. /\ ThreadTypes /\ KInv(cache) /\ Static(cache) /\ Locked(cache, using_file)
      /\ \A d \in Clients : OneRequest(d)
  BY DEF SInv, CInv
<1> DEFINE f == asked[c]
           data == [file |-> f, version |-> 0]
<1>1. reads[c] \in Seq(Read) /\ reads[c] # <<>>
  BY <1>t DEF ThreadTypes
<1>2. /\ Len(reads[c]) = 1 /\ send_data[c] = <<>> /\ writing[c] = <<>>
      /\ using_file[c] = FALSE
      /\ reads[c][1].file = f /\ last_path[c] = f /\ conn[c] = "requested"
  BY <1>t, <1>1 DEF OneRequest, ThreadTypes
<1>3. n = 1 /\ reads[c][1] \in Read
  BY <1>1, <1>2
<1>4. f \in Files /\ f \in Paths /\ reads[c][1].from = 0 /\ version[f] = 0
  <2>1. f \in Files /\ reads[c][1].from \in 0 .. 0
    BY <1>2, <1>3 DEF Read
  <2>2. version[f] \in 0 .. 0
    BY <1>t, <2>1 DEF ThreadTypes
  <2> QED
    BY <2>1, <2>2 DEF Paths
<1>5. reads' = [reads EXCEPT ![c] = <<>>]
  <2>1. RemoveAt(reads[c], 1) = <<>>
    BY <1>1, <1>2, RemoveOnly
  <2> QED
    BY <1>3, <2>1 DEF custom_read_cb
<1>6. /\ ~OutOfBounds(cache)
      /\ conn' = conn /\ last_path' = last_path /\ asked' = asked
      /\ \/ \E k \in try_insert_item(cache, f, data) :
              LET s == fetch_item(k, f, c) IN
              /\ cache' = s.cache
              /\ using_file' = [using_file EXCEPT ![c] = TRUE]
              /\ write_connection(c, [slot |-> s.slot, data |-> data])
         \/ /\ write_connection(c, [slot |-> -1, data |-> data])
            /\ cache' = cache /\ using_file' = using_file
  <2>1. PICK v \in reads[c][n].from .. version[reads[c][n].file] :
          LET d == [file |-> reads[c][n].file, version |-> v]
              inserted == try_insert_item(cache, last_path[c], d)
          IN \/ \E k \in inserted :
                  LET s == fetch_item(k, last_path[c], c) IN
                  /\ cache' = s.cache
                  /\ using_file' = [using_file EXCEPT ![c] = TRUE]
                  /\ write_connection(c, [slot |-> s.slot, data |-> d])
             \/ /\ inserted = {}
                /\ write_connection(c, [slot |-> -1, data |-> d])
                /\ UNCHANGED <<cache, using_file>>
    BY DEF custom_read_cb
  <2>2. reads[c][n].file = f /\ last_path[c] = f
    BY <1>2, <1>3
  <2>3. v = 0
    BY <1>2, <1>3, <1>4, <2>1
  <2>4. [file |-> reads[c][n].file, version |-> v] = data
    BY <2>2, <2>3
  <2> HIDE DEF data, f
  <2>5. \/ \E k \in try_insert_item(cache, f, data) :
             LET s == fetch_item(k, f, c) IN
             /\ cache' = s.cache
             /\ using_file' = [using_file EXCEPT ![c] = TRUE]
             /\ write_connection(c, [slot |-> s.slot, data |-> data])
        \/ /\ write_connection(c, [slot |-> -1, data |-> data])
           /\ cache' = cache /\ using_file' = using_file
    BY <2>1, <2>2, <2>4
  <2>6. ~OutOfBounds(cache) /\ conn' = conn /\ last_path' = last_path /\ asked' = asked
    BY DEF custom_read_cb
  <2> QED
    BY <2>5, <2>6
<1>d. data \in Data \ {NoData}
  <2>1. data \in [file : Files, version : 0 .. MaxVersion]
    BY <1>4
  <2> QED
    BY <2>1, CacheAssumption DEF CacheAssumption, Data
<1>7. \A d \in Clients : d # c =>
        /\ conn'[d] = conn[d] /\ reads'[d] = reads[d]
        /\ asked'[d] = asked[d] /\ last_path'[d] = last_path[d]
  BY <1>t, <1>5, <1>6 DEF ThreadTypes
<1>8. reads'[c] = <<>> /\ conn'[c] = "requested" /\ asked'[c] = f /\ f \in Files
  BY <1>t, <1>2, <1>4, <1>5, <1>6 DEF ThreadTypes
<1>w. data = [file |-> f, version |-> 0]
  OBVIOUS
<1>f. f = asked[c]
  OBVIOUS
<1> HIDE DEF data, f
<1>9. ASSUME NEW k \in try_insert_item(cache, f, data), NEW s, s = fetch_item(k, f, c),
             cache' = s.cache, using_file' = [using_file EXCEPT ![c] = TRUE],
             write_connection(c, [slot |-> s.slot, data |-> data])
      PROVE  SInv'
  <2>1. KInv(k) /\ \E i \in Idx : Inserted(k, cache, i, f, data)
    BY <1>t, <1>4, <1>6, <1>d, InsertKInv
  <2>2. PICK i \in Idx : Inserted(k, cache, i, f, data)
    BY <2>1
  <2>3. Static(k) /\ k.filepath_to_cache_idx[f] = i
    BY <1>t, <1>4, <1>w, <2>1, <2>2, InsertStatic
  <2>4. /\ Locked(k, using_file)
        /\ \A d \in Clients : using_file[d] => cache.client_idx_to_cache_idx[d] # i
    BY <1>t, <2>2, InsertLocked
  <2>5. /\ k.client_idx_to_cache_idx = cache.client_idx_to_cache_idx
        /\ \A j \in Idx : j # i => k.cache_buffer[j].buffer = cache.cache_buffer[j].buffer
        /\ k.cache_buffer[i].buffer = data /\ i \notin k.free_idxs
    BY <2>2 DEF Inserted, Content
  <2>6. ~k.cache_buffer[i].outdated /\ i # -1
    BY <2>3, MinusOneLink DEF Static
  <2>7. s.slot = i /\ Used(cache', k, i, c)
    BY <1>4, <1>9, <2>1, <2>3, <2>6, FetchKInv
  <2>8. Static(cache')
    BY <2>1, <2>3, <2>7, UsedStatic
  <2>9. Locked(cache', using_file')
    <3>1. using_file \in [Clients -> BOOLEAN] /\ ~using_file[c]
      BY <1>t, <1>2 DEF ThreadTypes
    <3> QED
      BY <1>9, <2>1, <2>4, <2>5, <2>7, <3>1, UsedLocked
  <2>10. /\ \A j \in Idx : cache'.cache_buffer[j].buffer = k.cache_buffer[j].buffer
         /\ cache'.client_idx_to_cache_idx[c] = i
         /\ \A d \in Clients : d # c => cache'.client_idx_to_cache_idx[d] = cache.client_idx_to_cache_idx[d]
    BY <1>t, <2>5, <2>7 DEF Used, KInv, Typed
  <2> DEFINE w == [slot |-> i, data |-> data]
  <2>w. /\ send_data'[c] = <<w>> /\ writing'[c] = <<w>>
        /\ \A d \in Clients : d # c => send_data'[d] = send_data[d] /\ writing'[d] = writing[d]
    <3>1. write_connection(c, w)
      BY <1>9, <2>7
    <3> HIDE DEF w
    <3> QED
      BY <1>t, <1>2, <3>1, FirstWrite
  <2>11. ASSUME NEW d \in Clients PROVE OneRequest(d)'
    <3>1. CASE d = c
      <4>1. using_file'[c] = TRUE /\ send_data'[c] = <<w>> /\ Len(writing'[c]) <= 1
        BY <1>t, <1>9, <2>w DEF ThreadTypes
      <4>2. /\ send_data'[c][1] = w /\ Len(send_data'[c]) = 1 /\ send_data'[c] # <<>>
            /\ w.slot = i /\ w.data = data
        BY <4>1
      <4> HIDE DEF w
      <4>3. cache'.cache_buffer[i].buffer = data
        BY <2>5, <2>10
      <4> QED
        BY <1>8, <1>w, <2>10, <3>1, <4>1, <4>2, <4>3 DEF OneRequest
    <3>2. CASE d # c
      <4>1. /\ send_data'[d] = send_data[d] /\ using_file'[d] = using_file[d]
            /\ writing'[d] = writing[d]
        BY <1>t, <1>9, <2>w, <3>2 DEF ThreadTypes
      <4>2. send_data[d] # <<>> /\ send_data[d][1].slot # -1 =>
              cache'.cache_buffer[send_data[d][1].slot].buffer =
                cache.cache_buffer[send_data[d][1].slot].buffer
        <5> SUFFICES ASSUME send_data[d] # <<>>, send_data[d][1].slot # -1
                     PROVE  cache'.cache_buffer[send_data[d][1].slot].buffer =
                              cache.cache_buffer[send_data[d][1].slot].buffer
          OBVIOUS
        <5>1. send_data[d][1].slot \in Idx
          BY WrittenSlot DEF SInv
        <5>2. using_file[d] /\ cache.client_idx_to_cache_idx[d] = send_data[d][1].slot
          BY <1>t DEF OneRequest
        <5>3. send_data[d][1].slot # i
          BY <2>4, <5>2
        <5> QED
          BY <2>5, <2>10, <5>1, <5>3
      <4>3. OneRequest(d)
        BY <1>t
      <4> QED
        BY <1>7, <2>10, <3>2, <4>1, <4>2, <4>3, RequestKept
    <3> QED
      BY <3>1, <3>2
  <2> QED
    BY <2>8, <2>9, <2>11 DEF SInv
<1>10. CASE /\ write_connection(c, [slot |-> -1, data |-> data])
            /\ cache' = cache /\ using_file' = using_file
  <2> DEFINE w == [slot |-> -1, data |-> data]
  <2>w. /\ send_data'[c] = <<w>> /\ writing'[c] = <<w>>
        /\ \A d \in Clients : d # c => send_data'[d] = send_data[d] /\ writing'[d] = writing[d]
    <3>1. write_connection(c, w)
      BY <1>10
    <3> HIDE DEF w
    <3> QED
      BY <1>t, <1>2, <3>1, FirstWrite
  <2>1. ASSUME NEW d \in Clients PROVE OneRequest(d)'
    <3>1. CASE d = c
      <4>1. send_data'[c] = <<w>> /\ Len(writing'[c]) <= 1
        BY <2>w
      <4>2. /\ send_data'[c][1] = w /\ Len(send_data'[c]) = 1 /\ send_data'[c] # <<>>
            /\ w.slot = -1 /\ w.data = data
        BY <4>1
      <4> HIDE DEF w
      <4> QED
        BY <1>8, <1>w, <3>1, <4>1, <4>2 DEF OneRequest
    <3>2. CASE d # c
      <4>1. /\ send_data'[d] = send_data[d] /\ using_file'[d] = using_file[d]
            /\ writing'[d] = writing[d]
        BY <1>10, <2>w, <3>2
      <4> QED
        BY <1>t, <1>7, <1>10, <3>2, <4>1, RequestKept
    <3> QED
      BY <3>1, <3>2
  <2> QED
    BY <1>10, <2>1, SInvSameCache
<1> QED
  BY <1>6, <1>9, <1>10

LEMMA SInvNext ==
  ASSUME MaxVersion = 0, ~Hangup
  PROVE  SInv /\ [Next]_vars => SInv'
<1> SUFFICES ASSUME SInv, [Next]_vars PROVE SInv'
  OBVIOUS
<1>0. CInv'
  BY CInvNext DEF SInv
<1>1. ASSUME NEW c \in Clients, custom_read_undefined(c) PROVE SInv'
  <2>1. cache' = cache /\ using_file' = using_file
    BY <1>1 DEF custom_read_undefined
  <2>2. \A d \in Clients : OneRequest(d)'
    BY <1>1 DEF custom_read_undefined, SInv, OneRequest
  <2> QED
    BY <1>0, <2>1, <2>2, SInvSameCache
<1>5. ASSUME NEW c \in Clients, WriteDoneUndefined(c) PROVE SInv'
  <2>1. cache' = cache /\ using_file' = using_file
    BY <1>5 DEF WriteDoneUndefined
  <2>2. \A d \in Clients : OneRequest(d)'
    BY <1>5 DEF WriteDoneUndefined, SInv, OneRequest
  <2> QED
    BY <1>0, <2>1, <2>2, SInvSameCache
<1>2. ASSUME NEW f \in Files, Modify(f) PROVE SInv'
  BY <1>2 DEF Modify, SInv, CInv, ThreadTypes
<1>3. ASSUME NEW f \in Files, inotify_event_handler(f) PROVE SInv'
  BY <1>3 DEF inotify_event_handler, SInv, Static
<1>4. CASE UNCHANGED vars
  <2>1. cache' = cache /\ using_file' = using_file
    BY <1>4 DEF vars
  <2>2. \A d \in Clients : OneRequest(d)'
    BY <1>4 DEF vars, SInv, OneRequest
  <2> QED
    BY <1>0, <2>1, <2>2, SInvSameCache
<1> QED
  BY <1>0, <1>1, <1>2, <1>3, <1>4, <1>5, SInvConnect, SInvRequest, SInvRead, SInvWriteDone,
     SInvWriteFails, SInvPeerGone DEF Next

LEMMA SInvServes == SInv => ServedIntact /\ RightFile
<1> SUFFICES ASSUME SInv, NEW c \in Clients, NEW m \in DOMAIN send_data[c]
             PROVE  LET w == send_data[c][m] IN
                    /\ w.slot # -1 => cache.cache_buffer[w.slot].buffer = w.data
                    /\ w.data # NoData /\ w.data.file = asked[c]
  BY DEF ServedIntact, RightFile
<1>1. OneRequest(c) /\ ThreadTypes
  BY DEF SInv, CInv
<1>2. send_data[c] \in Seq(Write) /\ send_data[c] # <<>>
  BY <1>1 DEF ThreadTypes
<1>3. m = 1
  BY <1>1, <1>2 DEF OneRequest
<1>4. /\ send_data[c][1].slot # -1 =>
           cache.cache_buffer[send_data[c][1].slot].buffer = send_data[c][1].data
      /\ send_data[c][1].data = [file |-> asked[c], version |-> 0] /\ asked[c] \in Files
  BY <1>1, <1>2 DEF OneRequest
<1>5. send_data[c][1].data # NoData /\ send_data[c][1].data.file = asked[c]
  <2>1. [file |-> asked[c], version |-> 0] \in [file : Files, version : 0 .. MaxVersion]
    BY <1>4, CacheAssumption DEF CacheAssumption
  <2> QED
    BY <1>4, <2>1, CacheAssumption DEF CacheAssumption
<1> QED
  BY <1>3, <1>4, <1>5

\* Files that do not change, and peers that wait while their file is read: what a client has
\* in send_data stays in its slot of the cache until it is popped or the client is closed,
\* for caches of every size and any number of clients, also when several miss the same file
\* and all insert it, writes fail, and the timer closes clients in mid-write.  (What the
\* kernel still writes for a client closed like that is not covered: see WrittenIntact.)
THEOREM WritesServedIntact ==
  ASSUME MaxVersion = 0, ~Hangup
  PROVE  Spec => []ServedIntact
<1>1. Init => SInv
  BY SInvInit
<1>2. SInv /\ [Next]_vars => SInv'
  BY SInvNext
<1>3. SInv => ServedIntact
  BY SInvServes
<1> QED
  BY <1>1, <1>2, <1>3, PTL DEF Spec

\* In the same setting every client is sent the file it asked for, from the cache and after a
\* file read alike: no path leads to a slot that was refilled with another file.
THEOREM ClientsGetTheirFile ==
  ASSUME MaxVersion = 0, ~Hangup
  PROVE  Spec => []RightFile
<1>1. Init => SInv
  BY SInvInit
<1>2. SInv /\ [Next]_vars => SInv'
  BY SInvNext
<1>3. SInv => RightFile
  BY SInvServes
<1> QED
  BY <1>1, <1>2, <1>3, PTL DEF Spec

=============================================================================
