------------------------------- MODULE FileRead -------------------------------
(***************************************************************************)
(* CUSTOM_READ requests of a server thread: a file that is read in several *)
(* pieces behind the headers of its answer (custom_read_req and            *)
(* custom_read_req_continued), and the inotify descriptor, which is read   *)
(* the same way for ever.                                                  *)
(*                                                                         *)
(* read_amount and offsets are unsigned in the code and wrap; here they    *)
(* are integers, a wrapped value is the negative number it stands for.     *)
(***************************************************************************)
EXTENDS Integers, Sequences, SequencesExt

CONSTANTS
  Headers,        \* bytes of headers
  READ_SIZE,   \* bytes every read asks for
  EventSize,   \* sizeof(inotify_event)
  Sizes,       \* sizes of files when they are opened; -1 for what is no regular file
  Errors,      \* the errors a read of a file may end with
  Watched,     \* watched files
  Ignored,     \* an event of a watch that is no more, also the IN_IGNORED that ends it
  Burst,       \* bound: inotify events that are queued at once
  Lowest       \* bound: read_amount does not sink below -Lowest

ASSUME FileReadAssumption ==
  /\ Headers \in Nat \ {0} /\ READ_SIZE \in Nat \ {0} /\ EventSize \in 1 .. READ_SIZE
  /\ Sizes \subseteq Nat \cup {-1} /\ Ignored \notin Watched
  /\ Errors \subseteq Nat \ {0} /\ Burst \in Nat /\ Lowest \in Nat

EINVAL == 22
HeadByte == -2    \* what a buffer holds: headers, zeros, or the file's byte at an offset
ZeroByte == -1
NoRequest == [size |-> -1]

VARIABLES
  size,       \* the size of the file now
  pos,        \* the file position of its descriptor
  file,       \* the request for the file, or NoRequest
  answer,     \* the buffer given to custom_read_cb, or <<>>
  inotify,    \* the request for the inotify descriptor
  events,     \* inotify events that wait in the kernel
  outdated,   \* files whose cached copy is marked as outdated
  disturbed,  \* history: since it was opened, the file changed or a read of it failed
  overrun     \* the kernel, or memcpy, wrote outside of a buffer; nothing is known after that

vars == <<size, pos, file, answer, inotify, events, outdated, disturbed, overrun>>
fileVars == <<size, pos, file, answer, disturbed>>
eventVars == <<inotify, events, outdated>>

-----------------------------------------------------------------------------
\* Mutation of custom_read_req: no room is made for what is in the buffer already.
custom_read_req_short(to_read, read_amount) ==
  [size |-> to_read, total_length |-> to_read, read_amount |-> read_amount, offset |-> 0,
   data |-> [p \in 0 .. to_read - 1 |-> IF p < read_amount THEN HeadByte ELSE ZeroByte]]

\* custom_read_req: a buffer that holds read_amount bytes already and to_read more.
custom_read_req(to_read, read_amount) ==
  [size |-> to_read + read_amount, total_length |-> to_read, read_amount |-> read_amount,
   offset |-> 0,
   data |-> [p \in 0 .. to_read + read_amount - 1 |-> IF p < read_amount THEN HeadByte ELSE ZeroByte]]

\* Mutation of custom_read_req_continued: the file is read from its beginning again.
custom_read_req_continued_again(r, last_read) ==
  [r EXCEPT !.read_amount = @ + last_read, !.offset = 0]

\* Mutation of custom_read_req_continued: the progress is not recorded.
custom_read_req_continued_stuck(r, last_read) ==
  [r EXCEPT !.offset = r.read_amount - (r.size - r.total_length)]

\* custom_read_req_continued: also after a read that failed, whose result is negative.
custom_read_req_continued(r, last_read) ==
  LET amount == r.read_amount + last_read
      initial_offset == r.size - r.total_length
  IN [r EXCEPT !.read_amount = IF amount < -Lowest THEN -Lowest ELSE amount,
               !.offset = amount - initial_offset]

\* The buffer after a read put n bytes of the file, from byte `at', into it.
Filled(r, at, n) ==
  [r EXCEPT !.data = [p \in DOMAIN @ |->
     IF p \in r.read_amount .. r.read_amount + n - 1 THEN at + p - r.read_amount ELSE @[p]]]
Fits(r, n) == n = 0 \/ (r.read_amount >= 0 /\ r.read_amount + n <= r.size)

Init ==
  /\ size \in Sizes
  /\ pos = 0 /\ file = NoRequest /\ answer = <<>>
  /\ inotify = custom_read_req(EventSize, 0)
  /\ events = <<>> /\ outdated = {} /\ disturbed = FALSE /\ overrun = FALSE

\* get_file_size: -1 for what is neither a regular file nor a block device.
get_file_size == size

\* send_file_request, for a file that is not in the cache: the headers are copied into a
\* buffer of file_size + Headers bytes.
send_file_request ==
  /\ file = NoRequest
  /\ file' = custom_read_req(get_file_size, Headers)
  /\ overrun' = (get_file_size < 0)
  /\ answer' = <<>> /\ pos' = 0 /\ disturbed' = FALSE
  /\ UNCHANGED <<size, events, inotify, outdated>>

\* The CUSTOM_READ case of start() for the file: the request is finished when the buffer is
\* full.  Otherwise it goes on, whatever the result was.
FileCompletion(r, result) ==
  IF r.size = r.read_amount + result
  THEN /\ answer' = r.data /\ file' = NoRequest
  ELSE /\ file' = custom_read_req_continued(r, result)
       /\ UNCHANGED answer

\* A read of the file that returns n bytes; an offset of -1 stands for the file position.
\* What is no regular file cannot be read.
FileRead(n) ==
  LET at == IF file.offset = -1 THEN pos ELSE file.offset
      left == IF at < size THEN size - at ELSE 0
  IN /\ file # NoRequest /\ file.offset >= -1 /\ size >= 0
     /\ n <= left /\ (n = 0 => left = 0)
     /\ pos' = IF file.offset = -1 THEN pos + n ELSE pos
     /\ IF Fits(file, n)
        THEN FileCompletion(Filled(file, at, n), n) /\ UNCHANGED overrun
        ELSE overrun' = TRUE /\ UNCHANGED <<file, answer>>
     /\ UNCHANGED <<size, disturbed, eventVars>>

\* A read of the file that fails; one with a negative offset always does.
FileReadFails(error) ==
  /\ file # NoRequest
  /\ IF file.offset < -1 THEN error = EINVAL ELSE error \in Errors
  /\ FileCompletion(file, -error)
  /\ disturbed' = TRUE
  /\ UNCHANGED <<size, pos, overrun, eventVars>>

\* The file is replaced while nobody reads it, or shrinks or grows while it is being read;
\* a descriptor that is open goes on standing for a regular file.
Resize(new) ==
  /\ new # size
  /\ file # NoRequest => new >= 0
  /\ size' = new
  /\ disturbed' = (disturbed \/ file # NoRequest)
  /\ UNCHANGED <<pos, file, answer, overrun, eventVars>>

\* A watched file is modified: the kernel queues an event, unless the last one is the same.
Modify(f) ==
  /\ Len(events) < Burst
  /\ events # <<>> => Last(events) # f
  /\ events' = Append(events, f)
  /\ UNCHANGED <<inotify, outdated, overrun, fileVars>>

\* Mutation of inotify_cb: the descriptor is not read again.
inotify_cb_once(e) ==
  /\ outdated' = outdated \cup ({e} \cap Watched)
  /\ inotify' = NoRequest

\* custom_read_cb for the inotify descriptor: the first event of the buffer is handled;
\* inotify_event_handler ignores a watch that it does not know.
inotify_cb(e) ==
  /\ outdated' = outdated \cup ({e} \cap Watched)
  /\ inotify' = custom_read_req(EventSize, 0)

\* A read of the inotify descriptor returns all events that READ_SIZE has room for.
InotifyBytes ==
  LET fits == READ_SIZE \div EventSize
  IN EventSize * IF Len(events) < fits THEN Len(events) ELSE fits

\* Such a read ends.  The buffer has room for one event, and is full with it.
InotifyRead ==
  /\ events # <<>> /\ inotify # NoRequest
  /\ IF Fits(inotify, InotifyBytes)
     THEN inotify_cb(events[1]) /\ events' = Tail(events) /\ UNCHANGED overrun
     ELSE overrun' = TRUE /\ UNCHANGED eventVars
  /\ UNCHANGED fileVars

\* The cached copy of an outdated file is dropped (fetch_item), with its watch: what is
\* queued for the watch means nothing any more, and inotify_rm_watch queues IN_IGNORED.  The
\* file is read again, and watched again.
Refetch(f) ==
  /\ f \in outdated /\ Len(events) < Burst
  /\ outdated' = outdated \ {f}
  /\ events' = Append([n \in DOMAIN events |-> IF events[n] = f THEN Ignored ELSE events[n]],
                      Ignored)
  /\ UNCHANGED <<inotify, overrun, fileVars>>

Next ==
  /\ ~overrun
  /\ \/ send_file_request
     \/ \E n \in 0 .. READ_SIZE : FileRead(n)
     \/ \E error \in Errors \cup {EINVAL} : FileReadFails(error)
     \/ \E new \in Sizes : Resize(new)
     \/ \E f \in Watched : Modify(f) \/ Refetch(f)
     \/ InotifyRead

Spec == Init /\ [][Next]_vars

\* The kernel ends every read of a file that does not fail, and one of the inotify
\* descriptor when there is an event; the loop of start() handles what has ended.
Fairness ==
  /\ WF_vars(~overrun /\ \E n \in 0 .. READ_SIZE : FileRead(n))
  /\ WF_vars(~overrun /\ InotifyRead)
FairSpec == Spec /\ Fairness

-----------------------------------------------------------------------------
IsRequest(r) ==
  /\ DOMAIN r = {"size", "total_length", "read_amount", "offset", "data"}
  /\ r.total_length \in Int /\ r.read_amount \in Int /\ r.offset \in Int
  /\ DOMAIN r.data = 0 .. r.size - 1
  /\ \A p \in DOMAIN r.data : r.data[p] \in Nat \cup {HeadByte, ZeroByte}

TypeOK ==
  /\ size \in Sizes /\ pos \in Nat
  /\ file = NoRequest \/ IsRequest(file)
  /\ IsRequest(inotify)
  /\ events \in Seq(Watched \cup {Ignored}) /\ outdated \subseteq Watched
  /\ disturbed \in BOOLEAN /\ overrun \in BOOLEAN

\* Every read asks for READ_SIZE bytes whatever room is left in its buffer, and still only
\* three things make one write outside of it: a file that is larger by then than it was when
\* it was opened, headers copied for what is no regular file, and several inotify events at
\* once.  Short reads, failed ones, which turn the progress back below zero, the read from
\* the file position that may follow, and files that shrink never do.
InBounds ==
  [][~overrun /\ overrun' =>
       \/ file # NoRequest /\ size > file.total_length
       \/ file = NoRequest /\ size < 0
       \/ Len(events) > 1]_vars

\* Behind the headers, which are intact, the answer has every byte of the file in its
\* place, in however many pieces it was read.
AnswerIntact ==
  (answer # <<>> /\ ~disturbed) =>
    \A p \in DOMAIN answer : answer[p] = IF p < Headers THEN HeadByte ELSE p - Headers

\* A file that neither changes nor fails to be read is answered.
Answered == (file # NoRequest) ~> (file = NoRequest \/ disturbed \/ overrun)

\* Every change of a watched file is noticed, unless events came together and were written
\* past the buffer: the read of the inotify descriptor is armed again each time.
ChangeNoticed ==
  \A f \in Watched :
    (\E n \in DOMAIN events : events[n] = f) ~> (f \in outdated \/ overrun)

=============================================================================
