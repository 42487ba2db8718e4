---------------------------- MODULE FileReadProofs ----------------------------
(***************************************************************************)
(* What FileRead promises for files and reads of any size: types, bounds   *)
(* of the buffers, and the content of the answer.                          *)
(***************************************************************************)
EXTENDS FileRead, TLAPS

\* What a request is, with the sizes TypeOK leaves open.
Sized(r) == IsRequest(r) /\ r.size \in Int

\* Where the read of a file stands.  The offset follows the progress, also when a failed
\* read turned that back; only a progress below all headers is capped.
FileOK ==
  (file # NoRequest /\ ~overrun) =>
    /\ file.total_length \in Nat
    /\ file.size = file.total_length + Headers
    /\ file.offset >= -1 => file.read_amount = Headers + file.offset
    /\ ~disturbed => size = file.total_length /\ file.offset >= 0

\* What has been read so far is in its place behind the headers.
ReadSoFar ==
  (file # NoRequest /\ ~overrun /\ ~disturbed) =>
    \A p \in 0 .. file.read_amount - 1 : p \in DOMAIN file.data =>
      file.data[p] = IF p < Headers THEN HeadByte ELSE p - Headers

\* The request for the inotify descriptor is always a fresh one.
EventsOK == inotify = custom_read_req(EventSize, 0)

IInv ==
  /\ TypeOK /\ (file # NoRequest => Sized(file))
  /\ FileOK /\ ReadSoFar /\ EventsOK /\ AnswerIntact

-----------------------------------------------------------------------------
LEMMA RequestMade ==
  ASSUME NEW n \in Nat \cup {-1}, NEW m \in Nat
  PROVE  /\ Sized(custom_read_req(n, m))
         /\ custom_read_req(n, m) # NoRequest
         /\ custom_read_req(n, m).size = n + m
         /\ custom_read_req(n, m).total_length = n
         /\ custom_read_req(n, m).read_amount = m
         /\ custom_read_req(n, m).offset = 0
         /\ DOMAIN custom_read_req(n, m).data = 0 .. n + m - 1
         /\ \A p \in 0 .. n + m - 1 :
              custom_read_req(n, m).data[p] = IF p < m THEN HeadByte ELSE ZeroByte
  BY DEF custom_read_req, Sized, IsRequest, NoRequest, HeadByte, ZeroByte

\* The next read of a request: its progress and offset, and nothing else, change.
LEMMA RequestContinued ==
  ASSUME NEW r, Sized(r), NEW n \in Int, NEW c, c = custom_read_req_continued(r, n)
  PROVE  /\ Sized(c) /\ c # NoRequest
         /\ c.size = r.size /\ c.total_length = r.total_length /\ c.data = r.data
         /\ c.read_amount = (IF r.read_amount + n < -Lowest THEN -Lowest ELSE r.read_amount + n)
         /\ c.offset = r.read_amount + n - (r.size - r.total_length)
<1>1. r.size \in Int /\ r.total_length \in Int /\ r.read_amount + n \in Int /\ Lowest \in Int
  BY FileReadAssumption DEF Sized, IsRequest
<1>2. DOMAIN c = DOMAIN r
  BY DEF custom_read_req_continued
<1>3. c.size = r.size /\ c.total_length = r.total_length /\ c.data = r.data
  BY DEF custom_read_req_continued, Sized, IsRequest
<1>4. /\ c.read_amount = (IF r.read_amount + n < -Lowest THEN -Lowest ELSE r.read_amount + n)
      /\ c.offset = r.read_amount + n - (r.size - r.total_length)
  BY DEF custom_read_req_continued, Sized, IsRequest
<1>5. Sized(c)
  BY <1>1, <1>2, <1>3, <1>4 DEF Sized, IsRequest
<1>6. c # NoRequest
  <2>1. "data" \in DOMAIN c /\ "data" \notin DOMAIN NoRequest
    BY <1>2 DEF NoRequest, Sized, IsRequest
  <2> QED
    BY <2>1
<1> QED
  BY <1>3, <1>4, <1>5, <1>6

\* What a read of n bytes from `at' leaves in the buffer.
LEMMA RequestFilled ==
  ASSUME NEW r, Sized(r), NEW at \in Nat, NEW n \in Nat, NEW f, f = Filled(r, at, n)
  PROVE  /\ Sized(f) /\ f # NoRequest
         /\ f.size = r.size /\ f.total_length = r.total_length
         /\ f.read_amount = r.read_amount /\ f.offset = r.offset
         /\ DOMAIN f.data = DOMAIN r.data
         /\ \A p \in DOMAIN r.data :
              f.data[p] = IF p \in r.read_amount .. r.read_amount + n - 1
                          THEN at + p - r.read_amount ELSE r.data[p]
  BY DEF Filled, Sized, IsRequest, NoRequest

-----------------------------------------------------------------------------
LEMMA IInit == Init => IInv
<1> SUFFICES ASSUME Init PROVE IInv
  OBVIOUS
<1>1. Sized(custom_read_req(EventSize, 0))
  <2>1. EventSize \in Nat \cup {-1} /\ 0 \in Nat
    BY FileReadAssumption
  <2> QED
    BY <2>1, RequestMade
<1>2. /\ disturbed \in BOOLEAN /\ overrun \in BOOLEAN
      /\ answer = <<>> /\ file = NoRequest /\ inotify = custom_read_req(EventSize, 0)
      /\ size \in Sizes /\ pos = 0 /\ events = <<>> /\ outdated = {}
  BY DEF Init
<1>3. TypeOK
  BY <1>1, <1>2 DEF TypeOK, Sized
<1>4. EventsOK
  BY <1>2, FileReadAssumption DEF EventsOK
<1> QED
  BY <1>2, <1>3, <1>4 DEF IInv, FileOK, ReadSoFar, AnswerIntact

\* A read of the file, or the failure of one, ends with `result'; g is the request with what
\* the read put into its buffer.
LEMMA CompletionStep ==
  ASSUME IInv, ~overrun, overrun' = FALSE, file # NoRequest,
         NEW g, Sized(g), NEW result \in Int,
         g.size = file.size, g.total_length = file.total_length,
         g.read_amount = file.read_amount, g.offset = file.offset,
         disturbed' \in BOOLEAN, size' = size, pos' \in Nat, UNCHANGED eventVars,
         ~disturbed' =>
           /\ ~disturbed /\ result >= 0
           /\ \A p \in 0 .. file.read_amount + result - 1 : p \in DOMAIN g.data =>
                g.data[p] = IF p < Headers THEN HeadByte ELSE p - Headers,
         FileCompletion(g, result)
  PROVE  IInv'
<1>0. /\ Headers \in Int /\ Headers >= 1 /\ Lowest \in Int /\ Lowest >= 0
      /\ file.read_amount \in Int /\ file.offset \in Int /\ file.size \in Int
      /\ file.total_length \in Nat /\ file.size = file.total_length + Headers
  BY FileReadAssumption DEF IInv, FileOK, Sized, IsRequest
<1>1. overrun' \in BOOLEAN
  OBVIOUS
<1>2. inotify' = inotify /\ events' = events /\ outdated' = outdated
  BY DEF eventVars
<1>3. EventsOK'
  BY <1>2 DEF IInv, EventsOK
<1>4. CASE g.size = g.read_amount + result
  <2>1. answer' = g.data /\ file' = NoRequest
    BY <1>4 DEF FileCompletion
  <2>2. TypeOK'
    BY <2>1, <1>1, <1>2 DEF IInv, TypeOK
  <2>3. AnswerIntact'
    <3> SUFFICES ASSUME ~disturbed', NEW p \in DOMAIN g.data
                 PROVE  g.data[p] = IF p < Headers THEN HeadByte ELSE p - Headers
      BY <2>1 DEF AnswerIntact
    <3>1. p \in 0 .. file.read_amount + result - 1
      BY <1>4 DEF Sized, IsRequest
    <3> QED
      BY <3>1
  <2> QED
    BY <2>1, <2>2, <2>3, <1>3 DEF IInv, FileOK, ReadSoFar
<1>5. CASE g.size # g.read_amount + result
  <2> DEFINE c == custom_read_req_continued(g, result)
  <2>1. file' = c /\ answer' = answer
    BY <1>5 DEF FileCompletion
  <2>2. /\ Sized(c) /\ c # NoRequest
        /\ c.size = file.size /\ c.total_length = file.total_length /\ c.data = g.data
        /\ c.read_amount = (IF file.read_amount + result < -Lowest THEN -Lowest
                             ELSE file.read_amount + result)
        /\ c.offset = file.read_amount + result - Headers
    <3>1. /\ Sized(c) /\ c # NoRequest
          /\ c.size = g.size /\ c.total_length = g.total_length /\ c.data = g.data
          /\ c.read_amount = (IF g.read_amount + result < -Lowest THEN -Lowest
                               ELSE g.read_amount + result)
          /\ c.offset = g.read_amount + result - (g.size - g.total_length)
      BY RequestContinued
    <3> HIDE DEF c
    <3> QED
      BY <3>1, <1>0
  <2> HIDE DEF c
  <2>3. TypeOK'
    BY <2>1, <2>2, <1>1, <1>2 DEF IInv, TypeOK, Sized
  <2>4. FileOK'
    <3>1. c.offset >= -1 => c.read_amount = Headers + c.offset
      BY <2>2, <1>0
    <3>2. ~disturbed' => size = file.total_length /\ c.offset >= 0
      BY <2>2, <1>0 DEF IInv, FileOK
    <3> QED
      BY <2>1, <2>2, <3>1, <3>2, <1>0 DEF IInv, FileOK
  <2>5. ReadSoFar'
    <3> SUFFICES ASSUME ~disturbed', NEW p \in 0 .. c.read_amount - 1, p \in DOMAIN g.data
                 PROVE  g.data[p] = IF p < Headers THEN HeadByte ELSE p - Headers
      BY <2>1, <2>2 DEF ReadSoFar
    <3>1. p \in 0 .. file.read_amount + result - 1
      BY <2>2, <1>0
    <3> QED
      BY <3>1
  <2>6. AnswerIntact'
    BY <2>1, Zenon DEF IInv, AnswerIntact
  <2> QED
    BY <2>1, <2>2, <2>3, <2>4, <2>5, <2>6, <1>3 DEF IInv
<1> QED
  BY <1>4, <1>5

LEMMA ReadStep ==
  ASSUME IInv, ~overrun, NEW n \in 0 .. READ_SIZE, FileRead(n)
  PROVE  IInv'
<1> DEFINE at == IF file.offset = -1 THEN pos ELSE file.offset
           g == Filled(file, at, n)
<1>1. /\ file # NoRequest /\ file.offset >= -1 /\ size >= 0
      /\ n <= (IF at < size THEN size - at ELSE 0)
      /\ pos' = (IF file.offset = -1 THEN pos + n ELSE pos)
      /\ size' = size /\ disturbed' = disturbed /\ UNCHANGED eventVars
  BY DEF FileRead
<1>2. /\ Headers \in Int /\ Headers >= 1 /\ size \in Int /\ pos \in Nat /\ n \in Nat
      /\ Sized(file) /\ file.read_amount \in Int /\ file.offset \in Int
      /\ file.read_amount = Headers + file.offset
  BY <1>1, FileReadAssumption DEF IInv, TypeOK, FileOK, Sized, IsRequest
<1>3. at \in Nat /\ pos' \in Nat
  BY <1>1, <1>2
<1>4. CASE Fits(file, n)
  <2>1. FileCompletion(g, n) /\ overrun' = overrun
    BY <1>4 DEF FileRead
  <2>2. overrun' = FALSE
    BY <2>1 DEF IInv, TypeOK
  <2>3. /\ Sized(g) /\ g.size = file.size /\ g.total_length = file.total_length
        /\ g.read_amount = file.read_amount /\ g.offset = file.offset
        /\ DOMAIN g.data = DOMAIN file.data
        /\ \A p \in DOMAIN file.data :
             g.data[p] = IF p \in file.read_amount .. file.read_amount + n - 1
                         THEN at + p - file.read_amount ELSE file.data[p]
    <3>1. g = Filled(file, at, n)
      OBVIOUS
    <3>2. Sized(file) /\ at \in Nat /\ n \in Nat
      BY <1>2, <1>3
    <3> HIDE DEF g, at
    <3> QED
      BY <3>1, <3>2, RequestFilled
  <2>4. ASSUME ~disturbed,
               NEW p \in 0 .. file.read_amount + n - 1, p \in DOMAIN g.data
        PROVE  g.data[p] = IF p < Headers THEN HeadByte ELSE p - Headers
    <3>1. file.offset >= 0 /\ at = file.offset
      BY <2>4, <1>1, <1>2 DEF IInv, FileOK
    <3> HIDE DEF at
    <3>2. CASE p \in file.read_amount .. file.read_amount + n - 1
      BY <2>3, <2>4, <3>1, <3>2, <1>2
    <3>3. CASE p \in 0 .. file.read_amount - 1
      BY <2>3, <2>4, <3>3, <1>1, <1>2 DEF IInv, ReadSoFar
    <3> QED
      BY <3>2, <3>3, <1>2
  <2> HIDE DEF g, at
  <2>5. n \in Int /\ n >= 0 /\ disturbed' \in BOOLEAN
    BY <1>1 DEF IInv, TypeOK
  <2> QED
    BY <2>1, <2>2, <2>3, <2>4, <2>5, <1>1, <1>3, CompletionStep
<1>5. CASE ~Fits(file, n)
  <2>1. overrun' = TRUE /\ file' = file /\ answer' = answer
    BY <1>5 DEF FileRead
  <2>2. inotify' = inotify /\ events' = events /\ outdated' = outdated
    BY <1>1 DEF eventVars
  <2> QED
    BY <2>1, <2>2, <1>1, <1>3 DEF IInv, TypeOK, FileOK, ReadSoFar, EventsOK, AnswerIntact
<1> QED
  BY <1>4, <1>5

LEMMA FailStep ==
  ASSUME IInv, ~overrun, NEW error \in Errors \cup {EINVAL}, FileReadFails(error)
  PROVE  IInv'
<1>1. /\ file # NoRequest /\ FileCompletion(file, -error)
      /\ disturbed' = TRUE /\ size' = size /\ pos' = pos /\ overrun' = overrun
      /\ UNCHANGED eventVars
  BY DEF FileReadFails
<1>2. -error \in Int /\ Sized(file) /\ pos \in Nat
  BY <1>1, FileReadAssumption DEF EINVAL, IInv, TypeOK
<1>3. overrun' = FALSE
  BY <1>1 DEF IInv, TypeOK
<1> QED
  BY <1>1, <1>2, <1>3, CompletionStep

LEMMA RequestStep == ASSUME IInv, send_file_request PROVE IInv'
<1> DEFINE r == custom_read_req(size, Headers)
<1>1. /\ file' = r /\ overrun' = (size < 0) /\ answer' = <<>> /\ pos' = 0
      /\ disturbed' = FALSE /\ size' = size
      /\ events' = events /\ inotify' = inotify /\ outdated' = outdated
  BY DEF send_file_request, get_file_size
<1>2. Headers \in Nat /\ Headers >= 1 /\ size \in Nat \cup {-1}
  BY FileReadAssumption DEF IInv, TypeOK
<1>3. /\ Sized(r) /\ r # NoRequest /\ r.size = size + Headers /\ r.total_length = size
      /\ r.read_amount = Headers /\ r.offset = 0
      /\ DOMAIN r.data = 0 .. size + Headers - 1
      /\ \A p \in 0 .. size + Headers - 1 :
           r.data[p] = IF p < Headers THEN HeadByte ELSE ZeroByte
  BY <1>2, RequestMade
<1> HIDE DEF r
<1>4. overrun' \in BOOLEAN /\ disturbed' \in BOOLEAN /\ (~overrun' => size \in Nat)
  <2>1. (size < 0) \in BOOLEAN
    OBVIOUS
  <2>2. overrun' \in BOOLEAN /\ (~overrun' => ~(size < 0))
    BY <1>1, <2>1, Zenon
  <2>3. disturbed' \in BOOLEAN
    BY <1>1
  <2>4. ~(size < 0) => size \in Nat
    BY <1>2
  <2> QED
    BY <2>2, <2>3, <2>4, Zenon
<1>5. TypeOK'
  BY <1>1, <1>3, <1>4 DEF IInv, TypeOK, Sized
<1>6. FileOK'
  <2> SUFFICES ASSUME ~overrun' PROVE FileOK'
    BY DEF FileOK
  <2>1. file'.total_length = size /\ file'.size = size + Headers
        /\ file'.offset = 0 /\ file'.read_amount = Headers /\ size' = size /\ size \in Nat
    BY <1>1, <1>3, <1>4
  <2> QED
    BY <2>1, <1>2 DEF FileOK
<1>7. ReadSoFar'
  BY <1>1, <1>2, <1>3 DEF ReadSoFar
<1>8. EventsOK' /\ AnswerIntact'
  BY <1>1 DEF IInv, EventsOK, AnswerIntact
<1> QED
  BY <1>1, <1>3, <1>5, <1>6, <1>7, <1>8 DEF IInv

LEMMA ResizeStep == ASSUME IInv, NEW new \in Sizes, Resize(new) PROVE IInv'
<1>1. /\ size' = new /\ pos' = pos /\ file' = file /\ answer' = answer
      /\ overrun' = overrun /\ inotify' = inotify /\ events' = events /\ outdated' = outdated
  BY DEF Resize, eventVars
<1>2. disturbed' = (disturbed \/ file # NoRequest)
  BY DEF Resize
<1>3. disturbed' \in BOOLEAN
  BY <1>2
<1>4. TypeOK'
  BY <1>1, <1>3 DEF IInv, TypeOK
<1>5. file # NoRequest => disturbed'
  BY <1>2, Zenon
<1>6. disturbed => disturbed'
  BY <1>2, Zenon
<1>7. FileOK'
  BY <1>1, <1>5 DEF IInv, FileOK
<1>8. ReadSoFar' /\ EventsOK'
  BY <1>1, <1>5 DEF IInv, ReadSoFar, EventsOK
<1>9. AnswerIntact'
  BY <1>1, <1>6 DEF IInv, AnswerIntact
<1> QED
  BY <1>1, <1>4, <1>7, <1>8, <1>9 DEF IInv

\* The read of the inotify descriptor that meets one event fits.
LEMMA OneEventFits ==
  ASSUME IInv, events # <<>>, ~(Len(events) > 1)
  PROVE  Fits(inotify, InotifyBytes)
<1>1. EventSize \in Int /\ EventSize >= 1 /\ EventSize <= READ_SIZE /\ READ_SIZE \in Int
  BY FileReadAssumption
<1>2. Len(events) = 1
  <2>1. events \in Seq(Watched \cup {Ignored})
    BY DEF IInv, TypeOK
  <2>2. PICK n \in Nat : n = Len(events) /\ n # 0 /\ ~(n > 1)
    BY <2>1
  <2>3. n = 1
    BY <2>2
  <2> QED
    BY <2>2, <2>3
<1>3. READ_SIZE \div EventSize >= 1 /\ READ_SIZE \div EventSize \in Int
  BY <1>1
<1>4. InotifyBytes = EventSize * 1
  <2> DEFINE fits == READ_SIZE \div EventSize
  <2>1. (IF Len(events) < fits THEN Len(events) ELSE fits) = 1
    BY <1>2, <1>3
  <2> QED
    BY <2>1 DEF InotifyBytes
<1>5. inotify.size = EventSize /\ inotify.read_amount = 0
  <2>1. EventSize \in Nat \cup {-1} /\ 0 \in Nat
    BY <1>1
  <2>2. /\ custom_read_req(EventSize, 0).size = EventSize + 0
        /\ custom_read_req(EventSize, 0).read_amount = 0
    BY <2>1, RequestMade
  <2>3. inotify = custom_read_req(EventSize, 0)
    BY DEF IInv, EventsOK
  <2> QED
    BY <1>1, <2>2, <2>3
<1>6. InotifyBytes = EventSize
  BY <1>1, <1>4
<1> QED
  BY <1>1, <1>5, <1>6 DEF Fits

LEMMA EventStep ==
  ASSUME IInv, InotifyRead \/ \E f \in Watched : Modify(f) \/ Refetch(f)
  PROVE  IInv' /\ (~overrun /\ overrun' => Len(events) > 1)
<1>1. size' = size /\ pos' = pos /\ file' = file /\ answer' = answer /\ disturbed' = disturbed
  BY DEF InotifyRead, Modify, Refetch, fileVars
<1>2. ASSUME EventsOK', overrun' = overrun \/ overrun' = TRUE,
             events' \in Seq(Watched \cup {Ignored}), outdated' \subseteq Watched
      PROVE  IInv'
  <2>0. Sized(custom_read_req(EventSize, 0))
    <3>1. EventSize \in Nat \cup {-1} /\ 0 \in Nat
      BY FileReadAssumption
    <3> QED
      BY <3>1, RequestMade
  <2>1. overrun' \in BOOLEAN
    BY <1>2 DEF IInv, TypeOK
  <2>2. TypeOK'
    BY <1>1, <1>2, <2>0, <2>1 DEF IInv, TypeOK, EventsOK, Sized
  <2>3. FileOK' /\ ReadSoFar' /\ AnswerIntact'
    BY <1>1, <1>2 DEF IInv, FileOK, ReadSoFar, AnswerIntact
  <2> QED
    BY <1>1, <1>2, <2>2, <2>3 DEF IInv
<1>3. events \in Seq(Watched \cup {Ignored}) /\ outdated \subseteq Watched /\ EventsOK
  BY DEF IInv, TypeOK
<1>4. CASE InotifyRead
  <2>1. events # <<>>
    BY <1>4 DEF InotifyRead
  <2>2. CASE Fits(inotify, InotifyBytes)
    <3>1. /\ outdated' = outdated \cup ({events[1]} \cap Watched)
          /\ inotify' = custom_read_req(EventSize, 0)
          /\ events' = Tail(events) /\ overrun' = overrun
      BY <1>4, <2>2 DEF InotifyRead, inotify_cb
    <3>2. events' \in Seq(Watched \cup {Ignored}) /\ outdated' \subseteq Watched
      BY <3>1, <2>1, <1>3
    <3>3. EventsOK'
      BY <3>1 DEF EventsOK
    <3>4. IInv'
      BY <3>1, <3>2, <3>3, <1>2
    <3> QED
      BY <3>1, <3>4
  <2>3. CASE ~Fits(inotify, InotifyBytes)
    <3>1. overrun' = TRUE /\ inotify' = inotify /\ events' = events /\ outdated' = outdated
      BY <1>4, <2>3 DEF InotifyRead, eventVars
    <3>2. EventsOK'
      BY <3>1, <1>3 DEF EventsOK
    <3>3. Len(events) > 1
      BY <2>1, <2>3, OneEventFits
    <3> QED
      BY <3>1, <3>2, <3>3, <1>2, <1>3
  <2> QED
    BY <2>2, <2>3
<1>5. ASSUME NEW f \in Watched, Modify(f) PROVE IInv' /\ overrun' = overrun
  <2>1. /\ events' = Append(events, f)
        /\ inotify' = inotify /\ outdated' = outdated /\ overrun' = overrun
    BY <1>5 DEF Modify
  <2>2. events' \in Seq(Watched \cup {Ignored})
    BY <2>1, <1>3
  <2>3. EventsOK'
    BY <2>1, <1>3 DEF EventsOK
  <2> QED
    BY <2>1, <2>2, <2>3, <1>2, <1>3
<1>6. ASSUME NEW f \in Watched, Refetch(f) PROVE IInv' /\ overrun' = overrun
  <2> DEFINE old == [n \in DOMAIN events |-> IF events[n] = f THEN Ignored ELSE events[n]]
  <2>1. /\ outdated' = outdated \ {f} /\ events' = Append(old, Ignored)
        /\ inotify' = inotify /\ overrun' = overrun
    BY <1>6 DEF Refetch
  <2>2. old \in Seq(Watched \cup {Ignored})
    <3>1. Len(events) \in Nat /\ DOMAIN events = 1 .. Len(events)
      BY <1>3
    <3>2. \A n \in 1 .. Len(events) : events[n] \in Watched \cup {Ignored}
      BY <1>3
    <3>3. old \in [1 .. Len(events) -> Watched \cup {Ignored}]
      BY <3>1, <3>2
    <3> HIDE DEF old
    <3> QED
      BY <3>1, <3>3
  <2>3. events' \in Seq(Watched \cup {Ignored})
    <3> HIDE DEF old
    <3> QED
      BY <2>1, <2>2
  <2>4. EventsOK'
    BY <2>1, <1>3 DEF EventsOK
  <2> QED
    BY <2>1, <2>3, <2>4, <1>2, <1>3
<1> QED
  BY <1>4, <1>5, <1>6

LEMMA IStep == IInv /\ [Next]_vars => IInv'
<1> SUFFICES ASSUME IInv, [Next]_vars PROVE IInv'
  OBVIOUS
<1>1. CASE UNCHANGED vars
  BY <1>1 DEF vars, IInv, TypeOK, FileOK, ReadSoFar, EventsOK, AnswerIntact
<1>2. CASE Next
  BY <1>2, RequestStep, ReadStep, FailStep, ResizeStep, EventStep DEF Next
<1> QED
  BY <1>1, <1>2

\* Requests, file positions, buffers and events keep their types, whatever the sizes of files
\* and reads are and however reads fail: in particular a continued request stays a request.
THEOREM FileReadTypeCorrect == Spec => []TypeOK
<1>1. IInv => TypeOK
  BY DEF IInv
<1> QED
  BY IInit, IStep, <1>1, PTL DEF Spec

\* A file that did not change and was read without errors is answered intact: headers, then
\* every byte of the file in its place, for any file size, any READ_SIZE, and any number of
\* short reads, which custom_read_req_continued goes on from.
THEOREM AnswersIntact == Spec => []AnswerIntact
<1>1. IInv => AnswerIntact
  BY DEF IInv
<1> QED
  BY IInit, IStep, <1>1, PTL DEF Spec

-----------------------------------------------------------------------------
(* Bounds of the buffers.                                                  *)

\* A read of a file that has not outgrown its buffer stays inside the buffer: also the one
\* from the file position, which an error can bring about by turning the offset to -1.
LEMMA ReadFits ==
  ASSUME IInv, ~overrun, NEW n \in 0 .. READ_SIZE, FileRead(n), ~(size > file.total_length)
  PROVE  ~overrun'
<1> DEFINE at == IF file.offset = -1 THEN pos ELSE file.offset
<1>1. /\ file # NoRequest /\ file.offset >= -1
      /\ n <= (IF at < size THEN size - at ELSE 0)
  BY DEF FileRead
<1>2. /\ Headers \in Int /\ Headers >= 1 /\ size \in Int /\ pos \in Nat /\ n \in Nat
      /\ file.read_amount \in Int /\ file.offset \in Int /\ file.total_length \in Nat
      /\ file.read_amount = Headers + file.offset
      /\ file.size = file.total_length + Headers /\ size <= file.total_length
  BY <1>1, FileReadAssumption DEF IInv, TypeOK, FileOK, Sized, IsRequest
<1>3. file.offset <= at
  BY <1>1, <1>2
<1>4. Fits(file, n)
  <2>1. at \in Int
    BY <1>2
  <2> HIDE DEF at
  <2> QED
    BY <1>1, <1>2, <1>3, <2>1 DEF Fits
<1> QED
  BY <1>4 DEF FileRead

\* What a step that leaves its buffer has met.
Overgrown == file # NoRequest /\ size > file.total_length
Irregular == file = NoRequest /\ size < 0

LEMMA BoundsStep ==
  ASSUME IInv, [Next]_vars, ~overrun, overrun'
  PROVE  Overgrown \/ Irregular \/ Len(events) > 1
<1>1. CASE send_file_request
  <2>1. overrun' = (size < 0) /\ file = NoRequest
    BY <1>1, Zenon DEF send_file_request, get_file_size
  <2> QED
    BY <2>1, Zenon DEF Irregular
<1>2. ASSUME NEW n \in 0 .. READ_SIZE, FileRead(n) PROVE Overgrown
  BY <1>2, ReadFits DEF FileRead, Overgrown
<1>3. ASSUME NEW error \in Errors \cup {EINVAL}, FileReadFails(error) PROVE FALSE
  BY <1>3 DEF FileReadFails
<1>4. ASSUME NEW new \in Sizes, Resize(new) PROVE FALSE
  BY <1>4 DEF Resize
<1>5. CASE UNCHANGED vars
  BY <1>5 DEF vars
<1> QED
  BY <1>1, <1>2, <1>3, <1>4, <1>5, EventStep DEF Next

\* For files and reads of any size, with files that shrink, grow or fail to be read at any
\* moment: the only reads that leave their buffer are one of a file that outgrew the size it
\* was opened with, the headers of what is no regular file, and one of several inotify
\* events; the READ_SIZE bytes that each read asks for never do it otherwise, also where
\* failures turned the progress below zero or the offset to the file position.
THEOREM ReadsInBounds == Spec => InBounds
<1>1. IInv /\ [Next]_vars =>
        [~overrun /\ overrun' => \/ file # NoRequest /\ size > file.total_length
                                 \/ file = NoRequest /\ size < 0
                                 \/ Len(events) > 1]_vars
  BY BoundsStep DEF Overgrown, Irregular
<1> QED
  BY IInit, IStep, <1>1, PTL DEF Spec, InBounds

=============================================================================
