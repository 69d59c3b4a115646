-------------------------- MODULE LmsClientProofs --------------------------
(***************************************************************************)
(* The LMS client, for every size of its buffers, of a frame and of the    *)
(* output: the inductive invariant LmsInv of LmsClient.tla.                *)
(*                                                                         *)
(* A lemma XDoes says of every outcome of the call X what the calls above  *)
(* it need to know.                                                        *)
(***************************************************************************)
EXTENDS LmsClient, TLAPS

LEMMA Constants ==
  /\ FrameBytes \in Nat /\ FrameBytes > 0 /\ PcmFrames \in Nat /\ PcmFrames > 0
  /\ IngressBytes \in Nat /\ RxBytes \in Nat /\ MaxBody \in Nat
  /\ Capacity \in Nat /\ Capacity > 0 /\ Preferred \in Nat /\ Preferred > 0
  /\ TxMessages \in Nat /\ TxMessages > 0
  BY LmsAssumption

LEMMA Ranges ==
  /\ 0 \in TxRange /\ 1 \in TxRange /\ 0 \in FrameRange
  /\ \A n \in TxRange : n \in Nat /\ (n < TxMessages => n + 1 \in TxRange)
  /\ \A n \in FrameRange : n \in Nat /\ n <= Capacity
  BY Constants DEF TxRange, FrameRange

LEMMA MinOfTwo ==
  ASSUME NEW a \in Int, NEW b \in Int
  PROVE  Min({a, b}) \in {a, b} /\ Min({a, b}) <= a /\ Min({a, b}) <= b
<1>1. \E x \in {a, b} : \A y \in {a, b} : x <= y
  OBVIOUS
<1> QED BY <1>1 DEF Min

LEMMA MaxOfTwo ==
  ASSUME NEW a \in Int, NEW b \in Int
  PROVE  Max({a, b}) \in {a, b} /\ Max({a, b}) >= a /\ Max({a, b}) >= b
<1>1. \E x \in {a, b} : \A y \in {a, b} : x >= y
  OBVIOUS
<1> QED BY <1>1 DEF Max

LEMMA MinOfThree ==
  ASSUME NEW a \in Int, NEW b \in Int, NEW d \in Int
  PROVE  Min({a, b, d}) \in {a, b, d}
<1>1. \E x \in {a, b, d} : \A y \in {a, b, d} : x <= y
  OBVIOUS
<1> QED BY <1>1 DEF Min

(* eaf_lms_buffer_limits: the reserve is one the output can hold. *)
LEMMA BufferLimitInRange ==
  ASSUME NEW s \in Nat
  PROVE  BufferLimit(s) \in 1..Capacity
<1> DEFINE a == (s + FrameBytes - 1) \div FrameBytes
           m == Max({a, Preferred})
<1>1. a \in Int
  BY Constants
<1> HIDE DEF a
<1>2. m \in {a, Preferred} /\ m >= Preferred
  BY <1>1, Constants, MaxOfTwo
<1> HIDE DEF m
<1>3. m \in Int /\ m >= 1
  BY <1>1, <1>2, Constants
<1>4. Min({m, Capacity}) \in {m, Capacity} /\ Min({m, Capacity}) <= Capacity
  BY <1>3, Constants, MinOfTwo
<1>5. Min({m, Capacity}) \in 1..Capacity
  BY <1>3, <1>4, Constants
<1> QED BY <1>5 DEF BufferLimit, m, a

(* wrote frames are wrote * FrameBytes bytes, and no more than there are. *)
LEMMA WholeFrames ==
  ASSUME NEW n \in Nat, NEW k \in Nat, k <= n \div FrameBytes
  PROVE  k * FrameBytes \in Nat /\ k * FrameBytes <= n /\ (k * FrameBytes) \div FrameBytes = k
<1>1. FrameBytes \in Nat /\ FrameBytes > 0
  BY Constants
<1>2. n \div FrameBytes \in Nat /\ (n \div FrameBytes) * FrameBytes <= n
  BY <1>1
<1>3. k * FrameBytes <= (n \div FrameBytes) * FrameBytes
  BY <1>1, <1>2
<1>4. k * FrameBytes \in Nat /\ (k * FrameBytes) \div FrameBytes = k
  BY <1>1
<1> QED BY <1>1, <1>2, <1>3, <1>4
----------------------------------------------------------------------------
(* Worlds. *)

LEMMA Parts ==
  ASSUME NEW w \in WorldType
  PROVE  w.c \in ClientType /\ w.out \in OutputType /\ w.h \in HistoryType
  BY DEF WorldType

LEMMA SetC ==
  ASSUME NEW w \in WorldType, NEW k \in ClientType
  PROVE  LET u == [w EXCEPT !.c = k] IN
         u \in WorldType /\ u.c = k /\ u.out = w.out /\ u.h = w.h
  BY DEF WorldType

LEMMA SetOut ==
  ASSUME NEW w \in WorldType, NEW p \in OutputType
  PROVE  LET u == [w EXCEPT !.out = p] IN
         u \in WorldType /\ u.c = w.c /\ u.out = p /\ u.h = w.h
  BY DEF WorldType

LEMMA SetH ==
  ASSUME NEW w \in WorldType, NEW g \in HistoryType
  PROVE  LET u == [w EXCEPT !.h = g] IN
         u \in WorldType /\ u.c = w.c /\ u.out = w.out /\ u.h = g
  BY DEF WorldType

(* q agrees with k on the fields that the invariant is about. *)
Like(k, q) ==
  /\ q \in ClientType
  /\ q.control = k.control /\ q.http = k.http /\ q.streaming = k.streaming
  /\ q.output_released = k.output_released /\ q.input_eof = k.input_eof
  /\ q.eof_sent = k.eof_sent /\ q.prefill_frames = k.prefill_frames
  /\ q.ready_frames = k.ready_frames /\ q.pcm = k.pcm /\ q.pcm_sent = k.pcm_sent
  /\ q.body_done = k.body_done /\ q.ready_sent = k.ready_sent
  /\ q.started_sent = k.started_sent /\ q.has_length = k.has_length
  /\ q.remaining = k.remaining /\ q.tail = k.tail /\ q.ingress = k.ingress

(* u differs from w at most in the fields that the invariant is not about. *)
Alike(w, u) == u \in WorldType /\ Like(w.c, u.c) /\ u.out = w.out /\ u.h = w.h

LEMMA AlikeSelf == ASSUME NEW w \in WorldType PROVE Alike(w, w)
  BY Parts DEF Alike, Like

LEMMA AlikeSteps ==
  ASSUME NEW w, NEW u, NEW v, Alike(w, u), Alike(u, v) PROVE Alike(w, v)
  BY DEF Alike, Like

LEMMA AlikeSane ==
  ASSUME NEW w, NEW u, Sane(w), Alike(w, u) PROVE Sane(u)
  BY DEF Alike, Like, Sane

LEMMA AlikeGood ==
  ASSUME NEW w, NEW u, Good(w), Alike(w, u) PROVE Good(u)
<1>1. Sane(u)
  BY AlikeSane DEF Good
<1>2. OutputOK(u)
  BY DEF Good, OutputOK, Alike, Like
<1>3. TellsOK(u)
  BY DEF Good, TellsOK, Alike, Like
<1>4. Unsent(u) = Unsent(w)
  BY DEF Alike, Like, Unsent
<1>5. BodyOK(u)
  BY <1>4 DEF Good, BodyOK, Alike, Like
<1>6. BytesOK(u)
  BY <1>4 DEF Good, BytesOK, Alike, Like
<1> QED BY <1>1, <1>2, <1>3, <1>5, <1>6 DEF Good

LEMMA AlikeBy ==
  ASSUME NEW w \in WorldType, NEW k, Like(w.c, k)
  PROVE  Alike(w, [w EXCEPT !.c = k])
  BY SetC DEF Alike, Like

LEMMA SetTx ==
  ASSUME NEW w \in WorldType, NEW b \in TxRange
  PROVE  Alike(w, [w EXCEPT !.c.tx = b]) /\ [w EXCEPT !.c.tx = b].c.tx = b
<1> DEFINE k == [w.c EXCEPT !.tx = b]
<1>1. [w EXCEPT !.c.tx = b] = [w EXCEPT !.c = k]
  OBVIOUS
<1>2. w.c \in ClientType
  BY Parts
<1>3. k \in ClientType /\ k.tx = b
  BY <1>2 DEF ClientType
<1>4. Like(w.c, k)
  BY <1>2, <1>3 DEF Like, ClientType
<1> HIDE DEF k
<1>5. Alike(w, [w EXCEPT !.c = k]) /\ [w EXCEPT !.c = k].c = k
  BY <1>3, <1>4, AlikeBy, SetC
<1> QED BY <1>1, <1>3, <1>5

LEMMA SetWaitStart ==
  ASSUME NEW w \in WorldType, NEW b \in BOOLEAN
  PROVE  Alike(w, [w EXCEPT !.c.wait_start = b]) /\ [w EXCEPT !.c.wait_start = b].c.wait_start = b
<1> DEFINE k == [w.c EXCEPT !.wait_start = b]
<1>1. [w EXCEPT !.c.wait_start = b] = [w EXCEPT !.c = k]
  OBVIOUS
<1>2. w.c \in ClientType
  BY Parts
<1>3. k \in ClientType /\ k.wait_start = b
  BY <1>2 DEF ClientType
<1>4. Like(w.c, k)
  BY <1>2, <1>3 DEF Like, ClientType
<1> HIDE DEF k
<1>5. Alike(w, [w EXCEPT !.c = k]) /\ [w EXCEPT !.c = k].c = k
  BY <1>3, <1>4, AlikeBy, SetC
<1> QED BY <1>1, <1>3, <1>5

LEMMA SetWaitCont ==
  ASSUME NEW w \in WorldType, NEW b \in BOOLEAN
  PROVE  Alike(w, [w EXCEPT !.c.wait_cont = b]) /\ [w EXCEPT !.c.wait_cont = b].c.wait_cont = b
<1> DEFINE k == [w.c EXCEPT !.wait_cont = b]
<1>1. [w EXCEPT !.c.wait_cont = b] = [w EXCEPT !.c = k]
  OBVIOUS
<1>2. w.c \in ClientType
  BY Parts
<1>3. k \in ClientType /\ k.wait_cont = b
  BY <1>2 DEF ClientType
<1>4. Like(w.c, k)
  BY <1>2, <1>3 DEF Like, ClientType
<1> HIDE DEF k
<1>5. Alike(w, [w EXCEPT !.c = k]) /\ [w EXCEPT !.c = k].c = k
  BY <1>3, <1>4, AlikeBy, SetC
<1> QED BY <1>1, <1>3, <1>5

LEMMA SetOutputPaused ==
  ASSUME NEW w \in WorldType, NEW b \in BOOLEAN
  PROVE  Alike(w, [w EXCEPT !.c.output_paused = b]) /\ [w EXCEPT !.c.output_paused = b].c.output_paused = b
<1> DEFINE k == [w.c EXCEPT !.output_paused = b]
<1>1. [w EXCEPT !.c.output_paused = b] = [w EXCEPT !.c = k]
  OBVIOUS
<1>2. w.c \in ClientType
  BY Parts
<1>3. k \in ClientType /\ k.output_paused = b
  BY <1>2 DEF ClientType
<1>4. Like(w.c, k)
  BY <1>2, <1>3 DEF Like, ClientType
<1> HIDE DEF k
<1>5. Alike(w, [w EXCEPT !.c = k]) /\ [w EXCEPT !.c = k].c = k
  BY <1>3, <1>4, AlikeBy, SetC
<1> QED BY <1>1, <1>3, <1>5

LEMMA SetRequestSent ==
  ASSUME NEW w \in WorldType, NEW b \in BOOLEAN
  PROVE  Alike(w, [w EXCEPT !.c.request_sent = b]) /\ [w EXCEPT !.c.request_sent = b].c.request_sent = b
<1> DEFINE k == [w.c EXCEPT !.request_sent = b]
<1>1. [w EXCEPT !.c.request_sent = b] = [w EXCEPT !.c = k]
  OBVIOUS
<1>2. w.c \in ClientType
  BY Parts
<1>3. k \in ClientType /\ k.request_sent = b
  BY <1>2 DEF ClientType
<1>4. Like(w.c, k)
  BY <1>2, <1>3 DEF Like, ClientType
<1> HIDE DEF k
<1>5. Alike(w, [w EXCEPT !.c = k]) /\ [w EXCEPT !.c = k].c = k
  BY <1>3, <1>4, AlikeBy, SetC
<1> QED BY <1>1, <1>3, <1>5

LEMMA SetHeadersDone ==
  ASSUME NEW w \in WorldType, NEW b \in BOOLEAN
  PROVE  Alike(w, [w EXCEPT !.c.headers_done = b]) /\ [w EXCEPT !.c.headers_done = b].c.headers_done = b
<1> DEFINE k == [w.c EXCEPT !.headers_done = b]
<1>1. [w EXCEPT !.c.headers_done = b] = [w EXCEPT !.c = k]
  OBVIOUS
<1>2. w.c \in ClientType
  BY Parts
<1>3. k \in ClientType /\ k.headers_done = b
  BY <1>2 DEF ClientType
<1>4. Like(w.c, k)
  BY <1>2, <1>3 DEF Like, ClientType
<1> HIDE DEF k
<1>5. Alike(w, [w EXCEPT !.c = k]) /\ [w EXCEPT !.c = k].c = k
  BY <1>3, <1>4, AlikeBy, SetC
<1> QED BY <1>1, <1>3, <1>5
----------------------------------------------------------------------------
(* Messages to the server. *)

LEMMA EnqueueDoes ==
  ASSUME NEW w \in WorldType, NEW o \in Enqueue(w)
  PROVE  Alike(w, o.w)
<1>1. CASE w.c.tx < TxMessages
  <2>1. w.c.tx + 1 \in TxRange
    BY <1>1, Parts, Ranges DEF ClientType
  <2>2. o = [ok |-> TRUE, w |-> [w EXCEPT !.c.tx = w.c.tx + 1]]
    BY <1>1 DEF Enqueue, Done
  <2> QED BY <2>1, <2>2, SetTx
<1>2. CASE ~(w.c.tx < TxMessages)
  BY <1>2, AlikeSelf DEF Enqueue, Failed
<1> QED BY <1>1, <1>2

(* The report is in the history when it could be queued. *)
Reported(g, e) ==
  [g EXCEPT !.twice = g.twice \/ e \in g.told, !.told = g.told \cup (Once \cap {e})]

LEMMA ReportedIs ==
  ASSUME NEW g \in HistoryType, NEW e
  PROVE  /\ Reported(g, e) \in HistoryType
         /\ Reported(g, e).twice <=> g.twice \/ e \in g.told
         /\ Reported(g, e).told = g.told \cup (Once \cap {e})
         /\ Reported(g, e).stream = g.stream /\ Reported(g, e).residue = g.residue
         /\ Reported(g, e).received = g.received /\ Reported(g, e).delivered = g.delivered
         /\ Reported(g, e).refused = g.refused
<1> DEFINE t == g.told \cup (Once \cap {e})
           b == g.twice \/ e \in g.told
<1>1. t \in SUBSET Once /\ b \in BOOLEAN
  BY DEF HistoryType
<1>2. Reported(g, e) = [g EXCEPT !.twice = b, !.told = t]
  BY DEF Reported
<1> HIDE DEF t, b
<1>3. /\ [g EXCEPT !.twice = b, !.told = t] \in HistoryType
      /\ [g EXCEPT !.twice = b, !.told = t].twice = b
      /\ [g EXCEPT !.twice = b, !.told = t].told = t
      /\ [g EXCEPT !.twice = b, !.told = t].stream = g.stream
      /\ [g EXCEPT !.twice = b, !.told = t].residue = g.residue
      /\ [g EXCEPT !.twice = b, !.told = t].received = g.received
      /\ [g EXCEPT !.twice = b, !.told = t].delivered = g.delivered
      /\ [g EXCEPT !.twice = b, !.told = t].refused = g.refused
  BY <1>1 DEF HistoryType
<1> QED BY <1>2, <1>3 DEF t, b

LEMMA StatusDoes ==
  ASSUME NEW w \in WorldType, NEW e, NEW o \in Status(w, e)
  PROVE  /\ o.w \in WorldType /\ Like(w.c, o.w.c) /\ o.w.out = w.out
         /\ o.ok => o.w.h = Reported(w.h, e)
         /\ ~o.ok => o.w.h = w.h
<1> DEFINE told(u) == [u EXCEPT !.h.twice = u.h.twice \/ e \in w.h.told,
                                !.h.told = u.h.told \cup (Once \cap {e})]
<1>1. \/ o \in Enqueue(w) /\ ~o.ok
      \/ \E p \in Enqueue(w) : p.ok /\ o = [ok |-> TRUE, w |-> told(p.w)]
  BY DEF Status, Then, Done
<1>2. CASE o \in Enqueue(w) /\ ~o.ok
  BY <1>2, EnqueueDoes DEF Alike
<1>3. ASSUME NEW p \in Enqueue(w), p.ok, o = [ok |-> TRUE, w |-> told(p.w)]
      PROVE  /\ o.w \in WorldType /\ Like(w.c, o.w.c) /\ o.w.out = w.out
             /\ o.ok /\ o.w.h = Reported(w.h, e)
  <2>1. Alike(w, p.w) /\ w.h \in HistoryType
    BY EnqueueDoes, Parts
  <2> DEFINE u == p.w
  <2>2. o.ok /\ o.w = told(u)
    BY <1>3
  <2>3. u \in WorldType /\ u.h = w.h /\ u.out = w.out /\ Like(w.c, u.c)
    BY <2>1 DEF Alike
  <2> HIDE DEF u
  <2>4. told(u) = [u EXCEPT !.h = Reported(w.h, e)]
    BY <2>3 DEF Reported
  <2> DEFINE g == Reported(w.h, e)
  <2>5. g \in HistoryType
    BY <2>1, ReportedIs
  <2>6. o.w = [u EXCEPT !.h = g]
    BY <2>2, <2>4
  <2> HIDE DEF g
  <2>7. o.w \in WorldType /\ o.w.c = u.c /\ o.w.out = u.out /\ o.w.h = g
    BY <2>3, <2>5, <2>6, SetH
  <2> QED BY <2>2, <2>3, <2>7 DEF g
<1> QED BY <1>1, <1>2, <1>3

(* Reports that a stream may make more than once. *)
LEMMA StatusPlain ==
  ASSUME NEW w, Good(w), NEW e, e \notin Once, NEW o \in Status(w, e)
  PROVE  Good(o.w) /\ Like(w.c, o.w.c) /\ o.w.out = w.out
<1>1. w \in WorldType /\ w.h \in HistoryType /\ w.h.told \subseteq Once
  BY Parts DEF Good, Sane, HistoryType
<1>2. /\ o.w \in WorldType /\ Like(w.c, o.w.c) /\ o.w.out = w.out
      /\ o.ok => o.w.h = Reported(w.h, e)
      /\ ~o.ok => o.w.h = w.h
  BY <1>1, StatusDoes
<1>3. Reported(w.h, e) = w.h
  <2>1. Once \cap {e} = {} /\ e \notin w.h.told
    BY <1>1
  <2>2. w.h.twice \/ e \in w.h.told <=> w.h.twice
    BY <2>1
  <2> QED BY <1>1, <2>1, <2>2 DEF Reported, HistoryType
<1> QED BY <1>2, <1>3, AlikeGood DEF Alike
----------------------------------------------------------------------------
(* Ending a stream. *)

LEMMA StreamZeroIs ==
  ASSUME NEW k \in ClientType
  PROVE  LET z == StreamZero(k) IN
         /\ z \in ClientType /\ z.control = k.control /\ z.tx = k.tx
         /\ ~z.http /\ ~z.streaming /\ ~z.output_released /\ ~z.input_eof /\ ~z.eof_sent
         /\ ~z.body_done /\ ~z.ready_sent /\ ~z.started_sent
         /\ z.prefill_frames = 0 /\ z.pcm = <<>> /\ z.pcm_sent = 0
         /\ z.ingress = k.ingress /\ z.remaining = k.remaining
<1> DEFINE z == StreamZero(k)
<1>1. <<>> \in Seq(Byte) /\ 0 \in FrameRange
  BY Ranges
<1>2. z \in ClientType
  <2> DEFINE z1 == [k EXCEPT !.http = FALSE, !.streaming = FALSE, !.output_released = FALSE,
                             !.output_paused = FALSE, !.input_eof = FALSE]
             z2 == [z1 EXCEPT !.eof_sent = FALSE, !.prefill_frames = 0, !.ready_frames = 0]
             z3 == [z2 EXCEPT !.pcm = <<>>, !.pcm_sent = 0, !.body_done = FALSE]
             z4 == [z3 EXCEPT !.wait_cont = FALSE, !.wait_start = FALSE]
             z5 == [z4 EXCEPT !.ready_sent = FALSE, !.started_sent = FALSE]
  <2>1. z = z5
    BY DEF StreamZero
  <2>2. z1 \in ClientType
    BY DEF ClientType
  <2> HIDE DEF z1
  <2>3. z2 \in ClientType
    BY <1>1, <2>2 DEF ClientType
  <2> HIDE DEF z2
  <2>4. z3 \in ClientType
    BY <1>1, <2>3 DEF ClientType
  <2> HIDE DEF z3
  <2>5. z4 \in ClientType
    BY <2>4 DEF ClientType
  <2> HIDE DEF z4
  <2>6. z5 \in ClientType
    BY <2>5 DEF ClientType
  <2> QED BY <2>1, <2>6
<1>3. /\ z.control = k.control /\ z.tx = k.tx /\ z.http = FALSE /\ z.streaming = FALSE
      /\ z.output_released = FALSE /\ z.input_eof = FALSE /\ z.eof_sent = FALSE
  BY DEF StreamZero, ClientType
<1>4. /\ z.body_done = FALSE /\ z.ready_sent = FALSE /\ z.started_sent = FALSE
      /\ z.prefill_frames = 0 /\ z.pcm = <<>> /\ z.pcm_sent = 0
      /\ z.ingress = k.ingress /\ z.remaining = k.remaining
  BY DEF StreamZero, ClientType
<1> HIDE DEF z
<1>5. /\ z \in ClientType /\ z.control = k.control /\ z.tx = k.tx
      /\ ~z.http /\ ~z.streaming /\ ~z.output_released /\ ~z.input_eof /\ ~z.eof_sent
      /\ ~z.body_done /\ ~z.ready_sent /\ ~z.started_sent
      /\ z.prefill_frames = 0 /\ z.pcm = <<>> /\ z.pcm_sent = 0
      /\ z.ingress = k.ingress /\ z.remaining = k.remaining
  BY <1>2, <1>3, <1>4
<1> QED BY <1>5 DEF z

LEMMA OutStopIs ==
  ASSUME NEW w \in WorldType
  PROVE  LET u == OutStop(w) IN
         /\ u \in WorldType /\ u.c = w.c
         /\ ~u.out.active /\ u.out.misuse = w.out.misuse
         /\ u.h.stream = w.h.stream /\ u.h.told = {} /\ u.h.delivered = <<>>
         /\ u.h.received = 0 /\ u.h.twice = w.h.twice /\ u.h.refused = w.h.refused
<1> DEFINE p == [OutputZero EXCEPT !.misuse = w.out.misuse]
           g == [HistoryZero EXCEPT !.stream = w.h.stream, !.twice = w.h.twice,
                                    !.refused = w.h.refused]
           v == [w EXCEPT !.out = p]
           u == [v EXCEPT !.h = g]
<1>1. w.out \in OutputType /\ w.h \in HistoryType
  BY Parts
<1>2. p \in OutputType /\ p.active = FALSE /\ p.misuse = w.out.misuse
  BY <1>1, Ranges DEF OutputZero, OutputType
<1>3. /\ g \in HistoryType /\ g.stream = w.h.stream /\ g.told = {} /\ g.delivered = <<>>
      /\ g.received = 0 /\ g.twice = w.h.twice /\ g.refused = w.h.refused
  <2> DEFINE reset(e) ==
        [[stream |-> 0, residue |-> e, received |-> 0, delivered |-> e, told |-> {},
          twice |-> FALSE, refused |-> FALSE] EXCEPT
           !.stream = w.h.stream, !.twice = w.h.twice, !.refused = w.h.refused]
  <2>1. \A e \in Seq(Byte) : reset(e) \in HistoryType
    BY <1>1 DEF HistoryType
  <2>2. g = reset(<<>>)
    BY DEF HistoryZero
  <2>3. <<>> \in Seq(Byte)
    OBVIOUS
  <2>4. /\ g.stream = w.h.stream /\ g.told = {} /\ g.delivered = <<>>
        /\ g.received = 0 /\ g.twice = w.h.twice /\ g.refused = w.h.refused
    BY <2>2
  <2> HIDE DEF g, reset
  <2> QED BY <2>1, <2>2, <2>3, <2>4
<1>4. OutStop(w) = u
  BY DEF OutStop
<1> HIDE DEF p, g
<1>5. v \in WorldType /\ v.c = w.c /\ v.out = p
  BY <1>2, SetOut
<1> HIDE DEF v
<1>6. u \in WorldType /\ u.c = v.c /\ u.out = v.out /\ u.h = g
  BY <1>3, <1>5, SetH
<1> HIDE DEF u
<1> QED BY <1>2, <1>3, <1>4, <1>5, <1>6

(* A sane world has no stream left after stop_stream. *)
LEMMA StopStreamDoes ==
  ASSUME NEW w, Sane(w)
  PROVE  /\ StopStream(w) \in WorldType /\ Sane(StopStream(w)) /\ Good(StopStream(w))
         /\ StopStream(w).c = StreamZero(w.c) /\ StopStream(w).h.stream = w.h.stream
<1> DEFINE x == IF w.c.streaming THEN OutStop(w) ELSE w
           z == StreamZero(w.c)
           u == [x EXCEPT !.c = z]
<1>1. w \in WorldType /\ w.c \in ClientType
  BY Parts DEF Sane
<1>2. /\ x \in WorldType /\ x.c = w.c /\ ~x.out.active /\ ~x.out.misuse
      /\ x.h.stream = w.h.stream /\ x.h.told = {} /\ x.h.delivered = <<>>
      /\ x.h.received = 0 /\ ~x.h.twice /\ ~x.h.refused
  <2>1. CASE w.c.streaming
    BY <1>1, <2>1, OutStopIs DEF Sane
  <2>2. CASE ~w.c.streaming
    BY <1>1, <2>2 DEF Sane
  <2> QED BY <2>1, <2>2
<1>3. StopStream(w) = u
  BY <1>2 DEF StopStream
<1> HIDE DEF x
<1>4. z \in ClientType /\ ~z.streaming /\ ~z.http
  BY <1>1, StreamZeroIs
<1> HIDE DEF z
<1>5. u \in WorldType /\ u.c = z /\ u.out = x.out /\ u.h = x.h
  BY <1>2, <1>4, SetC
<1> HIDE DEF u
<1>6. Sane(u)
  BY <1>2, <1>4, <1>5 DEF Sane
<1>7. OutputOK(u) /\ TellsOK(u) /\ BodyOK(u) /\ BytesOK(u)
  BY <1>4, <1>5 DEF OutputOK, TellsOK, BodyOK, BytesOK
<1> QED BY <1>2, <1>3, <1>5, <1>6, <1>7 DEF Good, z

LEMMA CloseDoes ==
  ASSUME NEW w, Sane(w)
  PROVE  Good(Close(w)) /\ ~Close(w).c.control /\ ~Close(w).c.streaming
<1> DEFINE v == StopStream(w)
           k == [v.c EXCEPT !.control = FALSE, !.tx = 0]
           u == [v EXCEPT !.c = k]
<1>1. v \in WorldType /\ Good(v) /\ v.c = StreamZero(w.c)
  BY StopStreamDoes
<1>2. v.c \in ClientType /\ ~v.c.streaming /\ ~v.c.http
  BY <1>1, Parts, StreamZeroIs DEF Sane
<1>3. Close(w) = u
  BY DEF Close
<1> HIDE DEF v
<1>4. k \in ClientType /\ k.control = FALSE /\ k.streaming = v.c.streaming /\ k.http = v.c.http
  BY <1>2, Ranges DEF ClientType
<1> HIDE DEF k
<1>5. u \in WorldType /\ u.c = k /\ u.out = v.out /\ u.h = v.h
  BY <1>1, <1>4, SetC
<1> HIDE DEF u
<1>6. Sane(u)
  BY <1>1, <1>2, <1>4, <1>5 DEF Good, Sane
<1>7. OutputOK(u) /\ TellsOK(u) /\ BodyOK(u) /\ BytesOK(u)
  BY <1>2, <1>4, <1>5 DEF OutputOK, TellsOK, BodyOK, BytesOK
<1> QED BY <1>2, <1>3, <1>4, <1>5, <1>6, <1>7 DEF Good
----------------------------------------------------------------------------
(* Sequences of bytes. *)

LEMMA EmptyBytes ==
  /\ <<>> \in Seq(Byte)
  /\ \A s \in Seq(Byte) : <<>> \o s = s /\ s \o <<>> = s
  /\ \A s \in Seq(Byte) : Len(s) \in Nat /\ (Len(s) = 0 <=> s = <<>>)
  OBVIOUS

LEMMA JoinBytes ==
  /\ \A s, t \in Seq(Byte) : s \o t \in Seq(Byte) /\ Len(s \o t) = Len(s) + Len(t)
  /\ \A s, t, r \in Seq(Byte) : (s \o t) \o r = s \o (t \o r)
<1>1. \A s, t \in Seq(Byte) : s \o t \in Seq(Byte) /\ Len(s \o t) = Len(s) + Len(t)
  OBVIOUS
<1>2. ASSUME NEW s \in Seq(Byte), NEW t \in Seq(Byte), NEW r \in Seq(Byte)
      PROVE  (s \o t) \o r = s \o (t \o r)
  OBVIOUS
<1> QED BY <1>1, <1>2

LEMMA SameBytes ==
  ASSUME NEW s \in Seq(Byte), NEW t \in Seq(Byte), Len(s) = Len(t),
         \A i \in 1..Len(s) : s[i] = t[i]
  PROVE  s = t
  OBVIOUS

LEMMA JoinAt ==
  ASSUME NEW s \in Seq(Byte), NEW t \in Seq(Byte), NEW i \in 1..(Len(s) + Len(t))
  PROVE  (s \o t)[i] = IF i <= Len(s) THEN s[i] ELSE t[i - Len(s)]
  OBVIOUS

(* A sequence is its first n bytes and the rest. *)
LEMMA CutBytes ==
  ASSUME NEW s \in Seq(Byte), NEW n \in Nat, n <= Len(s)
  PROVE  /\ SubSeq(s, 1, n) \in Seq(Byte) /\ Len(SubSeq(s, 1, n)) = n
         /\ SubSeq(s, n + 1, Len(s)) \in Seq(Byte)
         /\ SubSeq(s, 1, n) \o SubSeq(s, n + 1, Len(s)) = s
<1> DEFINE a == SubSeq(s, 1, n)
           b == SubSeq(s, n + 1, Len(s))
<1>1. a \in Seq(Byte) /\ Len(a) = n /\ \A i \in 1..n : a[i] = s[i]
  OBVIOUS
<1>2. b \in Seq(Byte) /\ Len(b) = Len(s) - n /\ \A i \in 1..(Len(s) - n) : b[i] = s[n + i]
  OBVIOUS
<1> HIDE DEF a, b
<1>3. a \o b \in Seq(Byte) /\ Len(a \o b) = Len(s)
  <2>1. a \o b \in Seq(Byte) /\ Len(a \o b) = Len(a) + Len(b)
    BY <1>1, <1>2, JoinBytes
  <2>2. Len(s) \in Nat
    BY EmptyBytes
  <2> QED BY <1>1, <1>2, <2>1, <2>2
<1>4. ASSUME NEW i \in 1..Len(s) PROVE (a \o b)[i] = s[i]
  <2>1. (a \o b)[i] = IF i <= n THEN a[i] ELSE b[i - n]
    BY <1>1, <1>2, JoinAt
  <2>2. CASE i <= n
    BY <1>1, <2>1, <2>2
  <2>3. CASE ~(i <= n)
    <3>1. i - n \in 1..(Len(s) - n) /\ n + (i - n) = i
      BY <2>3
    <3>2. b[i - n] = s[n + (i - n)]
      BY <1>2, <3>1
    <3> QED BY <2>1, <2>3, <3>1, <3>2
  <2> QED BY <2>2, <2>3
<1>5. a \o b = s
  BY <1>3, <1>4, SameBytes
<1> QED BY <1>1, <1>2, <1>5 DEF a, b

(* After m bytes and n more of them there is what there is after m + n. *)
LEMMA RestOfRest ==
  ASSUME NEW s \in Seq(Byte), NEW m \in Nat, NEW n \in Nat
  PROVE  LET r == SubSeq(s, m + 1, Len(s)) IN
         n <= Len(r) => SubSeq(r, n + 1, Len(r)) = SubSeq(s, m + n + 1, Len(s))
<1> DEFINE r == SubSeq(s, m + 1, Len(s))
           a == SubSeq(r, n + 1, Len(r))
           b == SubSeq(s, m + n + 1, Len(s))
<1> SUFFICES ASSUME n <= Len(r) PROVE a = b
  OBVIOUS
<1>1. CASE m <= Len(s)
  <2>1. r \in Seq(Byte) /\ Len(r) = Len(s) - m /\ \A i \in 1..(Len(s) - m) : r[i] = s[m + i]
    BY <1>1
  <2> HIDE DEF r
  <2>2. a \in Seq(Byte) /\ Len(a) = Len(r) - n /\ \A i \in 1..(Len(r) - n) : a[i] = r[n + i]
    BY <2>1
  <2>3. /\ b \in Seq(Byte) /\ Len(b) = Len(s) - (m + n)
        /\ \A i \in 1..(Len(s) - (m + n)) : b[i] = s[m + n + i]
    BY <2>1
  <2> HIDE DEF a, b
  <2>4. Len(a) = Len(b)
    BY <2>1, <2>2, <2>3
  <2>5. ASSUME NEW i \in 1..Len(a) PROVE a[i] = b[i]
    <3>0. i \in 1..(Len(r) - n)
      BY <2>2
    <3>1. a[i] = r[n + i] /\ n + i \in 1..(Len(s) - m)
      <4>1. a[i] = r[n + i]
        BY <2>2, <3>0
      <4>2. i \in Int /\ 1 <= i /\ i <= Len(r) - n /\ Len(r) = Len(s) - m /\ Len(s) \in Nat
        BY <2>1, <3>0
      <4> QED BY <4>1, <4>2
    <3>2. r[n + i] = s[m + (n + i)] /\ m + (n + i) = m + n + i
      BY <2>1, <3>1
    <3>3. b[i] = s[m + n + i]
      BY <2>3, <2>4
    <3> QED BY <3>1, <3>2, <3>3
  <2> QED BY <2>2, <2>3, <2>4, <2>5, SameBytes
<1>2. CASE m > Len(s)
  <2>1. r = <<>>
    BY <1>2
  <2> HIDE DEF r
  <2>2. n = 0 /\ a = <<>>
    BY <2>1
  <2>3. b = <<>>
    BY <1>2, <2>2
  <2> QED BY <2>2, <2>3
<1> QED BY <1>1, <1>2

(* The first n bytes of a stream's body. *)
Body(s, n) == [i \in 1..n |-> <<s, i>>]

LEMMA BodyGrows ==
  ASSUME NEW s \in Nat, NEW r \in Nat, NEW n \in Nat
  PROVE  /\ Body(s, r) \in Seq(Byte) /\ Len(Body(s, r)) = r
         /\ [i \in 1..n |-> <<s, r + i>>] \in Seq(Byte)
         /\ Body(s, r) \o [i \in 1..n |-> <<s, r + i>>] = Body(s, r + n)
<1> DEFINE a == Body(s, r)
           b == [i \in 1..n |-> <<s, r + i>>]
           d == Body(s, r + n)
<1>1. \A i \in Nat : <<s, i>> \in Byte
  BY DEF Byte
<1>2. a \in Seq(Byte) /\ Len(a) = r /\ \A i \in 1..r : a[i] = <<s, i>>
  BY <1>1 DEF Body
<1>3. b \in Seq(Byte) /\ Len(b) = n /\ \A i \in 1..n : b[i] = <<s, r + i>>
  BY <1>1
<1>4. d \in Seq(Byte) /\ Len(d) = r + n /\ \A i \in 1..(r + n) : d[i] = <<s, i>>
  BY <1>1 DEF Body
<1> HIDE DEF a, b, d
<1>5. a \o b \in Seq(Byte) /\ Len(a \o b) = r + n
  BY <1>2, <1>3, JoinBytes
<1>6. ASSUME NEW i \in 1..(r + n) PROVE (a \o b)[i] = d[i]
  <2>1. (a \o b)[i] = IF i <= r THEN a[i] ELSE b[i - r]
    BY <1>2, <1>3, JoinAt
  <2>2. d[i] = <<s, i>>
    BY <1>4
  <2>3. CASE i <= r
    <3>1. i \in 1..r
      BY <2>3
    <3> QED BY <1>2, <2>1, <2>2, <2>3, <3>1
  <2>4. CASE ~(i <= r)
    <3>1. i - r \in 1..n /\ r + (i - r) = i
      BY <2>4
    <3>2. b[i - r] = <<s, r + (i - r)>>
      BY <1>3, <3>1
    <3> QED BY <2>1, <2>2, <2>4, <3>1, <3>2
  <2> QED BY <2>3, <2>4
<1>7. a \o b = d
  BY <1>4, <1>5, <1>6, SameBytes
<1> QED BY <1>2, <1>3, <1>7 DEF a, b, d
----------------------------------------------------------------------------
(* Commands. *)

(* The first report of an event. *)
LEMMA StatusOnce ==
  ASSUME NEW w, Sane(w), w.c.streaming, NEW e, e \notin w.h.told, NEW o \in Status(w, e)
  PROVE  /\ Sane(o.w) /\ Like(w.c, o.w.c) /\ o.w.out = w.out
         /\ o.w.h.stream = w.h.stream /\ o.w.h.residue = w.h.residue
         /\ o.w.h.received = w.h.received /\ o.w.h.delivered = w.h.delivered
         /\ o.ok => o.w.h.told = w.h.told \cup (Once \cap {e})
<1> DEFINE g == Reported(w.h, e)
<1>1. w \in WorldType /\ w.h \in HistoryType
  BY Parts DEF Sane
<1>2. /\ o.w \in WorldType /\ Like(w.c, o.w.c) /\ o.w.out = w.out
      /\ o.ok => o.w.h = g
      /\ ~o.ok => o.w.h = w.h
  BY <1>1, StatusDoes
<1>3. /\ g.twice <=> w.h.twice \/ e \in w.h.told
      /\ g.told = w.h.told \cup (Once \cap {e})
      /\ g.stream = w.h.stream /\ g.residue = w.h.residue
      /\ g.received = w.h.received /\ g.delivered = w.h.delivered
      /\ g.refused = w.h.refused
  BY <1>1, ReportedIs
<1> HIDE DEF g
<1>4. ~o.w.h.twice /\ ~o.w.h.refused
  BY <1>2, <1>3 DEF Sane
<1>5. o.w.c.streaming
  BY <1>2 DEF Like
<1>6. Sane(o.w)
  BY <1>2, <1>4, <1>5 DEF Sane
<1> QED BY <1>2, <1>3, <1>6

(* What does not depend on the reports. *)
LEMMA UnreportedOK ==
  ASSUME NEW w, NEW u, OutputOK(w), BodyOK(w), BytesOK(w), Like(w.c, u.c), u.out = w.out,
         u.h.stream = w.h.stream, u.h.residue = w.h.residue,
         u.h.received = w.h.received, u.h.delivered = w.h.delivered
  PROVE  OutputOK(u) /\ BodyOK(u) /\ BytesOK(u)
<1>1. OutputOK(u)
  BY DEF OutputOK, Like
<1>2. Unsent(u) = Unsent(w)
  BY DEF Like, Unsent
<1>3. BodyOK(u)
  BY <1>2 DEF BodyOK, Like
<1>4. BytesOK(u)
  BY <1>2 DEF BytesOK, Like
<1> QED BY <1>1, <1>3, <1>4

LEMMA StartedIs ==
  ASSUME NEW w, Sane(w), ~w.c.streaming,
         buffered \in BOOLEAN
  PROVE  LET p == [OutputZero EXCEPT !.active = TRUE, !.held = buffered,
                                     !.misuse = w.out.misuse \/ w.out.active]
         IN  p \in OutputType /\ p.active /\ (p.held <=> buffered) /\ ~p.finished
             /\ p.queued = 0 /\ ~p.misuse
<1> DEFINE m == w.out.misuse \/ w.out.active
           p == [OutputZero EXCEPT !.active = TRUE, !.held = buffered, !.misuse = m]
<1>1. w \in WorldType /\ w.out \in OutputType
  BY Parts DEF Sane
<1>2. m = FALSE
  BY DEF Sane
<1> HIDE DEF m
<1>3. /\ p \in OutputType /\ p.active = TRUE /\ p.held = buffered /\ p.finished = FALSE
      /\ p.queued = 0 /\ p.misuse = m
  BY <1>2, Ranges DEF OutputZero, OutputType
<1> HIDE DEF p
<1>4. p \in OutputType /\ p.active /\ (p.held <=> buffered) /\ ~p.finished
             /\ p.queued = 0 /\ ~p.misuse
  BY <1>2, <1>3
<1> QED BY <1>4 DEF p, m

(* An outcome can be closed, and when the call succeeded it is a good one. *)
KeepsGood(w, o) ==
  Sane(o.w) /\ (o.ok => Good(o.w) /\ o.w.c.control = w.c.control)

LEMMA StrmStartDoes ==
  ASSUME NEW w, Sane(w), NEW a \in 0..3, NEW t \in Thresholds, buffered \in BOOLEAN,
         NEW o \in StrmStart(w, a, t)
  PROVE  KeepsGood(w, o)
<1> DEFINE s == StopStream(w)
           p == [OutputZero EXCEPT !.active = TRUE, !.held = buffered,
                                   !.misuse = s.out.misuse \/ s.out.active]
           u == [s EXCEPT !.out = p]
           r == IF buffered THEN BufferLimit(t) ELSE 0
           wc == a >= 2
           ws == a \in {0, 2}
           k1 == [u.c EXCEPT !.http = TRUE, !.streaming = TRUE, !.headers_done = FALSE,
                             !.has_length = FALSE]
           k2 == [k1 EXCEPT !.wait_cont = wc, !.wait_start = ws]
           k3 == [k2 EXCEPT !.tail = <<>>, !.request_sent = FALSE, !.ready_frames = r]
           g == [u.h EXCEPT !.stream = u.h.stream + 1, !.residue = u.c.ingress]
           v1 == [u EXCEPT !.c = k3]
           v == [v1 EXCEPT !.h = g]
<1>1. o = [ok |-> FALSE, w |-> s] \/ o \in Status(v, "STMc")
  <2> DEFINE Streaming(x) ==
        [x EXCEPT
           !.c = [x.c EXCEPT
             !.http = TRUE, !.streaming = TRUE, !.headers_done = FALSE, !.has_length = FALSE,
             !.wait_cont = a >= 2, !.wait_start = a \in {0, 2},
             !.tail = <<>>, !.request_sent = FALSE,
             !.ready_frames = IF buffered THEN BufferLimit(t) ELSE 0],
           !.h = [x.h EXCEPT !.stream = x.h.stream + 1, !.residue = x.c.ingress]]
             Rest(x) == Status(Streaming(x), "STMc")
  <2>1. Streaming(u) = v
    OBVIOUS
  <2>2. o \in Failed(s) \cup Then(OutStart(s), Rest)
    BY DEF StrmStart
  <2> HIDE DEF Rest, v
  <2>3. \/ o \in Failed(s)
        \/ o \in OutStart(s) /\ ~o.ok
        \/ \E q \in OutStart(s) : q.ok /\ o \in Rest(q.w)
    BY <2>2 DEF Then
  <2>4. \A q \in OutStart(s) : q = [ok |-> FALSE, w |-> s] \/ q = [ok |-> TRUE, w |-> u]
    BY DEF OutStart, Failed, Done
  <2> HIDE DEF s, u, Streaming
  <2>5. ASSUME NEW q \in OutStart(s), q.ok PROVE q.w = u
    BY <2>4, <2>5
  <2>6. CASE o \in OutStart(s) /\ ~o.ok
    BY <2>4, <2>6
  <2>7. Rest(u) = Status(v, "STMc")
    BY <2>1 DEF Rest
  <2> QED BY <2>3, <2>5, <2>6, <2>7 DEF Failed
<1>2. /\ s \in WorldType /\ Sane(s) /\ s.c = StreamZero(w.c)
      /\ s.c \in ClientType /\ ~s.c.streaming /\ w.c \in ClientType
      /\ s.h.told = {} /\ s.h.delivered = <<>> /\ s.h.received = 0
  <2>1. s \in WorldType /\ Sane(s) /\ s.c = StreamZero(w.c) /\ w.c \in ClientType
    BY StopStreamDoes, Parts DEF Sane
  <2> HIDE DEF s
  <2>2. s.c \in ClientType /\ ~s.c.streaming
    BY <2>1, StreamZeroIs
  <2> QED BY <2>1, <2>2 DEF Sane
<1>3. /\ p \in OutputType /\ p.active /\ (p.held <=> buffered) /\ ~p.finished
      /\ p.queued = 0 /\ ~p.misuse
  <2> HIDE DEF s
  <2> QED BY <1>2, StartedIs
<1> HIDE DEF s, p
<1>4. u \in WorldType /\ u.c = s.c /\ u.out = p /\ u.h = s.h
  BY <1>2, <1>3, SetOut
<1>5. /\ u.c \in ClientType /\ u.h \in HistoryType
      /\ ~u.c.output_released /\ ~u.c.input_eof /\ ~u.c.eof_sent
      /\ ~u.c.body_done /\ ~u.c.ready_sent /\ ~u.c.started_sent
      /\ u.c.prefill_frames = 0 /\ u.c.pcm = <<>> /\ u.c.pcm_sent = 0
      /\ u.c.control = w.c.control
  BY <1>2, <1>4, Parts, StreamZeroIs
<1> HIDE DEF u
<1>6. r \in FrameRange /\ wc \in BOOLEAN /\ ws \in BOOLEAN
  <2>1. t \in Nat
    BY LmsAssumption
  <2>2. BufferLimit(t) \in FrameRange
    BY <2>1, BufferLimitInRange, Constants DEF FrameRange
  <2> QED BY <2>2, Ranges
<1> HIDE DEF r, wc, ws
<1>7. /\ k1 \in ClientType /\ k1.http = TRUE /\ k1.streaming = TRUE /\ k1.has_length = FALSE
      /\ k1.output_released = u.c.output_released /\ k1.input_eof = u.c.input_eof
      /\ k1.eof_sent = u.c.eof_sent /\ k1.body_done = u.c.body_done
      /\ k1.ready_sent = u.c.ready_sent /\ k1.started_sent = u.c.started_sent
      /\ k1.prefill_frames = u.c.prefill_frames /\ k1.pcm = u.c.pcm
      /\ k1.pcm_sent = u.c.pcm_sent /\ k1.ingress = u.c.ingress /\ k1.control = u.c.control
  BY <1>5 DEF ClientType
<1> HIDE DEF k1
<1>8. Like(k1, k2)
  <2>1. k2 \in ClientType
    BY <1>6, <1>7 DEF ClientType
  <2> QED BY <1>6, <1>7, <2>1 DEF Like, ClientType
<1> HIDE DEF k2
<1>9. /\ k3 \in ClientType /\ k3.tail = <<>> /\ k3.control = k2.control
      /\ k3.http = k2.http /\ k3.streaming = k2.streaming /\ k3.has_length = k2.has_length
      /\ k3.output_released = k2.output_released /\ k3.input_eof = k2.input_eof
      /\ k3.eof_sent = k2.eof_sent /\ k3.body_done = k2.body_done
      /\ k3.ready_sent = k2.ready_sent /\ k3.started_sent = k2.started_sent
      /\ k3.prefill_frames = k2.prefill_frames /\ k3.pcm = k2.pcm
      /\ k3.pcm_sent = k2.pcm_sent /\ k3.ingress = k2.ingress
  BY <1>6, <1>8, EmptyBytes DEF Like, ClientType
<1>10. /\ k3 \in ClientType /\ k3.tail = <<>> /\ k3.control = w.c.control
       /\ k3.http /\ k3.streaming /\ ~k3.has_length
       /\ ~k3.output_released /\ ~k3.input_eof /\ ~k3.eof_sent
       /\ ~k3.body_done /\ ~k3.ready_sent /\ ~k3.started_sent
       /\ k3.prefill_frames = 0 /\ k3.pcm = <<>> /\ k3.pcm_sent = 0
       /\ k3.ingress = u.c.ingress
  BY <1>5, <1>7, <1>8, <1>9 DEF Like
<1> HIDE DEF k3
<1>11. /\ g \in HistoryType /\ g.residue = u.c.ingress /\ g.told = {} /\ g.delivered = <<>>
       /\ g.received = 0 /\ g.twice = s.h.twice /\ g.refused = s.h.refused
  <2>1. u.h.stream + 1 \in Nat /\ u.c.ingress \in Seq(Byte)
    BY <1>5 DEF HistoryType, ClientType
  <2>2. /\ g \in HistoryType /\ g.residue = u.c.ingress /\ g.told = u.h.told
        /\ g.delivered = u.h.delivered /\ g.received = u.h.received
        /\ g.twice = u.h.twice /\ g.refused = u.h.refused
    BY <1>5, <2>1 DEF HistoryType
  <2> HIDE DEF g
  <2> QED BY <1>2, <1>4, <2>2
<1> HIDE DEF g
<1>12. v1 \in WorldType /\ v1.c = k3 /\ v1.out = p
  BY <1>4, <1>10, SetC
<1> HIDE DEF v1
<1>13. v \in WorldType /\ v.c = k3 /\ v.out = p /\ v.h = g
  BY <1>11, <1>12, SetH
<1> HIDE DEF v
<1>14. Sane(v)
  BY <1>2, <1>3, <1>10, <1>11, <1>13 DEF Sane
<1>15. Unsent(v) = <<>>
  <2>1. v.c.pcm = <<>> /\ v.c.pcm_sent = 0
    BY <1>10, <1>13
  <2>2. 0 * FrameBytes + 1 = 1 /\ Len(<<>>) = 0
    BY Constants
  <2> QED BY <2>1, <2>2 DEF Unsent
<1>16. OutputOK(v) /\ BodyOK(v) /\ TellsOK(v)
  BY <1>3, <1>10, <1>11, <1>13, <1>15 DEF OutputOK, BodyOK, TellsOK
<1>17. BytesOK(v)
  <2>1. g.residue \in Seq(Byte) /\ g.stream \in Nat
    BY <1>11 DEF HistoryType
  <2>2. Body(g.stream, 0) \in Seq(Byte) /\ Len(Body(g.stream, 0)) = 0
    BY <2>1, BodyGrows
  <2>3. Body(g.stream, 0) = <<>>
    BY <2>2, EmptyBytes
  <2>4. [i \in 1..v.h.received |-> <<v.h.stream, i>>] = <<>>
    BY <1>11, <1>13, <2>3 DEF Body
  <2>5. <<>> \o <<>> \o <<>> \o g.residue = g.residue \o <<>>
    BY <2>1, EmptyBytes
  <2> QED BY <1>10, <1>11, <1>13, <1>15, <2>4, <2>5 DEF BytesOK
<1>18. CASE o = [ok |-> FALSE, w |-> s]
  BY <1>2, <1>18 DEF KeepsGood
<1>19. CASE o \in Status(v, "STMc")
  <2>1. v.c.streaming /\ "STMc" \notin v.h.told
    BY <1>10, <1>11, <1>13
  <2>2. /\ Sane(o.w) /\ Like(v.c, o.w.c) /\ o.w.out = v.out
        /\ o.w.h.stream = v.h.stream /\ o.w.h.residue = v.h.residue
        /\ o.w.h.received = v.h.received /\ o.w.h.delivered = v.h.delivered
        /\ o.ok => o.w.h.told = v.h.told \cup (Once \cap {"STMc"})
    BY <1>14, <1>19, <2>1, StatusOnce
  <2>3. OutputOK(o.w) /\ BodyOK(o.w) /\ BytesOK(o.w)
    BY <1>16, <1>17, <2>2, UnreportedOK
  <2>4. o.ok => TellsOK(o.w)
    BY <1>16, <2>2 DEF TellsOK, Like
  <2>5. o.w.c.control = w.c.control
    BY <1>10, <1>13, <2>2 DEF Like
  <2> QED BY <2>2, <2>3, <2>4, <2>5 DEF Good, KeepsGood
<1> QED BY <1>1, <1>18, <1>19

LEMMA DoneKeeps ==
  ASSUME NEW w, NEW u, Good(u), u.c.control = w.c.control, NEW o \in Done(u)
  PROVE  KeepsGood(w, o)
  BY DEF Done, KeepsGood, Good

LEMMA FailedKeeps ==
  ASSUME NEW w, NEW u, Sane(u), NEW o \in Failed(u)
  PROVE  KeepsGood(w, o)
  BY DEF Failed, KeepsGood

LEMMA StatusKeeps ==
  ASSUME NEW w, NEW u, Good(u), u.c.control = w.c.control, NEW e, e \notin Once,
         NEW o \in Status(u, e)
  PROVE  KeepsGood(w, o)
  BY StatusPlain DEF KeepsGood, Good, Like

LEMMA StrmStopDoes ==
  ASSUME NEW w, Sane(w), NEW o \in StrmStop(w)
  PROVE  KeepsGood(w, o)
<1> DEFINE s == StopStream(w)
<1>1. Good(s) /\ s.c = StreamZero(w.c) /\ w.c \in ClientType
  BY StopStreamDoes, Parts DEF Sane
<1>2. o \in Status(s, "STMf") /\ "STMf" \notin Once
  BY DEF StrmStop, Once
<1> HIDE DEF s
<1>3. s.c.control = w.c.control
  BY <1>1, StreamZeroIs
<1> QED BY <1>1, <1>2, <1>3, StatusKeeps

LEMMA MisusedNot ==
  ASSUME NEW w, Sane(w), NEW wrong, ~wrong
  PROVE  Misused(w, wrong) = w
<1>1. w \in WorldType /\ w.out \in OutputType /\ w.out.misuse = FALSE
  BY Parts DEF Sane, OutputType
<1>2. (w.out.misuse \/ wrong) = FALSE
  BY <1>1
<1> DEFINE p == [w.out EXCEPT !.misuse = FALSE]
<1>3. p = w.out
  BY <1>1 DEF OutputType
<1>4. Misused(w, wrong) = [w EXCEPT !.out = p]
  BY <1>2 DEF Misused
<1> HIDE DEF p
<1> QED BY <1>1, <1>3, <1>4 DEF WorldType

LEMMA SetPausedGood ==
  ASSUME NEW w, Good(w), NEW b \in BOOLEAN
  PROVE  LET u == [w EXCEPT !.out.paused = b] IN Good(u) /\ u.c = w.c
<1> DEFINE p == [w.out EXCEPT !.paused = b]
           u == [w EXCEPT !.out = p]
<1>1. w \in WorldType /\ w.out \in OutputType
  BY Parts DEF Good, Sane
<1>2. [w EXCEPT !.out.paused = b] = u
  OBVIOUS
<1>3. /\ p \in OutputType /\ p.active = w.out.active /\ p.held = w.out.held
      /\ p.finished = w.out.finished /\ p.played = w.out.played
      /\ p.queued = w.out.queued /\ p.misuse = w.out.misuse
  BY <1>1 DEF OutputType
<1> HIDE DEF p
<1>4. u \in WorldType /\ u.c = w.c /\ u.out = p /\ u.h = w.h
  BY <1>1, <1>3, SetOut
<1> HIDE DEF u
<1>5. Sane(u)
  BY <1>3, <1>4 DEF Good, Sane
<1>6. OutputOK(u) /\ TellsOK(u)
  BY <1>3, <1>4 DEF Good, OutputOK, TellsOK
<1>7. Unsent(u) = Unsent(w)
  BY <1>4 DEF Unsent
<1>8. BodyOK(u) /\ BytesOK(u)
  BY <1>4, <1>7 DEF Good, BodyOK, BytesOK
<1> QED BY <1>2, <1>4, <1>5, <1>6, <1>8 DEF Good

LEMMA OutPauseDoes ==
  ASSUME NEW w, Good(w), w.c.streaming, NEW b \in BOOLEAN, NEW q \in OutPause(w, b)
  PROVE  Good(q.w) /\ q.w.c = w.c
<1>1. Sane(w) /\ w.out.active
  BY DEF Good, Sane
<1>2. Misused(w, ~w.out.active) = w
  BY <1>1, MisusedNot
<1>3. q.w = w \/ q.w = [w EXCEPT !.out.paused = b]
  BY <1>2 DEF OutPause, Failed, Done
<1> QED BY <1>3, SetPausedGood

LEMMA PausedReport ==
  ASSUME NEW w, NEW u, Good(u), u.c.control = w.c.control, NEW b \in BOOLEAN,
         NEW e, e \notin Once, NEW o \in Status([u EXCEPT !.c.output_paused = b], e)
  PROVE  KeepsGood(w, o)
<1> DEFINE v == [u EXCEPT !.c.output_paused = b]
<1>1. Alike(u, v)
  BY SetOutputPaused DEF Good, Sane
<1> HIDE DEF v
<1>2. Good(v) /\ v.c.control = w.c.control
  BY <1>1, AlikeGood DEF Alike, Like
<1>3. o \in Status(v, e)
  BY DEF v
<1> QED BY <1>2, <1>3, StatusKeeps

LEMMA StrmUnpauseDoes ==
  ASSUME NEW w, Good(w), NEW o \in StrmUnpause(w)
  PROVE  KeepsGood(w, o)
<1>1. CASE ~w.c.streaming \/ w.c.wait_cont \/ (w.c.wait_start /\ ~w.c.ready_sent)
  <2>1. o \in Failed(w)
    BY <1>1 DEF StrmUnpause
  <2> QED BY <2>1, FailedKeeps DEF Good
<1>2. CASE ~(~w.c.streaming \/ w.c.wait_cont \/ (w.c.wait_start /\ ~w.c.ready_sent))
  <2> DEFINE first == IF w.c.wait_start THEN Done([w EXCEPT !.c.wait_start = FALSE])
                                        ELSE OutPause(w, FALSE)
             Rest(u) == Status([u EXCEPT !.c.output_paused = FALSE], "STMr")
  <2>1. o \in Then(first, Rest)
    BY <1>2 DEF StrmUnpause
  <2>2. ASSUME NEW q \in first PROVE Good(q.w) /\ q.w.c.control = w.c.control
    <3>1. CASE w.c.wait_start
      <4>1. q.w = [w EXCEPT !.c.wait_start = FALSE]
        BY <2>2, <3>1 DEF Done
      <4>2. Alike(w, q.w)
        BY <4>1, SetWaitStart DEF Good, Sane
      <4> QED BY <4>2, AlikeGood DEF Alike, Like
    <3>2. CASE ~w.c.wait_start
      <4>1. q \in OutPause(w, FALSE)
        BY <2>2, <3>2
      <4> QED BY <1>2, <4>1, OutPauseDoes
    <3> QED BY <3>1, <3>2
  <2> HIDE DEF first, Rest
  <2>3. \/ o \in first /\ ~o.ok
        \/ \E q \in first : o \in Rest(q.w)
    BY <2>1 DEF Then
  <2>4. CASE o \in first /\ ~o.ok
    BY <2>2, <2>4 DEF KeepsGood, Good
  <2>5. ASSUME NEW q \in first, o \in Rest(q.w) PROVE KeepsGood(w, o)
    <3>1. "STMr" \notin Once
      BY DEF Once
    <3> QED BY <2>2, <2>5, <3>1, PausedReport DEF Rest
  <2> QED BY <2>3, <2>4, <2>5
<1> QED BY <1>1, <1>2

LEMMA StrmPauseDoes ==
  ASSUME NEW w, Good(w), NEW o \in StrmPause(w)
  PROVE  KeepsGood(w, o)
<1>1. CASE ~w.c.streaming
  <2>1. o \in Failed(w)
    BY <1>1 DEF StrmPause
  <2> QED BY <2>1, FailedKeeps DEF Good
<1>2. CASE w.c.streaming
  <2> DEFINE Rest(u) == Status([u EXCEPT !.c.output_paused = TRUE], "STMp")
  <2>1. o \in Then(OutPause(w, TRUE), Rest)
    BY <1>2 DEF StrmPause
  <2>2. ASSUME NEW q \in OutPause(w, TRUE) PROVE Good(q.w) /\ q.w.c = w.c
    BY <1>2, OutPauseDoes
  <2> HIDE DEF Rest
  <2>3. \/ o \in OutPause(w, TRUE) /\ ~o.ok
        \/ \E q \in OutPause(w, TRUE) : o \in Rest(q.w)
    BY <2>1 DEF Then
  <2>4. CASE o \in OutPause(w, TRUE) /\ ~o.ok
    BY <2>2, <2>4 DEF KeepsGood, Good
  <2>5. ASSUME NEW q \in OutPause(w, TRUE), o \in Rest(q.w) PROVE KeepsGood(w, o)
    <3>1. "STMp" \notin Once
      BY DEF Once
    <3> QED BY <2>2, <2>5, <3>1, PausedReport DEF Rest
  <2> QED BY <2>3, <2>4, <2>5
<1> QED BY <1>1, <1>2

LEMMA ContDoes ==
  ASSUME NEW w, Good(w), NEW o \in Cont(w)
  PROVE  KeepsGood(w, o)
<1> DEFINE v == [w EXCEPT !.c.wait_cont = FALSE]
<1>1. Alike(w, v)
  BY SetWaitCont DEF Good, Sane
<1>2. o \in Done(w) \/ o \in Failed(w) \/ o \in Done(v)
  BY DEF Cont
<1> HIDE DEF v
<1>3. Good(v) /\ v.c.control = w.c.control
  BY <1>1, AlikeGood DEF Alike, Like
<1> QED BY <1>2, <1>3, DoneKeeps, FailedKeeps DEF Good

(* command: every command keeps the invariant or ends the session. *)
LEMMA CommandDoes ==
  ASSUME NEW w, Good(w), buffered \in BOOLEAN, NEW o \in Command(w)
  PROVE  KeepsGood(w, o)
<1>1. \/ o \in StrmStop(w) \/ o \in StrmUnpause(w) \/ o \in StrmPause(w) \/ o \in StrmTime(w)
      \/ o \in Cont(w) \/ o \in OtherCommand(w)
      \/ \E a \in 0..3, t \in Thresholds : o \in StrmStart(w, a, t)
  <2> DEFINE six == UNION {StrmStop(w), StrmUnpause(w), StrmPause(w), StrmTime(w), Cont(w),
                           OtherCommand(w)}
             start == UNION {StrmStart(w, a, t) : a \in 0..3, t \in Thresholds}
  <2>1. o \in six \cup (IF w.h.stream = MaxStreams THEN {} ELSE start)
    BY DEF Command
  <2>2. o \in six =>
          \/ o \in StrmStop(w) \/ o \in StrmUnpause(w) \/ o \in StrmPause(w)
          \/ o \in StrmTime(w) \/ o \in Cont(w) \/ o \in OtherCommand(w)
    OBVIOUS
  <2>3. o \in start => \E a \in 0..3, t \in Thresholds : o \in StrmStart(w, a, t)
    OBVIOUS
  <2> HIDE DEF six, start
  <2> QED BY <2>1, <2>2, <2>3
<1>2. Sane(w)
  BY DEF Good
<1>3. CASE o \in StrmTime(w)
  <2>1. "STMt" \notin Once
    BY DEF Once
  <2> QED BY <1>3, <2>1, StatusKeeps DEF StrmTime
<1>4. CASE o \in OtherCommand(w)
  BY <1>2, <1>4, DoneKeeps, FailedKeeps DEF OtherCommand
<1> QED BY <1>1, <1>2, <1>3, <1>4, StrmStopDoes, StrmUnpauseDoes, StrmPauseDoes, ContDoes,
           StrmStartDoes
----------------------------------------------------------------------------
(* From the ring to the output. *)

(* A stream whose input has not ended. *)
LEMMA WhileHttp ==
  ASSUME NEW w, Good(w), w.c.http
  PROVE  /\ w \in WorldType /\ Sane(w) /\ w.c.streaming /\ ~w.c.input_eof
         /\ w.out.active /\ ~w.out.finished
  BY DEF Good, OutputOK, Sane

LEMMA UnsentIs ==
  ASSUME NEW w \in WorldType
  PROVE  /\ w.c.pcm_sent * FrameBytes \in Nat /\ w.c.pcm \in Seq(Byte)
         /\ Unsent(w) \in Seq(Byte)
<1>1. w.c.pcm \in Seq(Byte) /\ w.c.pcm_sent \in Nat
  BY Parts DEF ClientType
<1>2. w.c.pcm_sent * FrameBytes \in Nat
  BY <1>1, Constants
<1> DEFINE n == w.c.pcm_sent * FrameBytes
<1> HIDE DEF n
<1>3. SubSeq(w.c.pcm, n + 1, Len(w.c.pcm)) \in Seq(Byte)
  BY <1>1, <1>2 DEF n
<1> QED BY <1>1, <1>2, <1>3 DEF Unsent, n

(* What FlushPcm hands over and keeps. *)
LEMMA FlushedIs ==
  ASSUME NEW w \in WorldType, w.out.queued <= Capacity,
         NEW n, n = Min({Len(Unsent(w)) \div FrameBytes, Capacity - w.out.queued})
  PROVE  LET b == SubSeq(Unsent(w), 1, n * FrameBytes)
             r == SubSeq(w.c.pcm, (w.c.pcm_sent + n) * FrameBytes + 1, Len(w.c.pcm))
         IN  /\ n \in Nat /\ n <= Capacity - w.out.queued
             /\ b \in Seq(Byte) /\ Len(b) \div FrameBytes = n
             /\ r \in Seq(Byte) /\ b \o r = Unsent(w)
<1> DEFINE u == Unsent(w)
           x == Len(u) \div FrameBytes
           y == Capacity - w.out.queued
           b == SubSeq(u, 1, n * FrameBytes)
           m == w.c.pcm_sent * FrameBytes
           r == SubSeq(w.c.pcm, (w.c.pcm_sent + n) * FrameBytes + 1, Len(w.c.pcm))
<1>1. u \in Seq(Byte) /\ m \in Nat /\ w.c.pcm \in Seq(Byte)
  BY UnsentIs
<1>2. w.out.queued \in Nat /\ w.c.pcm_sent \in Nat
  BY Parts, Ranges DEF OutputType, ClientType
<1>3. u = SubSeq(w.c.pcm, m + 1, Len(w.c.pcm))
  BY DEF Unsent
<1> HIDE DEF u
<1>4. x \in Nat /\ y \in Nat /\ Len(u) \in Nat
  <2>1. Len(u) \in Nat
    BY <1>1, EmptyBytes
  <2>2. \A l \in Nat : l \div FrameBytes \in Nat
    BY Constants
  <2>3. y \in Nat
    BY <1>2, Constants
  <2> QED BY <2>1, <2>2, <2>3
<1> HIDE DEF x, y
<1>5. n = Min({x, y})
  BY DEF x, y, u
<1>6. n \in Nat /\ n <= x /\ n <= y
  <2>1. x \in Int /\ y \in Int
    BY <1>4
  <2>2. n \in {x, y} /\ n <= x /\ n <= y
    BY <1>5, <2>1, MinOfTwo
  <2> QED BY <1>4, <2>2
<1>7. n * FrameBytes \in Nat /\ n * FrameBytes <= Len(u) /\ (n * FrameBytes) \div FrameBytes = n
  BY <1>4, <1>6, WholeFrames DEF x
<1> DEFINE nb == n * FrameBytes
<1>8. (w.c.pcm_sent + n) * FrameBytes = m + nb
  BY <1>2, <1>6, Constants
<1>9. nb \in Nat /\ nb <= Len(u) /\ nb \div FrameBytes = n
  BY <1>7
<1>10. r = SubSeq(w.c.pcm, m + nb + 1, Len(w.c.pcm)) /\ b = SubSeq(u, 1, nb)
  BY <1>8
<1> HIDE DEF nb, m, b, r
<1>11. SubSeq(u, nb + 1, Len(u)) = r
  BY <1>1, <1>3, <1>9, <1>10, RestOfRest
<1>12. b \in Seq(Byte) /\ Len(b) = nb /\ r \in Seq(Byte) /\ b \o r = u
  BY <1>1, <1>9, <1>10, <1>11, CutBytes
<1> QED BY <1>6, <1>9, <1>12 DEF b, r, u, y

LEMMA FlushPcmDoes ==
  ASSUME NEW w, Good(w), w.c.http, buffered \in BOOLEAN, NEW o \in FlushPcm(w)
  PROVE  KeepsGood(w, o) /\ (o.ok => o.w.c.http)
<1> DEFINE n == Min({Len(Unsent(w)) \div FrameBytes, Capacity - w.out.queued})
           counted == buffered /\ ~w.c.output_released
           b == SubSeq(Unsent(w), 1, n * FrameBytes)
           r == SubSeq(w.c.pcm, (w.c.pcm_sent + n) * FrameBytes + 1, Len(w.c.pcm))
           p == [w.out EXCEPT !.queued = w.out.queued + Len(b) \div FrameBytes]
           g == [w.h EXCEPT !.delivered = w.h.delivered \o b]
           k == [w.c EXCEPT !.pcm_sent = w.c.pcm_sent + n,
                            !.prefill_frames = IF counted THEN w.c.prefill_frames + n
                                                          ELSE w.c.prefill_frames]
           s1 == [w EXCEPT !.out = p]
           s == [s1 EXCEPT !.h = g]
           v == [s EXCEPT !.c = k]
<1>1. /\ w \in WorldType /\ Sane(w) /\ w.c.streaming /\ ~w.c.input_eof
      /\ w.out.active /\ ~w.out.finished
  BY WhileHttp
<1>2. w.c \in ClientType /\ w.out \in OutputType /\ w.h \in HistoryType
  BY <1>1, Parts
<1>3. OutPcm(w, b) = s
  <2>1. Misused(w, ~w.out.active \/ w.out.finished) = w
    BY <1>1, MisusedNot
  <2> HIDE DEF b
  <2> QED BY <2>1 DEF OutPcm
<1>4. \/ o \in Done(w)
      \/ o \in Failed(s)
      \/ o \in Done([s EXCEPT !.c.pcm_sent = s.c.pcm_sent + n,
                              !.c.prefill_frames = IF counted THEN s.c.prefill_frames + n
                                                              ELSE s.c.prefill_frames])
  <2> HIDE DEF s
  <2> QED BY <1>3 DEF FlushPcm
<1>5. w.out.queued \in Nat /\ w.out.queued <= Capacity
  BY <1>2, Ranges DEF OutputType
<1>6. /\ n \in Nat /\ n <= Capacity - w.out.queued
      /\ b \in Seq(Byte) /\ Len(b) \div FrameBytes = n
      /\ r \in Seq(Byte) /\ b \o r = Unsent(w)
  BY <1>1, <1>5, FlushedIs
<1> HIDE DEF n, b, r
<1>7. w.out.queued + Len(b) \div FrameBytes = w.out.queued + n /\ w.out.queued + n \in FrameRange
  BY <1>5, <1>6, Constants DEF FrameRange
<1>8. /\ p \in OutputType /\ p.active = w.out.active /\ p.held = w.out.held
      /\ p.finished = w.out.finished /\ p.played = w.out.played
      /\ p.queued = w.out.queued + n /\ p.misuse = w.out.misuse
  BY <1>2, <1>7 DEF OutputType
<1> HIDE DEF p
<1>9. /\ g \in HistoryType /\ g.stream = w.h.stream /\ g.residue = w.h.residue
      /\ g.received = w.h.received /\ g.delivered = w.h.delivered \o b
      /\ g.told = w.h.told /\ g.twice = w.h.twice /\ g.refused = w.h.refused
  <2>1. w.h.delivered \o b \in Seq(Byte)
    BY <1>2, <1>6, JoinBytes DEF HistoryType
  <2> QED BY <1>2, <2>1 DEF HistoryType
<1> HIDE DEF g
<1>10. s1 \in WorldType /\ s1.c = w.c /\ s1.out = p /\ s1.h = w.h
  BY <1>1, <1>8, SetOut
<1> HIDE DEF s1
<1>11. s \in WorldType /\ s.c = w.c /\ s.out = p /\ s.h = g
  BY <1>9, <1>10, SetH
<1> HIDE DEF s
<1>12. Sane(s)
  BY <1>1, <1>8, <1>9, <1>11 DEF Sane
<1>13. /\ k \in ClientType /\ k.pcm_sent = w.c.pcm_sent + n
       /\ k.prefill_frames = (IF counted THEN w.c.prefill_frames + n ELSE w.c.prefill_frames)
       /\ k.control = w.c.control /\ k.http = w.c.http /\ k.streaming = w.c.streaming
       /\ k.output_released = w.c.output_released /\ k.input_eof = w.c.input_eof
       /\ k.eof_sent = w.c.eof_sent /\ k.ready_frames = w.c.ready_frames
       /\ k.pcm = w.c.pcm /\ k.body_done = w.c.body_done
       /\ k.ready_sent = w.c.ready_sent /\ k.started_sent = w.c.started_sent
       /\ k.has_length = w.c.has_length /\ k.remaining = w.c.remaining
       /\ k.tail = w.c.tail /\ k.ingress = w.c.ingress
  <2> DEFINE i == w.c.pcm_sent + n
             j == IF counted THEN w.c.prefill_frames + n ELSE w.c.prefill_frames
  <2>1. i \in Nat /\ j \in Nat
    <3>1. w.c.pcm_sent \in Nat /\ w.c.prefill_frames \in Nat
      BY <1>2 DEF ClientType
    <3> QED BY <1>6, <3>1
  <2> HIDE DEF i, j
  <2>2. k = [w.c EXCEPT !.pcm_sent = i, !.prefill_frames = j]
    BY DEF i, j
  <2> HIDE DEF k
  <2>3. k.pcm_sent = i /\ k.prefill_frames = j
    BY <1>2, <2>1, <2>2 DEF ClientType
  <2>4. k \in ClientType
    BY <1>2, <2>1, <2>2 DEF ClientType
  <2>5. /\ k.control = w.c.control /\ k.http = w.c.http /\ k.streaming = w.c.streaming
        /\ k.output_released = w.c.output_released /\ k.input_eof = w.c.input_eof
        /\ k.eof_sent = w.c.eof_sent /\ k.ready_frames = w.c.ready_frames
        /\ k.pcm = w.c.pcm /\ k.body_done = w.c.body_done
    BY <1>2, <2>1, <2>2 DEF ClientType
  <2>6. /\ k.ready_sent = w.c.ready_sent /\ k.started_sent = w.c.started_sent
        /\ k.has_length = w.c.has_length /\ k.remaining = w.c.remaining
        /\ k.tail = w.c.tail /\ k.ingress = w.c.ingress
    BY <1>2, <2>1, <2>2 DEF ClientType
  <2> QED BY <2>3, <2>4, <2>5, <2>6 DEF i, j
<1>14. [s EXCEPT !.c.pcm_sent = s.c.pcm_sent + n,
                 !.c.prefill_frames = IF counted THEN s.c.prefill_frames + n
                                                 ELSE s.c.prefill_frames] = v
  BY <1>11
<1> HIDE DEF k
<1>15. v \in WorldType /\ v.c = k /\ v.out = p /\ v.h = g
  BY <1>11, <1>13, SetC
<1> HIDE DEF v
<1>16. Sane(v)
  BY <1>1, <1>8, <1>9, <1>13, <1>15 DEF Sane
<1>17. OutputOK(v)
  BY <1>1, <1>8, <1>13, <1>15 DEF Good, OutputOK
<1>18. TellsOK(v)
  <2>1. k.prefill_frames >= w.c.prefill_frames /\ w.c.prefill_frames \in Nat
        /\ w.c.ready_frames \in Nat /\ k.prefill_frames \in Nat
    <3>1. w.c.prefill_frames \in Nat /\ w.c.ready_frames \in FrameRange
      BY <1>2 DEF ClientType
    <3> QED BY <1>6, <1>13, <3>1, Ranges
  <2> QED BY <1>8, <1>9, <1>13, <1>15, <2>1 DEF Good, TellsOK
<1>19. BodyOK(v)
  BY <1>1, <1>13, <1>15 DEF Good, BodyOK
<1>20. BytesOK(v)
  <2>1. Unsent(v) = r
    BY <1>13, <1>15 DEF Unsent, r
  <2>2. w.h.delivered \in Seq(Byte)
    BY <1>2 DEF HistoryType
  <2>3. (w.h.delivered \o b) \o r = w.h.delivered \o Unsent(w)
    <3> DEFINE d == w.h.delivered
    <3>1. d \in Seq(Byte)
      BY <2>2
    <3> HIDE DEF d
    <3>2. (d \o b) \o r = d \o (b \o r)
      BY <1>6, <3>1, JoinBytes
    <3> QED BY <1>6, <3>2 DEF d
  <2>4. /\ v.h.delivered = w.h.delivered \o b /\ v.c.tail = w.c.tail
        /\ v.c.ingress = w.c.ingress /\ v.h.residue = w.h.residue
        /\ v.h.received = w.h.received /\ v.h.stream = w.h.stream
    BY <1>9, <1>13, <1>15
  <2>5. w.h.delivered \o Unsent(w) \o w.c.tail \o w.c.ingress
          = w.h.residue \o [i \in 1..w.h.received |-> <<w.h.stream, i>>]
    BY <1>1 DEF Good, BytesOK
  <2> QED BY <2>1, <2>3, <2>4, <2>5 DEF BytesOK
<1>21. Good(v) /\ v.c.control = w.c.control /\ v.c.http
  BY <1>13, <1>15, <1>16, <1>17, <1>18, <1>19, <1>20 DEF Good
<1>22. CASE o \in Done(w)
  BY <1>22, DoneKeeps DEF Done
<1>23. CASE o \in Failed(s)
  BY <1>12, <1>23, FailedKeeps DEF Failed
<1>24. CASE o \in Done(v)
  BY <1>21, <1>24, DoneKeeps DEF Done
<1> QED BY <1>4, <1>14, <1>22, <1>23, <1>24

(* One flag set. *)

LEMMA SetReadySent ==
  ASSUME NEW w \in WorldType, NEW b \in BOOLEAN
  PROVE  LET u == [w EXCEPT !.c.ready_sent = b] IN
         /\ u \in WorldType /\ u.out = w.out /\ u.h = w.h /\ u.c.ready_sent = b
         /\ u.c.control = w.c.control /\ u.c.http = w.c.http
         /\ u.c.streaming = w.c.streaming
         /\ u.c.output_released = w.c.output_released
         /\ u.c.input_eof = w.c.input_eof /\ u.c.eof_sent = w.c.eof_sent
         /\ u.c.prefill_frames = w.c.prefill_frames
         /\ u.c.ready_frames = w.c.ready_frames /\ u.c.pcm = w.c.pcm
         /\ u.c.pcm_sent = w.c.pcm_sent /\ u.c.body_done = w.c.body_done
         /\ u.c.started_sent = w.c.started_sent /\ u.c.has_length = w.c.has_length
         /\ u.c.remaining = w.c.remaining /\ u.c.tail = w.c.tail
         /\ u.c.ingress = w.c.ingress
<1> DEFINE k == [w.c EXCEPT !.ready_sent = b]
           u == [w EXCEPT !.c = k]
<1>1. [w EXCEPT !.c.ready_sent = b] = u
  OBVIOUS
<1>2. w.c \in ClientType
  BY Parts
<1>3. k \in ClientType /\ k.ready_sent = b
  BY <1>2 DEF ClientType
<1>4. /\ k.control = w.c.control /\ k.http = w.c.http /\ k.streaming = w.c.streaming
      /\ k.output_released = w.c.output_released /\ k.input_eof = w.c.input_eof
      /\ k.eof_sent = w.c.eof_sent /\ k.prefill_frames = w.c.prefill_frames
      /\ k.ready_frames = w.c.ready_frames
  BY <1>2 DEF ClientType
<1>5. /\ k.pcm = w.c.pcm /\ k.pcm_sent = w.c.pcm_sent /\ k.body_done = w.c.body_done
      /\ k.started_sent = w.c.started_sent /\ k.has_length = w.c.has_length
      /\ k.remaining = w.c.remaining /\ k.tail = w.c.tail /\ k.ingress = w.c.ingress
  BY <1>2 DEF ClientType
<1> HIDE DEF k
<1>6. u \in WorldType /\ u.out = w.out /\ u.h = w.h /\ u.c = k
  BY <1>3, SetC
<1> HIDE DEF u
<1> QED BY <1>1, <1>3, <1>4, <1>5, <1>6

LEMMA SetStartedSent ==
  ASSUME NEW w \in WorldType, NEW b \in BOOLEAN
  PROVE  LET u == [w EXCEPT !.c.started_sent = b] IN
         /\ u \in WorldType /\ u.out = w.out /\ u.h = w.h /\ u.c.started_sent = b
         /\ u.c.control = w.c.control /\ u.c.http = w.c.http
         /\ u.c.streaming = w.c.streaming
         /\ u.c.output_released = w.c.output_released
         /\ u.c.input_eof = w.c.input_eof /\ u.c.eof_sent = w.c.eof_sent
         /\ u.c.prefill_frames = w.c.prefill_frames
         /\ u.c.ready_frames = w.c.ready_frames /\ u.c.pcm = w.c.pcm
         /\ u.c.pcm_sent = w.c.pcm_sent /\ u.c.body_done = w.c.body_done
         /\ u.c.ready_sent = w.c.ready_sent /\ u.c.has_length = w.c.has_length
         /\ u.c.remaining = w.c.remaining /\ u.c.tail = w.c.tail
         /\ u.c.ingress = w.c.ingress
<1> DEFINE k == [w.c EXCEPT !.started_sent = b]
           u == [w EXCEPT !.c = k]
<1>1. [w EXCEPT !.c.started_sent = b] = u
  OBVIOUS
<1>2. w.c \in ClientType
  BY Parts
<1>3. k \in ClientType /\ k.started_sent = b
  BY <1>2 DEF ClientType
<1>4. /\ k.control = w.c.control /\ k.http = w.c.http /\ k.streaming = w.c.streaming
      /\ k.output_released = w.c.output_released /\ k.input_eof = w.c.input_eof
      /\ k.eof_sent = w.c.eof_sent /\ k.prefill_frames = w.c.prefill_frames
      /\ k.ready_frames = w.c.ready_frames
  BY <1>2 DEF ClientType
<1>5. /\ k.pcm = w.c.pcm /\ k.pcm_sent = w.c.pcm_sent /\ k.body_done = w.c.body_done
      /\ k.ready_sent = w.c.ready_sent /\ k.has_length = w.c.has_length
      /\ k.remaining = w.c.remaining /\ k.tail = w.c.tail /\ k.ingress = w.c.ingress
  BY <1>2 DEF ClientType
<1> HIDE DEF k
<1>6. u \in WorldType /\ u.out = w.out /\ u.h = w.h /\ u.c = k
  BY <1>3, SetC
<1> HIDE DEF u
<1> QED BY <1>1, <1>3, <1>4, <1>5, <1>6

LEMMA SetEofSent ==
  ASSUME NEW w \in WorldType, NEW b \in BOOLEAN
  PROVE  LET u == [w EXCEPT !.c.eof_sent = b] IN
         /\ u \in WorldType /\ u.out = w.out /\ u.h = w.h /\ u.c.eof_sent = b
         /\ u.c.control = w.c.control /\ u.c.http = w.c.http
         /\ u.c.streaming = w.c.streaming
         /\ u.c.output_released = w.c.output_released
         /\ u.c.input_eof = w.c.input_eof /\ u.c.prefill_frames = w.c.prefill_frames
         /\ u.c.ready_frames = w.c.ready_frames /\ u.c.pcm = w.c.pcm
         /\ u.c.pcm_sent = w.c.pcm_sent /\ u.c.body_done = w.c.body_done
         /\ u.c.ready_sent = w.c.ready_sent /\ u.c.started_sent = w.c.started_sent
         /\ u.c.has_length = w.c.has_length /\ u.c.remaining = w.c.remaining
         /\ u.c.tail = w.c.tail /\ u.c.ingress = w.c.ingress
<1> DEFINE k == [w.c EXCEPT !.eof_sent = b]
           u == [w EXCEPT !.c = k]
<1>1. [w EXCEPT !.c.eof_sent = b] = u
  OBVIOUS
<1>2. w.c \in ClientType
  BY Parts
<1>3. k \in ClientType /\ k.eof_sent = b
  BY <1>2 DEF ClientType
<1>4. /\ k.control = w.c.control /\ k.http = w.c.http /\ k.streaming = w.c.streaming
      /\ k.output_released = w.c.output_released /\ k.input_eof = w.c.input_eof
      /\ k.prefill_frames = w.c.prefill_frames /\ k.ready_frames = w.c.ready_frames
      /\ k.pcm = w.c.pcm
  BY <1>2 DEF ClientType
<1>5. /\ k.pcm_sent = w.c.pcm_sent /\ k.body_done = w.c.body_done
      /\ k.ready_sent = w.c.ready_sent /\ k.started_sent = w.c.started_sent
      /\ k.has_length = w.c.has_length /\ k.remaining = w.c.remaining
      /\ k.tail = w.c.tail /\ k.ingress = w.c.ingress
  BY <1>2 DEF ClientType
<1> HIDE DEF k
<1>6. u \in WorldType /\ u.out = w.out /\ u.h = w.h /\ u.c = k
  BY <1>3, SetC
<1> HIDE DEF u
<1> QED BY <1>1, <1>3, <1>4, <1>5, <1>6

LEMMA SetReleased ==
  ASSUME NEW w \in WorldType, NEW b \in BOOLEAN
  PROVE  LET u == [w EXCEPT !.c.output_released = b] IN
         /\ u \in WorldType /\ u.out = w.out /\ u.h = w.h /\ u.c.output_released = b
         /\ u.c.control = w.c.control /\ u.c.http = w.c.http
         /\ u.c.streaming = w.c.streaming /\ u.c.input_eof = w.c.input_eof
         /\ u.c.eof_sent = w.c.eof_sent /\ u.c.prefill_frames = w.c.prefill_frames
         /\ u.c.ready_frames = w.c.ready_frames /\ u.c.pcm = w.c.pcm
         /\ u.c.pcm_sent = w.c.pcm_sent /\ u.c.body_done = w.c.body_done
         /\ u.c.ready_sent = w.c.ready_sent /\ u.c.started_sent = w.c.started_sent
         /\ u.c.has_length = w.c.has_length /\ u.c.remaining = w.c.remaining
         /\ u.c.tail = w.c.tail /\ u.c.ingress = w.c.ingress
<1> DEFINE k == [w.c EXCEPT !.output_released = b]
           u == [w EXCEPT !.c = k]
<1>1. [w EXCEPT !.c.output_released = b] = u
  OBVIOUS
<1>2. w.c \in ClientType
  BY Parts
<1>3. k \in ClientType /\ k.output_released = b
  BY <1>2 DEF ClientType
<1>4. /\ k.control = w.c.control /\ k.http = w.c.http /\ k.streaming = w.c.streaming
      /\ k.input_eof = w.c.input_eof /\ k.eof_sent = w.c.eof_sent
      /\ k.prefill_frames = w.c.prefill_frames /\ k.ready_frames = w.c.ready_frames
      /\ k.pcm = w.c.pcm
  BY <1>2 DEF ClientType
<1>5. /\ k.pcm_sent = w.c.pcm_sent /\ k.body_done = w.c.body_done
      /\ k.ready_sent = w.c.ready_sent /\ k.started_sent = w.c.started_sent
      /\ k.has_length = w.c.has_length /\ k.remaining = w.c.remaining
      /\ k.tail = w.c.tail /\ k.ingress = w.c.ingress
  BY <1>2 DEF ClientType
<1> HIDE DEF k
<1>6. u \in WorldType /\ u.out = w.out /\ u.h = w.h /\ u.c = k
  BY <1>3, SetC
<1> HIDE DEF u
<1> QED BY <1>1, <1>3, <1>4, <1>5, <1>6

LEMMA IngressDecodeDoes ==
  ASSUME NEW w, Good(w), w.c.http, Unsent(w) = <<>>
  PROVE  LET v == IngressDecode(w) IN Good(v) /\ v.c.http /\ v.c.control = w.c.control
<1> DEFINE bytes == w.c.tail \o w.c.ingress
           n == Min({PcmFrames, Len(bytes) \div FrameBytes})
           first == SubSeq(bytes, 1, n * FrameBytes)
           rest == SubSeq(bytes, n * FrameBytes + 1, Len(bytes))
           t == IF n = PcmFrames THEN <<>> ELSE rest
           i == IF n = PcmFrames THEN rest ELSE <<>>
           k == [w.c EXCEPT !.pcm = first, !.pcm_sent = 0, !.tail = t, !.ingress = i]
           v == [w EXCEPT !.c = k]
<1>1. /\ w \in WorldType /\ Sane(w) /\ w.c.streaming /\ ~w.c.input_eof
      /\ w.out.active /\ ~w.out.finished
  BY WhileHttp
<1>2. w.c \in ClientType /\ w.c.tail \in Seq(Byte) /\ w.c.ingress \in Seq(Byte)
  BY <1>1, Parts DEF ClientType
<1>3. IngressDecode(w) = v
  BY DEF IngressDecode
<1>4. bytes \in Seq(Byte) /\ Len(bytes) \in Nat
  BY <1>2, JoinBytes, EmptyBytes
<1> HIDE DEF bytes
<1>5. n \in Nat /\ n <= Len(bytes) \div FrameBytes
  <2> DEFINE x == Len(bytes) \div FrameBytes
  <2>1. x \in Nat
    BY <1>4, Constants
  <2> HIDE DEF x
  <2>2. Min({PcmFrames, x}) \in {PcmFrames, x} /\ Min({PcmFrames, x}) <= x
    <3>1. PcmFrames \in Int /\ x \in Int
      BY <2>1, Constants
    <3> QED BY <3>1, MinOfTwo
  <2>3. Min({PcmFrames, x}) \in Nat
    BY <2>1, <2>2, Constants
  <2> QED BY <2>2, <2>3 DEF x
<1> HIDE DEF n
<1>6. n * FrameBytes \in Nat /\ n * FrameBytes <= Len(bytes)
  BY <1>4, <1>5, WholeFrames
<1>7. first \in Seq(Byte) /\ rest \in Seq(Byte) /\ first \o rest = bytes
  BY <1>4, <1>6, CutBytes
<1> HIDE DEF first, rest
<1>8. t \in Seq(Byte) /\ i \in Seq(Byte) /\ t \o i = rest
  BY <1>7, EmptyBytes
<1> HIDE DEF t, i
<1>9. k \in ClientType /\ k.pcm = first /\ k.pcm_sent = 0 /\ k.tail = t /\ k.ingress = i
  BY <1>2, <1>7, <1>8 DEF ClientType
<1>10. /\ k.control = w.c.control /\ k.http = w.c.http /\ k.streaming = w.c.streaming
       /\ k.output_released = w.c.output_released /\ k.input_eof = w.c.input_eof
       /\ k.eof_sent = w.c.eof_sent /\ k.ready_frames = w.c.ready_frames
       /\ k.prefill_frames = w.c.prefill_frames /\ k.body_done = w.c.body_done
  BY <1>2 DEF ClientType
<1>11. /\ k.ready_sent = w.c.ready_sent /\ k.started_sent = w.c.started_sent
       /\ k.has_length = w.c.has_length /\ k.remaining = w.c.remaining
  BY <1>2 DEF ClientType
<1> HIDE DEF k
<1>12. v \in WorldType /\ v.c = k /\ v.out = w.out /\ v.h = w.h
  BY <1>1, <1>9, SetC
<1> HIDE DEF v
<1>13. Sane(v)
  BY <1>1, <1>10, <1>12 DEF Sane
<1>14. OutputOK(v)
  BY <1>10, <1>12 DEF Good, OutputOK
<1>15. TellsOK(v)
  BY <1>10, <1>11, <1>12 DEF Good, TellsOK
<1>16. BodyOK(v)
  BY <1>1, <1>10, <1>11, <1>12 DEF Good, BodyOK
<1>17. BytesOK(v)
  <2> DEFINE d == w.h.delivered
             z == w.c.tail
             y == w.c.ingress
  <2>1. d \in Seq(Byte) /\ z \in Seq(Byte) /\ y \in Seq(Byte) /\ bytes = z \o y
    BY <1>1, <1>2, Parts DEF HistoryType, bytes
  <2>2. Unsent(v) = first
    <3>1. 0 * FrameBytes + 1 = 1
      BY Constants
    <3>2. SubSeq(first, 1, Len(first)) = first
      BY <1>7
    <3> QED BY <1>9, <1>12, <3>1, <3>2 DEF Unsent
  <2>3. d \o Unsent(w) \o z \o y = w.h.residue \o [j \in 1..w.h.received |-> <<w.h.stream, j>>]
    BY <1>1 DEF Good, BytesOK
  <2> HIDE DEF d, z, y
  <2>4. d \o Unsent(w) \o z \o y = d \o bytes
    <3>1. d \o Unsent(w) = d
      BY <2>1, EmptyBytes
    <3>2. (d \o z) \o y = d \o (z \o y)
      BY <2>1, JoinBytes
    <3> QED BY <2>1, <3>1, <3>2
  <2>5. d \o first \o t \o i = d \o bytes
    <3>1. d \o first \in Seq(Byte)
      BY <1>7, <2>1, JoinBytes
    <3>2. ((d \o first) \o t) \o i = (d \o first) \o (t \o i)
      BY <1>8, <3>1, JoinBytes
    <3>3. (d \o first) \o rest = d \o (first \o rest)
      BY <1>7, <2>1, JoinBytes
    <3> QED BY <1>7, <1>8, <3>2, <3>3
  <2>6. d \o Unsent(v) \o v.c.tail \o v.c.ingress = d \o bytes
    BY <1>9, <1>12, <2>2, <2>5
  <2> QED BY <1>12, <2>3, <2>4, <2>6 DEF BytesOK, d
<1> QED BY <1>3, <1>10, <1>12, <1>13, <1>14, <1>15, <1>16, <1>17 DEF Good

LEMMA DrainChunkDoes ==
  ASSUME NEW w, Good(w), w.c.http, buffered \in BOOLEAN, NEW o \in DrainChunk(w)
  PROVE  KeepsGood(w, o) /\ (o.ok => o.w.c.http)
<1> DEFINE Rest(u) == IF Unsent(u) = <<>> THEN FlushPcm(IngressDecode(u)) ELSE Done(u)
<1>1. o \in Then(FlushPcm(w), Rest)
  BY DEF DrainChunk
<1>2. ASSUME NEW q \in FlushPcm(w) PROVE KeepsGood(w, q) /\ (q.ok => q.w.c.http)
  BY FlushPcmDoes
<1> HIDE DEF Rest
<1>3. \/ o \in FlushPcm(w) /\ ~o.ok
      \/ \E q \in FlushPcm(w) : q.ok /\ o \in Rest(q.w)
  BY <1>1 DEF Then
<1>4. CASE o \in FlushPcm(w) /\ ~o.ok
  BY <1>2, <1>4
<1>5. ASSUME NEW q \in FlushPcm(w), q.ok, o \in Rest(q.w)
      PROVE  KeepsGood(w, o) /\ (o.ok => o.w.c.http)
  <2> DEFINE u == q.w
             v == IngressDecode(u)
  <2>1. Good(u) /\ u.c.http /\ u.c.control = w.c.control
    BY <1>2, <1>5 DEF KeepsGood
  <2>2. (Unsent(u) = <<>> /\ o \in FlushPcm(v)) \/ o \in Done(u)
    BY <1>5 DEF Rest
  <2> HIDE DEF u
  <2>3. CASE o \in Done(u)
    BY <2>1, <2>3, DoneKeeps DEF Done
  <2>4. CASE Unsent(u) = <<>> /\ o \in FlushPcm(v)
    <3>1. Good(v) /\ v.c.http /\ v.c.control = w.c.control
      BY <2>1, <2>4, IngressDecodeDoes
    <3> HIDE DEF v
    <3>2. KeepsGood(v, o) /\ (o.ok => o.w.c.http)
      BY <2>4, <3>1, FlushPcmDoes
    <3> QED BY <3>1, <3>2 DEF KeepsGood
  <2> QED BY <2>2, <2>3, <2>4
<1> QED BY <1>3, <1>4, <1>5
----------------------------------------------------------------------------
(* service_buffered. *)

(* What TellReady and ReleaseOutput need, and TellReady keeps. *)
Reserve(w) == buffered => w.c.input_eof \/ w.c.prefill_frames >= w.c.ready_frames

LEMMA TellReadyDoes ==
  ASSUME NEW w, Good(w), w.c.streaming, Reserve(w), NEW o \in TellReady(w)
  PROVE  KeepsGood(w, o) /\ (o.ok => o.w.c.streaming /\ Reserve(o.w))
<1> DEFINE Rest(u) == Done([u EXCEPT !.c.ready_sent = TRUE])
<1>1. CASE w.c.ready_sent
  <2>1. o \in Done(w)
    BY <1>1 DEF TellReady
  <2> QED BY <2>1, DoneKeeps DEF Done
<1>2. CASE ~w.c.ready_sent
  <2>1. o \in Then(Status(w, "STMl"), Rest)
    BY <1>2 DEF TellReady
  <2>2. Sane(w) /\ "STMl" \notin w.h.told
    BY <1>2 DEF Good, TellsOK
  <2> HIDE DEF Rest
  <2>3. \/ o \in Status(w, "STMl") /\ ~o.ok
        \/ \E q \in Status(w, "STMl") : q.ok /\ o \in Rest(q.w)
    BY <2>1 DEF Then
  <2>4. CASE o \in Status(w, "STMl") /\ ~o.ok
    BY <2>2, <2>4, StatusOnce DEF KeepsGood
  <2>5. ASSUME NEW q \in Status(w, "STMl"), q.ok, o \in Rest(q.w)
        PROVE  KeepsGood(w, o) /\ (o.ok => o.w.c.streaming /\ Reserve(o.w))
    <3> DEFINE u == q.w
               v == [u EXCEPT !.c.ready_sent = TRUE]
    <3>1. /\ Sane(u) /\ Like(w.c, u.c) /\ u.out = w.out
          /\ u.h.stream = w.h.stream /\ u.h.residue = w.h.residue
          /\ u.h.received = w.h.received /\ u.h.delivered = w.h.delivered
          /\ u.h.told = w.h.told \cup (Once \cap {"STMl"})
      BY <2>2, <2>5, StatusOnce
    <3>2. o \in Done(v)
      BY <2>5 DEF Rest
    <3> HIDE DEF u
    <3>3. u \in WorldType
      BY <3>1 DEF Sane
    <3>4. /\ v \in WorldType /\ v.out = u.out /\ v.h = u.h /\ v.c.ready_sent = TRUE
          /\ v.c.control = u.c.control /\ v.c.http = u.c.http
          /\ v.c.streaming = u.c.streaming /\ v.c.output_released = u.c.output_released
          /\ v.c.input_eof = u.c.input_eof /\ v.c.eof_sent = u.c.eof_sent
          /\ v.c.prefill_frames = u.c.prefill_frames
          /\ v.c.ready_frames = u.c.ready_frames
          /\ v.c.pcm = u.c.pcm /\ v.c.pcm_sent = u.c.pcm_sent
          /\ v.c.body_done = u.c.body_done /\ v.c.started_sent = u.c.started_sent
          /\ v.c.has_length = u.c.has_length /\ v.c.remaining = u.c.remaining
          /\ v.c.tail = u.c.tail /\ v.c.ingress = u.c.ingress
      BY <3>3, SetReadySent
    <3> HIDE DEF v
    <3>5. OutputOK(u) /\ BodyOK(u) /\ BytesOK(u)
      BY <3>1, UnreportedOK DEF Good
    <3>6. Sane(v)
      BY <3>1, <3>4 DEF Sane
    <3>7. OutputOK(v)
      BY <3>4, <3>5 DEF OutputOK
    <3>8. Unsent(v) = Unsent(u)
      BY <3>4 DEF Unsent
    <3>9. BodyOK(v) /\ BytesOK(v)
      BY <3>4, <3>5, <3>8 DEF BodyOK, BytesOK
    <3>10. v.c.streaming /\ Reserve(v)
      BY <3>1, <3>4 DEF Reserve, Like
    <3>11. v.h.told = w.h.told \cup {"STMl"}
      BY <3>1, <3>4 DEF Once
    <3>12. TellsOK(v)
      BY <3>1, <3>4, <3>10, <3>11 DEF Good, TellsOK, Like, Reserve
    <3>13. Good(v) /\ v.c.control = w.c.control
      BY <3>1, <3>4, <3>6, <3>7, <3>9, <3>12 DEF Good, Like
    <3> QED BY <3>2, <3>10, <3>13, DoneKeeps DEF Done
  <2> QED BY <2>3, <2>4, <2>5
<1> QED BY <1>1, <1>2

LEMMA ReleaseOutputDoes ==
  ASSUME NEW w, Good(w), w.c.streaming, buffered, Reserve(w), NEW o \in ReleaseOutput(w)
  PROVE  KeepsGood(w, o) /\ (o.ok => o.w.c.streaming)
<1> DEFINE Rest(u) == Done([u EXCEPT !.c.output_released = TRUE])
           skip == w.c.wait_start \/ w.c.output_paused \/ w.c.output_released
<1>1. CASE skip
  <2>1. o \in Done(w)
    BY <1>1 DEF ReleaseOutput
  <2> QED BY <2>1, DoneKeeps DEF Done
<1>2. CASE ~skip
  <2> DEFINE p1 == [w.out EXCEPT !.held = FALSE]
             p == [p1 EXCEPT !.paused = FALSE]
             u == [w EXCEPT !.out = p]
             v == [u EXCEPT !.c.output_released = TRUE]
  <2>1. o \in Then(OutRelease(w), Rest)
    BY <1>2 DEF ReleaseOutput
  <2>2. /\ Sane(w) /\ w \in WorldType /\ w.out \in OutputType /\ w.c \in ClientType
        /\ ~w.c.output_released /\ w.out.active /\ w.out.held
    BY <1>2, Parts DEF Good, Sane, OutputOK
  <2>3. ~(w.out.queued < w.c.ready_frames /\ ~w.out.finished)
    <3>1. w.out.queued = w.c.prefill_frames /\ (w.out.finished <=> w.c.input_eof)
      BY <2>2 DEF Good, OutputOK
    <3>2. w.c.prefill_frames \in Nat /\ w.c.ready_frames \in Nat
      BY <2>2, Ranges DEF ClientType
    <3> QED BY <3>1, <3>2 DEF Reserve
  <2> DEFINE wrong == ~w.out.active \/ (~w.out.held \/ (w.out.queued < w.c.ready_frames /\ ~w.out.finished))
  <2>4. ~wrong
    BY <2>2, <2>3
  <2>5. OutRelease(w)
          = Failed(w) \cup Done([Misused(w, wrong) EXCEPT !.out.held = FALSE, !.out.paused = FALSE])
    BY DEF OutRelease
  <2> HIDE DEF wrong
  <2>6. Misused(w, wrong) = w
    BY <2>2, <2>4, MisusedNot
  <2>7. [w EXCEPT !.out.held = FALSE, !.out.paused = FALSE] = u
    OBVIOUS
  <2> HIDE DEF Rest, u
  <2>8. \A q \in OutRelease(w) : q = [ok |-> FALSE, w |-> w] \/ q = [ok |-> TRUE, w |-> u]
    BY <2>5, <2>6, <2>7 DEF Failed, Done
  <2>9. \/ o \in OutRelease(w) /\ ~o.ok
        \/ \E q \in OutRelease(w) : q.ok /\ o \in Rest(q.w)
    BY <2>1 DEF Then
  <2>10. CASE o \in OutRelease(w) /\ ~o.ok
    BY <2>2, <2>8, <2>10 DEF KeepsGood
  <2>11. ASSUME NEW q \in OutRelease(w), q.ok, o \in Rest(q.w)
         PROVE  KeepsGood(w, o) /\ (o.ok => o.w.c.streaming)
    <3>1. o \in Done(v)
      <4>1. q.w = u
        BY <2>8, <2>11
      <4>2. o \in Rest(u)
        BY <2>11, <4>1
      <4> QED BY <4>2 DEF Rest
    <3>2. /\ p1 \in OutputType /\ p1.active = w.out.active /\ p1.held = FALSE
          /\ p1.finished = w.out.finished /\ p1.played = w.out.played
          /\ p1.queued = w.out.queued /\ p1.misuse = w.out.misuse
      BY <2>2 DEF OutputType
    <3> HIDE DEF p1
    <3>3. /\ p \in OutputType /\ p.active = w.out.active /\ p.held = FALSE
          /\ p.finished = w.out.finished /\ p.played = w.out.played
          /\ p.queued = w.out.queued /\ p.misuse = w.out.misuse
      BY <3>2 DEF OutputType
    <3> HIDE DEF p
    <3>4. u \in WorldType /\ u.c = w.c /\ u.out = p /\ u.h = w.h
      BY <2>2, <3>3, SetOut DEF u
    <3>5. /\ v \in WorldType /\ v.out = u.out /\ v.h = u.h /\ v.c.output_released = TRUE
          /\ v.c.control = u.c.control /\ v.c.http = u.c.http
          /\ v.c.streaming = u.c.streaming /\ v.c.input_eof = u.c.input_eof
          /\ v.c.eof_sent = u.c.eof_sent /\ v.c.prefill_frames = u.c.prefill_frames
          /\ v.c.ready_frames = u.c.ready_frames
          /\ v.c.pcm = u.c.pcm /\ v.c.pcm_sent = u.c.pcm_sent
          /\ v.c.body_done = u.c.body_done /\ v.c.ready_sent = u.c.ready_sent
          /\ v.c.started_sent = u.c.started_sent
          /\ v.c.has_length = u.c.has_length /\ v.c.remaining = u.c.remaining
          /\ v.c.tail = u.c.tail /\ v.c.ingress = u.c.ingress
      BY <3>4, SetReleased
    <3> HIDE DEF v
    <3>6. Sane(v)
      BY <2>2, <3>3, <3>4, <3>5 DEF Sane
    <3>7. OutputOK(v)
      BY <3>3, <3>4, <3>5 DEF Good, OutputOK
    <3>8. TellsOK(v)
      BY <3>3, <3>4, <3>5 DEF Good, TellsOK
    <3>9. Unsent(v) = Unsent(w)
      BY <3>4, <3>5 DEF Unsent
    <3>10. BodyOK(v)
      BY <3>4, <3>5, <3>9 DEF Good, BodyOK
    <3>11. BytesOK(v)
      BY <3>4, <3>5, <3>9 DEF Good, BytesOK
    <3>12. Good(v) /\ v.c.control = w.c.control /\ v.c.streaming
      BY <3>4, <3>5, <3>6, <3>7, <3>8, <3>10, <3>11 DEF Good
    <3> QED BY <3>1, <3>12, DoneKeeps DEF Done
  <2> QED BY <2>9, <2>10, <2>11
<1> QED BY <1>1, <1>2

LEMMA TellEndDoes ==
  ASSUME NEW w, Good(w), w.c.streaming, buffered, NEW o \in TellEnd(w)
  PROVE  KeepsGood(w, o)
<1> DEFINE Rest(u) == Done([u EXCEPT !.c.eof_sent = TRUE])
           skip == ~w.c.input_eof \/ ~w.c.output_released \/ w.c.eof_sent
<1>1. CASE skip
  <2>1. o \in Done(w)
    BY <1>1 DEF TellEnd
  <2> QED BY <2>1, DoneKeeps
<1>2. CASE ~skip
  <2>1. o \in Then(Status(w, "STMd"), Rest)
    BY <1>2 DEF TellEnd
  <2>2. Sane(w) /\ "STMd" \notin w.h.told
    BY <1>2 DEF Good, TellsOK
  <2> HIDE DEF Rest
  <2>3. \/ o \in Status(w, "STMd") /\ ~o.ok
        \/ \E q \in Status(w, "STMd") : q.ok /\ o \in Rest(q.w)
    BY <2>1 DEF Then
  <2>4. CASE o \in Status(w, "STMd") /\ ~o.ok
    BY <2>2, <2>4, StatusOnce DEF KeepsGood
  <2>5. ASSUME NEW q \in Status(w, "STMd"), q.ok, o \in Rest(q.w)
        PROVE  KeepsGood(w, o)
    <3> DEFINE u == q.w
               v == [u EXCEPT !.c.eof_sent = TRUE]
    <3>1. /\ Sane(u) /\ Like(w.c, u.c) /\ u.out = w.out
          /\ u.h.stream = w.h.stream /\ u.h.residue = w.h.residue
          /\ u.h.received = w.h.received /\ u.h.delivered = w.h.delivered
          /\ u.h.told = w.h.told \cup (Once \cap {"STMd"})
      BY <2>2, <2>5, StatusOnce
    <3>2. o \in Done(v)
      BY <2>5 DEF Rest
    <3> HIDE DEF u
    <3>3. u \in WorldType
      BY <3>1 DEF Sane
    <3>4. /\ v \in WorldType /\ v.out = u.out /\ v.h = u.h /\ v.c.eof_sent = TRUE
          /\ v.c.control = u.c.control /\ v.c.http = u.c.http
          /\ v.c.streaming = u.c.streaming /\ v.c.output_released = u.c.output_released
          /\ v.c.input_eof = u.c.input_eof /\ v.c.prefill_frames = u.c.prefill_frames
          /\ v.c.ready_frames = u.c.ready_frames
          /\ v.c.pcm = u.c.pcm /\ v.c.pcm_sent = u.c.pcm_sent
          /\ v.c.body_done = u.c.body_done /\ v.c.ready_sent = u.c.ready_sent
          /\ v.c.started_sent = u.c.started_sent
          /\ v.c.has_length = u.c.has_length /\ v.c.remaining = u.c.remaining
          /\ v.c.tail = u.c.tail /\ v.c.ingress = u.c.ingress
      BY <3>3, SetEofSent
    <3> HIDE DEF v
    <3>5. OutputOK(u) /\ BodyOK(u) /\ BytesOK(u)
      BY <3>1, UnreportedOK DEF Good
    <3>6. Sane(v)
      BY <3>1, <3>4 DEF Sane
    <3>7. OutputOK(v)
      BY <3>4, <3>5 DEF OutputOK
    <3>8. Unsent(v) = Unsent(u)
      BY <3>4 DEF Unsent
    <3>9. BodyOK(v) /\ BytesOK(v)
      BY <3>4, <3>5, <3>8 DEF BodyOK, BytesOK
    <3>11. v.h.told = w.h.told \cup {"STMd"}
      BY <3>1, <3>4 DEF Once
    <3>12. TellsOK(v)
      BY <1>2, <3>1, <3>4, <3>11 DEF Good, TellsOK, Like
    <3>13. Good(v) /\ v.c.control = w.c.control
      BY <3>1, <3>4, <3>6, <3>7, <3>9, <3>12 DEF Good, Like
    <3> QED BY <3>2, <3>13, DoneKeeps
  <2> QED BY <2>3, <2>4, <2>5
<1> QED BY <1>1, <1>2

LEMMA ServiceBufferedDoes ==
  ASSUME NEW w, Good(w), w.c.streaming, NEW o \in ServiceBuffered(w)
  PROVE  KeepsGood(w, o)
<1> DEFINE skip == ~buffered \/ w.c.wait_cont
                     \/ (w.c.prefill_frames < w.c.ready_frames /\ ~w.c.input_eof)
           first == IF w.c.wait_start THEN TellReady(w) ELSE Done(w)
           End(v) == TellEnd(v)
           Rest(u) == Then(ReleaseOutput(u), End)
<1>1. CASE skip
  <2>1. o \in Done(w)
    BY <1>1 DEF ServiceBuffered
  <2> QED BY <2>1, DoneKeeps
<1>2. CASE ~skip
  <2>1. o \in Then(first, Rest)
    BY <1>2 DEF ServiceBuffered
  <2>2. buffered /\ Reserve(w)
    <3>1. w.c.prefill_frames \in Nat /\ w.c.ready_frames \in Nat
      BY Parts, Ranges DEF Good, Sane, ClientType
    <3> QED BY <1>2, <3>1 DEF Reserve
  <2>3. ASSUME NEW q \in first
        PROVE  KeepsGood(w, q) /\ (q.ok => q.w.c.streaming /\ Reserve(q.w))
    <3>1. CASE w.c.wait_start
      BY <2>2, <2>3, <3>1, TellReadyDoes
    <3>2. CASE ~w.c.wait_start
      <4>1. q \in Done(w)
        BY <2>3, <3>2
      <4> QED BY <2>2, <4>1, DoneKeeps DEF Done
    <3> QED BY <3>1, <3>2
  <2> HIDE DEF first, Rest
  <2>4. \/ o \in first /\ ~o.ok
        \/ \E q \in first : q.ok /\ o \in Rest(q.w)
    BY <2>1 DEF Then
  <2>5. CASE o \in first /\ ~o.ok
    BY <2>3, <2>5
  <2>6. ASSUME NEW q \in first, q.ok, o \in Rest(q.w)
        PROVE  KeepsGood(w, o)
    <3> DEFINE u == q.w
    <3>1. Good(u) /\ u.c.control = w.c.control /\ u.c.streaming /\ Reserve(u)
      BY <2>3, <2>6 DEF KeepsGood
    <3>2. o \in Then(ReleaseOutput(u), End)
      BY <2>6 DEF Rest
    <3> HIDE DEF u, End
    <3>3. \/ o \in ReleaseOutput(u) /\ ~o.ok
          \/ \E r \in ReleaseOutput(u) : r.ok /\ o \in End(r.w)
      BY <3>2 DEF Then
    <3>4. ASSUME NEW r \in ReleaseOutput(u)
          PROVE  KeepsGood(u, r) /\ (r.ok => r.w.c.streaming)
      BY <2>2, <3>1, ReleaseOutputDoes
    <3>5. CASE o \in ReleaseOutput(u) /\ ~o.ok
      BY <3>4, <3>5 DEF KeepsGood
    <3>6. ASSUME NEW r \in ReleaseOutput(u), r.ok, o \in End(r.w)
          PROVE  KeepsGood(w, o)
      <4>1. Good(r.w) /\ r.w.c.control = w.c.control /\ r.w.c.streaming
        BY <3>1, <3>4, <3>6 DEF KeepsGood
      <4>2. o \in TellEnd(r.w)
        BY <3>6 DEF End
      <4>3. KeepsGood(r.w, o)
        BY <2>2, <4>1, <4>2, TellEndDoes
      <4> QED BY <4>1, <4>3 DEF KeepsGood
    <3> QED BY <3>3, <3>5, <3>6
  <2> QED BY <2>4, <2>5, <2>6
<1> QED BY <1>1, <1>2
----------------------------------------------------------------------------
(* From the HTTP socket to the ring. *)

LEMMA IngressFillDoes ==
  ASSUME NEW w, Good(w), w.c.http, NEW n \in Nat, NEW o \in IngressFill(w, n)
  PROVE  KeepsGood(w, o)
<1> DEFINE bytes == [i \in 1..n |-> <<w.h.stream, w.h.received + i>>]
           left == w.c.remaining - n
           rem == IF w.c.has_length THEN left ELSE w.c.remaining
           done == IF w.c.has_length THEN left = 0 ELSE w.c.body_done
           full == n > IngressBytes - Len(w.c.ingress) \/ (w.c.has_length /\ left < 0)
           k == [w.c EXCEPT !.ingress = w.c.ingress \o bytes, !.remaining = rem,
                            !.body_done = done]
           g == [w.h EXCEPT !.received = w.h.received + n]
           u == [w EXCEPT !.c = k]
           v == [u EXCEPT !.h = g]
<1>1. /\ w \in WorldType /\ Sane(w) /\ w.c.streaming /\ ~w.c.input_eof
      /\ w.out.active /\ ~w.out.finished
  BY WhileHttp
<1>2. /\ w.c \in ClientType /\ w.h \in HistoryType /\ w.c.ingress \in Seq(Byte)
      /\ w.c.remaining \in Nat /\ w.h.stream \in Nat /\ w.h.received \in Nat
      /\ w.c.has_length \in BOOLEAN /\ w.c.body_done \in BOOLEAN
  BY <1>1, Parts DEF ClientType, HistoryType
<1>3. \/ o \in Done(w)
      \/ o \in Failed(w)
      \/ ~full /\ o \in Done(v)
  <2>1. CASE n = 0
    BY <2>1 DEF IngressFill
  <2>2. CASE n # 0 /\ full
    BY <2>2 DEF IngressFill
  <2>3. CASE n # 0 /\ ~full
    <3> DEFINE x == [w EXCEPT !.c.ingress = w.c.ingress \o bytes, !.h.received = w.h.received + n,
                              !.c.remaining = rem, !.c.body_done = done]
    <3>1. o \in Done(x)
      BY <2>3 DEF IngressFill
    <3>2. x = v
      <4> HIDE DEF bytes, left, rem, done
      <4> QED BY <1>1, <1>2 DEF WorldType
    <3> QED BY <2>3, <3>1, <3>2
  <2> QED BY <2>1, <2>2, <2>3
<1>4. CASE o \in Done(w)
  BY <1>4, DoneKeeps
<1>5. CASE o \in Failed(w)
  BY <1>1, <1>5, FailedKeeps
<1>6. CASE ~full /\ o \in Done(v)
  <2>1. /\ bytes \in Seq(Byte)
        /\ Body(w.h.stream, w.h.received) \in Seq(Byte)
        /\ Body(w.h.stream, w.h.received) \o bytes = Body(w.h.stream, w.h.received + n)
    <3> DEFINE s == w.h.stream
               r == w.h.received
    <3>1. s \in Nat /\ r \in Nat /\ bytes = [i \in 1..n |-> <<s, r + i>>]
      BY <1>2
    <3> HIDE DEF s, r, bytes
    <3>2. /\ bytes \in Seq(Byte) /\ Body(s, r) \in Seq(Byte)
          /\ Body(s, r) \o bytes = Body(s, r + n)
      BY <3>1, BodyGrows
    <3> QED BY <3>2 DEF s, r
  <2>2. w.c.ingress \o bytes \in Seq(Byte)
    BY <1>2, <2>1, JoinBytes
  <2>3. rem \in Nat /\ done \in BOOLEAN /\ (w.c.has_length /\ done => rem = 0)
    <3>1. CASE w.c.has_length
      <4>1. rem = w.c.remaining - n /\ done = (rem = 0) /\ ~(rem < 0)
        BY <1>6, <3>1
      <4>2. rem \in Nat
        BY <1>2, <4>1
      <4> QED BY <4>1, <4>2
    <3>2. CASE ~w.c.has_length
      <4>1. rem = w.c.remaining /\ done = w.c.body_done
        BY <3>2
      <4> QED BY <1>2, <3>2, <4>1
    <3> QED BY <3>1, <3>2
  <2> DEFINE ing == w.c.ingress \o bytes
  <2> HIDE DEF bytes, left, rem, done, full, ing
  <2>4. k \in ClientType /\ k.ingress = ing /\ k.remaining = rem /\ k.body_done = done
    BY <1>2, <2>2, <2>3 DEF ClientType, ing
  <2>5. /\ k.control = w.c.control /\ k.http = w.c.http /\ k.streaming = w.c.streaming
        /\ k.output_released = w.c.output_released /\ k.input_eof = w.c.input_eof
        /\ k.eof_sent = w.c.eof_sent /\ k.ready_frames = w.c.ready_frames
        /\ k.prefill_frames = w.c.prefill_frames
    BY <1>2 DEF ClientType
  <2>6. /\ k.ready_sent = w.c.ready_sent /\ k.started_sent = w.c.started_sent
        /\ k.has_length = w.c.has_length /\ k.pcm = w.c.pcm /\ k.pcm_sent = w.c.pcm_sent
        /\ k.tail = w.c.tail
    BY <1>2 DEF ClientType
  <2> HIDE DEF k
  <2>7. /\ g \in HistoryType /\ g.received = w.h.received + n /\ g.stream = w.h.stream
        /\ g.residue = w.h.residue /\ g.delivered = w.h.delivered /\ g.told = w.h.told
        /\ g.twice = w.h.twice /\ g.refused = w.h.refused
    <3>1. w.h.received + n \in Nat
      BY <1>2
    <3> QED BY <1>2, <3>1 DEF HistoryType
  <2> HIDE DEF g
  <2>8. u \in WorldType /\ u.c = k /\ u.out = w.out
    BY <1>1, <2>4, SetC
  <2> HIDE DEF u
  <2>9. v \in WorldType /\ v.c = k /\ v.out = w.out /\ v.h = g
    BY <2>7, <2>8, SetH
  <2> HIDE DEF v
  <2>10. Sane(v)
    BY <1>1, <2>5, <2>7, <2>9 DEF Sane
  <2>11. OutputOK(v)
    BY <2>5, <2>9 DEF Good, OutputOK
  <2>12. TellsOK(v)
    BY <2>5, <2>6, <2>7, <2>9 DEF Good, TellsOK
  <2>13. BodyOK(v)
    BY <1>1, <2>3, <2>4, <2>5, <2>6, <2>9 DEF BodyOK
  <2>14. BytesOK(v)
    <3> DEFINE a == w.h.delivered \o Unsent(w) \o w.c.tail
               r == w.h.residue
               d == Body(w.h.stream, w.h.received)
               y == w.c.ingress
    <3>1. a \in Seq(Byte) /\ r \in Seq(Byte) /\ d \in Seq(Byte) /\ y \in Seq(Byte)
      <4>1. /\ w.h.delivered \in Seq(Byte) /\ Unsent(w) \in Seq(Byte) /\ w.c.tail \in Seq(Byte)
            /\ w.h.residue \in Seq(Byte)
        BY <1>1, <1>2, UnsentIs DEF ClientType, HistoryType
      <4>2. w.h.delivered \o Unsent(w) \in Seq(Byte)
        BY <4>1, JoinBytes
      <4> QED BY <1>2, <2>1, <4>1, <4>2, JoinBytes
    <3>2. a \o y = r \o d
      BY <1>1 DEF Good, BytesOK, Body
    <3>3. Unsent(v) = Unsent(w)
      BY <2>6, <2>9 DEF Unsent
    <3>4. v.h.delivered \o Unsent(v) \o v.c.tail \o v.c.ingress = a \o ing
      BY <2>4, <2>6, <2>7, <2>9, <3>3
    <3>5. v.h.residue \o Body(v.h.stream, v.h.received) = r \o (d \o bytes)
      BY <2>1, <2>7, <2>9
    <3> HIDE DEF a, r, d, y
    <3>6. a \o (y \o bytes) = (a \o y) \o bytes
      BY <2>1, <3>1, JoinBytes
    <3>7. (r \o d) \o bytes = r \o (d \o bytes)
      BY <2>1, <3>1, JoinBytes
    <3>8. a \o ing = r \o (d \o bytes)
      BY <3>2, <3>6, <3>7 DEF ing, y
    <3> QED BY <3>4, <3>5, <3>8 DEF BytesOK, Body
  <2>15. Good(v) /\ v.c.control = w.c.control
    BY <2>5, <2>9, <2>10, <2>11, <2>12, <2>13, <2>14 DEF Good
  <2> QED BY <1>6, <2>15, DoneKeeps
<1> QED BY <1>3, <1>4, <1>5, <1>6

(* The headers say how long the body is, or do not. *)
LEMMA LengthIs ==
  ASSUME NEW w, Good(w), w.c.http, NEW length \in Nat
  PROVE  LET v == [w EXCEPT !.c.headers_done = TRUE, !.c.has_length = TRUE,
                            !.c.remaining = length, !.c.body_done = (length = 0)]
         IN  Good(v) /\ v.c.http /\ v.c.control = w.c.control
<1> DEFINE z == (length = 0)
           k == [w.c EXCEPT !.headers_done = TRUE, !.has_length = TRUE,
                            !.remaining = length, !.body_done = z]
           v == [w EXCEPT !.c = k]
<1>1. /\ w \in WorldType /\ Sane(w) /\ w.c.streaming /\ ~w.c.input_eof
      /\ w.out.active /\ ~w.out.finished
  BY WhileHttp
<1>2. w.c \in ClientType
  BY <1>1, Parts
<1>3. [w EXCEPT !.c.headers_done = TRUE, !.c.has_length = TRUE,
                !.c.remaining = length, !.c.body_done = (length = 0)] = v
  BY <1>1, <1>2 DEF WorldType
<1>4. z \in BOOLEAN /\ (z => length = 0)
  OBVIOUS
<1> HIDE DEF z
<1>5. k \in ClientType /\ k.has_length = TRUE /\ k.remaining = length /\ k.body_done = z
  BY <1>2, <1>4 DEF ClientType
<1>6. /\ k.control = w.c.control /\ k.http = w.c.http /\ k.streaming = w.c.streaming
      /\ k.output_released = w.c.output_released /\ k.input_eof = w.c.input_eof
      /\ k.eof_sent = w.c.eof_sent /\ k.ready_frames = w.c.ready_frames
      /\ k.prefill_frames = w.c.prefill_frames
  BY <1>2 DEF ClientType
<1>7. /\ k.ready_sent = w.c.ready_sent /\ k.started_sent = w.c.started_sent
      /\ k.pcm = w.c.pcm /\ k.pcm_sent = w.c.pcm_sent
      /\ k.tail = w.c.tail /\ k.ingress = w.c.ingress
  BY <1>2 DEF ClientType
<1> HIDE DEF k
<1>8. v \in WorldType /\ v.c = k /\ v.out = w.out /\ v.h = w.h
  BY <1>1, <1>5, SetC
<1> HIDE DEF v
<1>9. Sane(v) /\ OutputOK(v)
  BY <1>1, <1>6, <1>8 DEF Good, Sane, OutputOK
<1>10. TellsOK(v)
  BY <1>6, <1>7, <1>8 DEF Good, TellsOK
<1>11. BodyOK(v)
  BY <1>1, <1>4, <1>5, <1>6, <1>8 DEF BodyOK
<1>12. Unsent(v) = Unsent(w)
  BY <1>7, <1>8 DEF Unsent
<1>13. BytesOK(v)
  BY <1>6, <1>7, <1>8, <1>12 DEF Good, BytesOK
<1> QED BY <1>3, <1>6, <1>8, <1>9, <1>10, <1>11, <1>13 DEF Good

LEMMA HeadersDoes ==
  ASSUME NEW w, Good(w), w.c.http, NEW o \in Headers(w)
  PROVE  KeepsGood(w, o) /\ (o.ok => o.w.c.http)
<1> DEFINE Length(l) == [w EXCEPT !.c.headers_done = TRUE, !.c.has_length = TRUE,
                                  !.c.remaining = l, !.c.body_done = (l = 0)]
           plain == [w EXCEPT !.c.headers_done = TRUE]
           parsed == {plain} \cup {Length(l) : l \in 0..MaxBody}
<1>1. w \in WorldType /\ Sane(w)
  BY WhileHttp
<1>2. o \in Failed(w) \cup UNION {Enqueue(u) : u \in parsed}
  BY DEF Headers
<1>3. Good(plain) /\ plain.c.http /\ plain.c.control = w.c.control
  <2>1. Alike(w, plain)
    BY <1>1, SetHeadersDone
  <2> HIDE DEF plain
  <2> QED BY <2>1, AlikeGood DEF Alike, Like
<1>4. ASSUME NEW l \in 0..MaxBody
      PROVE  Good(Length(l)) /\ Length(l).c.http /\ Length(l).c.control = w.c.control
  <2>1. l \in Nat
    BY Constants
  <2> QED BY <2>1, LengthIs
<1> HIDE DEF plain, Length
<1>5. \A u \in parsed : Good(u) /\ u.c.http /\ u.c.control = w.c.control
  BY <1>3, <1>4
<1> HIDE DEF parsed
<1>6. o \in Failed(w) \/ \E u \in parsed : o \in Enqueue(u)
  BY <1>2
<1>7. CASE o \in Failed(w)
  BY <1>1, <1>7, FailedKeeps DEF Failed
<1>8. ASSUME NEW u \in parsed, o \in Enqueue(u)
      PROVE  KeepsGood(w, o) /\ (o.ok => o.w.c.http)
  <2>1. Good(u) /\ u.c.http /\ u.c.control = w.c.control
    BY <1>5
  <2>2. Alike(u, o.w)
    BY <1>8, <2>1, EnqueueDoes DEF Good, Sane
  <2>3. Good(o.w) /\ o.w.c.http /\ o.w.c.control = w.c.control
    BY <2>1, <2>2, AlikeGood DEF Alike, Like
  <2> QED BY <2>3 DEF KeepsGood, Good
<1> QED BY <1>6, <1>7, <1>8

LEMMA HttpDataDoes ==
  ASSUME NEW w, Good(w), w.c.http, NEW o \in HttpData(w)
  PROVE  KeepsGood(w, o)
<1> DEFINE most == Min({RxBytes, IngressBytes - Len(w.c.ingress), MaxBody - w.h.received})
           Fill(u) == UNION {IngressFill(u, n) : n \in 0..most}
<1>1. w \in WorldType /\ Sane(w)
  BY WhileHttp
<1>2. most \in Int
  <2> DEFINE x == IngressBytes - Len(w.c.ingress)
             y == MaxBody - w.h.received
  <2>1. x \in Int /\ y \in Int /\ RxBytes \in Int
    BY <1>1, Parts, Constants, EmptyBytes DEF ClientType, HistoryType
  <2> HIDE DEF x, y
  <2>2. Min({RxBytes, x, y}) \in {RxBytes, x, y}
    BY <2>1, MinOfThree
  <2>3. Min({RxBytes, x, y}) \in Int
    BY <2>1, <2>2
  <2> QED BY <2>3 DEF x, y
<1>3. \/ \E n \in 1..most : o \in IngressFill(w, n)
      \/ o \in Done(w)
      \/ o \in Then(Headers(w), Fill)
  <2>1. CASE w.c.headers_done
    <3>1. o \in UNION {IngressFill(w, n) : n \in 1..most}
      BY <2>1 DEF HttpData
    <3> HIDE DEF most
    <3> QED BY <3>1
  <2>2. CASE ~w.c.headers_done
    BY <2>2 DEF HttpData
  <2> QED BY <2>1, <2>2
<1> HIDE DEF most
<1>4. ASSUME NEW n \in 1..most, o \in IngressFill(w, n) PROVE KeepsGood(w, o)
  <2>1. n \in Nat
    BY <1>2
  <2> QED BY <1>4, <2>1, IngressFillDoes
<1>5. CASE o \in Done(w)
  BY <1>5, DoneKeeps
<1>6. CASE o \in Then(Headers(w), Fill)
  <2> HIDE DEF Fill
  <2>1. \/ o \in Headers(w) /\ ~o.ok
        \/ \E q \in Headers(w) : q.ok /\ o \in Fill(q.w)
    BY <1>6 DEF Then
  <2>2. CASE o \in Headers(w) /\ ~o.ok
    BY <2>2, HeadersDoes
  <2>3. ASSUME NEW q \in Headers(w), q.ok, o \in Fill(q.w) PROVE KeepsGood(w, o)
    <3> DEFINE u == q.w
    <3>1. Good(u) /\ u.c.http /\ u.c.control = w.c.control
      BY <2>3, HeadersDoes DEF KeepsGood
    <3> HIDE DEF u
    <3>2. PICK n \in 0..most : o \in IngressFill(u, n)
      BY <2>3 DEF Fill, u
    <3>3. n \in Nat
      BY <1>2
    <3>4. KeepsGood(u, o)
      BY <3>1, <3>2, <3>3, IngressFillDoes
    <3> QED BY <3>1, <3>4 DEF KeepsGood
  <2> QED BY <2>1, <2>2, <2>3
<1> QED BY <1>3, <1>4, <1>5, <1>6

LEMMA SetBodyDone ==
  ASSUME NEW w \in WorldType, NEW b \in BOOLEAN
  PROVE  LET u == [w EXCEPT !.c.body_done = b] IN
         /\ u \in WorldType /\ u.out = w.out /\ u.h = w.h /\ u.c.body_done = b
         /\ u.c.control = w.c.control /\ u.c.http = w.c.http
         /\ u.c.streaming = w.c.streaming
         /\ u.c.output_released = w.c.output_released
         /\ u.c.input_eof = w.c.input_eof /\ u.c.eof_sent = w.c.eof_sent
         /\ u.c.prefill_frames = w.c.prefill_frames
         /\ u.c.ready_frames = w.c.ready_frames /\ u.c.pcm = w.c.pcm
         /\ u.c.pcm_sent = w.c.pcm_sent /\ u.c.ready_sent = w.c.ready_sent
         /\ u.c.started_sent = w.c.started_sent /\ u.c.has_length = w.c.has_length
         /\ u.c.remaining = w.c.remaining /\ u.c.tail = w.c.tail
         /\ u.c.ingress = w.c.ingress
<1> DEFINE k == [w.c EXCEPT !.body_done = b]
           u == [w EXCEPT !.c = k]
<1>1. [w EXCEPT !.c.body_done = b] = u
  OBVIOUS
<1>2. w.c \in ClientType
  BY Parts
<1>3. k \in ClientType /\ k.body_done = b
  BY <1>2 DEF ClientType
<1>4. /\ k.control = w.c.control /\ k.http = w.c.http /\ k.streaming = w.c.streaming
      /\ k.output_released = w.c.output_released /\ k.input_eof = w.c.input_eof
      /\ k.eof_sent = w.c.eof_sent /\ k.prefill_frames = w.c.prefill_frames
      /\ k.ready_frames = w.c.ready_frames
  BY <1>2 DEF ClientType
<1>5. /\ k.pcm = w.c.pcm /\ k.pcm_sent = w.c.pcm_sent
      /\ k.ready_sent = w.c.ready_sent /\ k.started_sent = w.c.started_sent
      /\ k.has_length = w.c.has_length /\ k.remaining = w.c.remaining
      /\ k.tail = w.c.tail /\ k.ingress = w.c.ingress
  BY <1>2 DEF ClientType
<1> HIDE DEF k
<1>6. u \in WorldType /\ u.out = w.out /\ u.h = w.h /\ u.c = k
  BY <1>3, SetC
<1> HIDE DEF u
<1> QED BY <1>1, <1>3, <1>4, <1>5, <1>6

LEMMA HttpEofDoes ==
  ASSUME NEW w, Good(w), w.c.http, NEW o \in HttpEof(w)
  PROVE  KeepsGood(w, o)
<1> DEFINE bad == ~w.c.headers_done \/ (w.c.has_length /\ w.c.remaining > 0)
           v == [w EXCEPT !.c.body_done = TRUE]
<1>1. /\ w \in WorldType /\ Sane(w) /\ w.c.streaming /\ ~w.c.input_eof
  BY WhileHttp
<1>2. CASE bad
  <2>1. o \in Failed(w)
    BY <1>2 DEF HttpEof
  <2> QED BY <1>1, <2>1, FailedKeeps
<1>3. CASE ~bad
  <2>1. o \in Done(v)
    BY <1>3 DEF HttpEof
  <2>2. w.c.has_length => w.c.remaining = 0
    <3>1. w.c.remaining \in Nat
      BY <1>1, Parts DEF ClientType
    <3> QED BY <1>3, <3>1
  <2>3. /\ v \in WorldType /\ v.out = w.out /\ v.h = w.h /\ v.c.body_done = TRUE
        /\ v.c.control = w.c.control /\ v.c.http = w.c.http /\ v.c.streaming = w.c.streaming
        /\ v.c.output_released = w.c.output_released /\ v.c.input_eof = w.c.input_eof
        /\ v.c.eof_sent = w.c.eof_sent /\ v.c.prefill_frames = w.c.prefill_frames
        /\ v.c.ready_frames = w.c.ready_frames
        /\ v.c.pcm = w.c.pcm /\ v.c.pcm_sent = w.c.pcm_sent
        /\ v.c.ready_sent = w.c.ready_sent /\ v.c.started_sent = w.c.started_sent
        /\ v.c.has_length = w.c.has_length /\ v.c.remaining = w.c.remaining
        /\ v.c.tail = w.c.tail /\ v.c.ingress = w.c.ingress
    BY <1>1, SetBodyDone
  <2> HIDE DEF v
  <2>4. Sane(v) /\ OutputOK(v)
    BY <1>1, <2>3 DEF Good, Sane, OutputOK
  <2>5. TellsOK(v)
    BY <2>3 DEF Good, TellsOK
  <2>6. BodyOK(v)
    BY <1>1, <2>2, <2>3 DEF BodyOK
  <2>7. Unsent(v) = Unsent(w)
    BY <2>3 DEF Unsent
  <2>8. BytesOK(v)
    BY <2>3, <2>7 DEF Good, BytesOK
  <2> QED BY <2>1, <2>3, <2>4, <2>5, <2>6, <2>8, DoneKeeps DEF Good
<1> QED BY <1>2, <1>3

LEMMA HttpIoDoes ==
  ASSUME NEW w, Good(w), w.c.http, NEW o \in HttpIo(w)
  PROVE  KeepsGood(w, o)
<1> DEFINE v == [w EXCEPT !.c.request_sent = TRUE]
<1>1. w \in WorldType /\ Sane(w)
  BY WhileHttp
<1>2. \/ o \in Done(w) \/ o \in Failed(w) \/ o \in Done(v)
      \/ o \in HttpData(w) \/ o \in HttpEof(w)
  BY DEF HttpIo
<1>3. Alike(w, v)
  BY <1>1, SetRequestSent
<1> HIDE DEF v
<1>4. Good(v) /\ v.c.control = w.c.control
  BY <1>3, AlikeGood DEF Alike, Like
<1>5. CASE o \in Done(w) \/ o \in Failed(w) \/ o \in Done(v)
  BY <1>1, <1>4, <1>5, DoneKeeps, FailedKeeps
<1> QED BY <1>2, <1>5, HttpDataDoes, HttpEofDoes

(* The end of a complete body: the output has it all. *)
LEMMA EndInputDoes ==
  ASSUME NEW w, Good(w), w.c.http, Complete(w), buffered \in BOOLEAN, NEW o \in EndInput(w)
  PROVE  KeepsGood(w, o)
<1> DEFINE p == [w.out EXCEPT !.finished = TRUE]
           k == [w.c EXCEPT !.input_eof = TRUE, !.http = FALSE]
           u == [w EXCEPT !.out = p]
           v == [u EXCEPT !.c = k]
<1>1. /\ w \in WorldType /\ Sane(w) /\ w.c.streaming /\ ~w.c.input_eof
      /\ w.out.active /\ ~w.out.finished
  BY WhileHttp
<1>2. w.c \in ClientType /\ w.out \in OutputType
  BY <1>1, Parts
<1>3. CASE w.c.tail # <<>>
  <2>1. o \in Failed(w)
    BY <1>3 DEF EndInput
  <2> QED BY <1>1, <2>1, FailedKeeps
<1>4. CASE w.c.tail = <<>>
  <2>1. o \in (IF buffered THEN ServiceBuffered(v) ELSE Status(v, "STMd"))
    <3>1. Misused(w, ~w.out.active \/ w.out.finished) = w
      BY <1>1, MisusedNot
    <3>2. OutEof(w) = u
      BY <3>1 DEF OutEof
    <3> DEFINE x == [u EXCEPT !.c.input_eof = TRUE, !.c.http = FALSE]
    <3>3. o \in (IF buffered THEN ServiceBuffered(x) ELSE Status(x, "STMd"))
      BY <1>4, <3>2 DEF EndInput
    <3>4. u \in WorldType /\ u.c = w.c
      <4>1. p \in OutputType
        BY <1>2 DEF OutputType
      <4> QED BY <1>1, <4>1, SetOut
    <3> HIDE DEF u
    <3>5. x = v
      BY <3>4
    <3> QED BY <3>3, <3>5
  <2>2. /\ p \in OutputType /\ p.active = w.out.active /\ p.held = w.out.held
        /\ p.finished = TRUE /\ p.played = w.out.played
        /\ p.queued = w.out.queued /\ p.misuse = w.out.misuse
    BY <1>2 DEF OutputType
  <2> HIDE DEF p
  <2>3. u \in WorldType /\ u.c = w.c /\ u.out = p /\ u.h = w.h
    BY <1>1, <2>2, SetOut
  <2> HIDE DEF u
  <2>4. /\ k \in ClientType /\ k.input_eof = TRUE /\ k.http = FALSE
        /\ k.control = w.c.control /\ k.streaming = w.c.streaming
    BY <1>2 DEF ClientType
  <2>5. /\ k.output_released = w.c.output_released /\ k.eof_sent = w.c.eof_sent
        /\ k.prefill_frames = w.c.prefill_frames /\ k.ready_frames = w.c.ready_frames
        /\ k.pcm = w.c.pcm /\ k.pcm_sent = w.c.pcm_sent /\ k.body_done = w.c.body_done
    BY <1>2 DEF ClientType
  <2>6. /\ k.ready_sent = w.c.ready_sent /\ k.started_sent = w.c.started_sent
        /\ k.has_length = w.c.has_length /\ k.remaining = w.c.remaining
        /\ k.tail = w.c.tail /\ k.ingress = w.c.ingress
    BY <1>2 DEF ClientType
  <2> HIDE DEF k
  <2>7. v \in WorldType /\ v.c = k /\ v.out = p /\ v.h = w.h
    BY <2>3, <2>4, SetC
  <2> HIDE DEF v
  <2>8. Sane(v) /\ v.c.streaming /\ v.c.control = w.c.control
    BY <1>1, <2>2, <2>4, <2>7 DEF Sane
  <2>9. OutputOK(v)
    BY <1>1, <2>2, <2>4, <2>5, <2>7 DEF Good, OutputOK
  <2>10. Unsent(v) = Unsent(w)
    BY <2>5, <2>7 DEF Unsent
  <2>11. BodyOK(v)
    BY <1>1, <1>4, <2>4, <2>5, <2>6, <2>7, <2>10 DEF Good, BodyOK, Complete
  <2>12. BytesOK(v)
    BY <2>4, <2>6, <2>7, <2>10 DEF Good, BytesOK
  <2>13. "STMd" \notin v.h.told /\ ~v.c.eof_sent
    BY <1>1, <2>5, <2>7 DEF Good, TellsOK
  <2>14. CASE buffered
    <3>1. TellsOK(v)
      BY <1>1, <2>2, <2>4, <2>5, <2>6, <2>7, <2>13, <2>14 DEF Good, TellsOK
    <3>2. Good(v)
      BY <2>8, <2>9, <2>11, <2>12, <3>1 DEF Good
    <3>3. o \in ServiceBuffered(v)
      BY <2>1, <2>14
    <3>4. KeepsGood(v, o)
      BY <2>8, <3>2, <3>3, ServiceBufferedDoes
    <3> QED BY <2>8, <3>4 DEF KeepsGood
  <2>15. CASE ~buffered
    <3>1. o \in Status(v, "STMd")
      BY <2>1, <2>15
    <3>2. /\ Sane(o.w) /\ Like(v.c, o.w.c) /\ o.w.out = v.out
          /\ o.w.h.stream = v.h.stream /\ o.w.h.residue = v.h.residue
          /\ o.w.h.received = v.h.received /\ o.w.h.delivered = v.h.delivered
          /\ o.ok => o.w.h.told = v.h.told \cup (Once \cap {"STMd"})
      BY <2>8, <2>13, <3>1, StatusOnce
    <3>3. OutputOK(o.w) /\ BodyOK(o.w) /\ BytesOK(o.w)
      BY <2>9, <2>11, <2>12, <3>2, UnreportedOK
    <3>4. ASSUME o.ok PROVE TellsOK(o.w)
      <4>1. o.w.h.told = w.h.told \cup {"STMd"}
        BY <2>7, <3>2, <3>4 DEF Once
      <4> QED BY <1>1, <2>2, <2>4, <2>5, <2>6, <2>7, <2>15, <3>2, <4>1 DEF Good, TellsOK, Like
    <3>5. o.w.c.control = w.c.control
      BY <2>8, <3>2 DEF Like
    <3> QED BY <3>2, <3>3, <3>4, <3>5 DEF Good, KeepsGood
  <2> QED BY <2>14, <2>15
<1> QED BY <1>3, <1>4

(* pump_http keeps the invariant or ends the session. *)
LEMMA PumpHttpDoes ==
  ASSUME NEW w, Good(w), buffered \in BOOLEAN, NEW o \in PumpHttp(w)
  PROVE  KeepsGood(w, o)
<1> DEFINE Io(v) == IF Complete(v) THEN EndInput(v)
                    ELSE IF v.c.body_done \/ Len(v.c.ingress) >= IngressBytes THEN Done(v)
                    ELSE HttpIo(v)
           Rest(u) == IF ~u.c.http \/ (u.c.headers_done /\ u.c.wait_cont) THEN Done(u)
                      ELSE IF KeepsBytes(u) THEN TellReady(u)
                      ELSE Then(DrainChunk(u), Io)
<1>1. CASE ~w.c.streaming
  <2>1. o \in Done(w)
    BY <1>1 DEF PumpHttp
  <2> QED BY <2>1, DoneKeeps
<1>2. CASE w.c.streaming
  <2>1. o \in Then(ServiceBuffered(w), Rest)
    BY <1>2 DEF PumpHttp
  <2> HIDE DEF Rest
  <2>2. \/ o \in ServiceBuffered(w) /\ ~o.ok
        \/ \E q \in ServiceBuffered(w) : q.ok /\ o \in Rest(q.w)
    BY <2>1 DEF Then
  <2>3. CASE o \in ServiceBuffered(w) /\ ~o.ok
    BY <1>2, <2>3, ServiceBufferedDoes
  <2>4. ASSUME NEW q \in ServiceBuffered(w), q.ok, o \in Rest(q.w) PROVE KeepsGood(w, o)
    <3> DEFINE u == q.w
    <3>1. Good(u) /\ u.c.control = w.c.control
      BY <1>2, <2>4, ServiceBufferedDoes DEF KeepsGood
    <3>2. \/ o \in Done(u)
          \/ u.c.http /\ KeepsBytes(u) /\ o \in TellReady(u)
          \/ u.c.http /\ o \in Then(DrainChunk(u), Io)
      BY <2>4 DEF Rest
    <3> HIDE DEF u, Io
    <3>3. CASE o \in Done(u)
      BY <3>1, <3>3, DoneKeeps
    <3>4. CASE u.c.http /\ KeepsBytes(u) /\ o \in TellReady(u)
      <4>1. u.c.streaming /\ Reserve(u)
        BY <3>1, <3>4, WhileHttp DEF KeepsBytes, Reserve
      <4>2. KeepsGood(u, o)
        BY <3>1, <3>4, <4>1, TellReadyDoes
      <4> QED BY <3>1, <4>2 DEF KeepsGood
    <3>5. CASE u.c.http /\ o \in Then(DrainChunk(u), Io)
      <4>1. \/ o \in DrainChunk(u) /\ ~o.ok
            \/ \E r \in DrainChunk(u) : r.ok /\ o \in Io(r.w)
        BY <3>5 DEF Then
      <4>2. CASE o \in DrainChunk(u) /\ ~o.ok
        <5>1. KeepsGood(u, o)
          BY <3>1, <3>5, <4>2, DrainChunkDoes
        <5> QED BY <3>1, <5>1 DEF KeepsGood
      <4>3. ASSUME NEW r \in DrainChunk(u), r.ok, o \in Io(r.w) PROVE KeepsGood(w, o)
        <5> DEFINE v == r.w
        <5>1. Good(v) /\ v.c.http /\ v.c.control = w.c.control
          BY <3>1, <3>5, <4>3, DrainChunkDoes DEF KeepsGood
        <5>2. \/ Complete(v) /\ o \in EndInput(v)
              \/ o \in Done(v)
              \/ o \in HttpIo(v)
          BY <4>3 DEF Io
        <5> HIDE DEF v
        <5>3. KeepsGood(v, o)
          BY <5>1, <5>2, EndInputDoes, HttpIoDoes, DoneKeeps
        <5> QED BY <5>1, <5>3 DEF KeepsGood
      <4> QED BY <4>1, <4>2, <4>3
    <3> QED BY <3>2, <3>3, <3>4, <3>5
  <2> QED BY <2>2, <2>3, <2>4
<1> QED BY <1>1, <1>2
----------------------------------------------------------------------------
(* The transport thread. *)

LEMMA ReportPlaybackDoes ==
  ASSUME NEW w, Good(w), w.out.active, NEW o \in ReportPlayback(w)
  PROVE  KeepsGood(w, o)
<1> DEFINE Rest(u) == Done([u EXCEPT !.c.started_sent = TRUE])
<1>1. Sane(w) /\ w.c.streaming /\ ~(w.c.started_sent /\ ~w.out.played)
  BY DEF Good, Sane, TellsOK
<1>2. CASE w.out.played /\ ~w.c.started_sent
  <2>1. o \in Then(Status(w, "STMs"), Rest)
    BY <1>1, <1>2 DEF ReportPlayback
  <2>2. "STMs" \notin w.h.told
    BY <1>1, <1>2 DEF Good, TellsOK
  <2> HIDE DEF Rest
  <2>3. \/ o \in Status(w, "STMs") /\ ~o.ok
        \/ \E q \in Status(w, "STMs") : q.ok /\ o \in Rest(q.w)
    BY <2>1 DEF Then
  <2>4. CASE o \in Status(w, "STMs") /\ ~o.ok
    BY <1>1, <2>2, <2>4, StatusOnce DEF KeepsGood
  <2>5. ASSUME NEW q \in Status(w, "STMs"), q.ok, o \in Rest(q.w)
        PROVE  KeepsGood(w, o)
    <3> DEFINE u == q.w
               v == [u EXCEPT !.c.started_sent = TRUE]
    <3>1. /\ Sane(u) /\ Like(w.c, u.c) /\ u.out = w.out
          /\ u.h.stream = w.h.stream /\ u.h.residue = w.h.residue
          /\ u.h.received = w.h.received /\ u.h.delivered = w.h.delivered
          /\ u.h.told = w.h.told \cup (Once \cap {"STMs"})
      BY <1>1, <2>2, <2>5, StatusOnce
    <3>2. o \in Done(v)
      BY <2>5 DEF Rest
    <3> HIDE DEF u
    <3>3. u \in WorldType
      BY <3>1 DEF Sane
    <3>4. /\ v \in WorldType /\ v.out = u.out /\ v.h = u.h /\ v.c.started_sent = TRUE
          /\ v.c.control = u.c.control /\ v.c.http = u.c.http
          /\ v.c.streaming = u.c.streaming /\ v.c.output_released = u.c.output_released
          /\ v.c.input_eof = u.c.input_eof /\ v.c.eof_sent = u.c.eof_sent
          /\ v.c.prefill_frames = u.c.prefill_frames
          /\ v.c.ready_frames = u.c.ready_frames
          /\ v.c.pcm = u.c.pcm /\ v.c.pcm_sent = u.c.pcm_sent
          /\ v.c.body_done = u.c.body_done /\ v.c.ready_sent = u.c.ready_sent
          /\ v.c.has_length = u.c.has_length /\ v.c.remaining = u.c.remaining
          /\ v.c.tail = u.c.tail /\ v.c.ingress = u.c.ingress
      BY <3>3, SetStartedSent
    <3> HIDE DEF v
    <3>5. OutputOK(u) /\ BodyOK(u) /\ BytesOK(u)
      BY <3>1, UnreportedOK DEF Good
    <3>6. Sane(v)
      BY <3>1, <3>4 DEF Sane
    <3>7. OutputOK(v)
      BY <3>4, <3>5 DEF OutputOK
    <3>8. Unsent(v) = Unsent(u)
      BY <3>4 DEF Unsent
    <3>9. BodyOK(v) /\ BytesOK(v)
      BY <3>4, <3>5, <3>8 DEF BodyOK, BytesOK
    <3>10. v.h.told = w.h.told \cup {"STMs"}
      BY <3>1, <3>4 DEF Once
    <3>11. TellsOK(v)
      BY <1>2, <3>1, <3>4, <3>10 DEF Good, TellsOK, Like
    <3>12. Good(v) /\ v.c.control = w.c.control
      BY <3>1, <3>4, <3>6, <3>7, <3>9, <3>11 DEF Good, Like
    <3> QED BY <3>2, <3>12, DoneKeeps
  <2> QED BY <2>3, <2>4, <2>5
<1>3. CASE ~(w.out.played /\ ~w.c.started_sent)
  <2>1. o \in Status(w, "STMt") /\ "STMt" \notin Once
    BY <1>1, <1>3 DEF ReportPlayback, Once
  <2> QED BY <2>1, StatusKeeps
<1> QED BY <1>2, <1>3

LEMMA WorldIs == World.c = c /\ World.out = out /\ World.h = h
  BY DEF World

LEMMA Becoming ==
  ASSUME NEW u, Good(u), Becomes(u), buffered' = buffered
  PROVE  Good(World)'
<1>1. World' = u
  BY DEF World, Becomes, Good, Sane, WorldType
<1>2. Sane(World)'
  BY <1>1 DEF Good, Sane, WorldType, ClientType, OutputType, HistoryType
<1>3. OutputOK(World)' /\ TellsOK(World)'
  BY <1>1 DEF Good, OutputOK, TellsOK
<1>4. BodyOK(World)' /\ BytesOK(World)'
  BY <1>1 DEF Good, BodyOK, BytesOK, Unsent
<1> QED BY <1>2, <1>3, <1>4 DEF Good

(* A step all of whose outcomes keep the invariant keeps it, failed or not. *)
LEMMA ContinueKeeps ==
  ASSUME LmsInv, c.control, NEW S, NEW next \in {"idle", "recv"}, Continue(S, next),
         \A o \in S : KeepsGood(World, o)
  PROVE  LmsInv'
<1>1. PICK o \in S : IF o.ok THEN Becomes(o.w) /\ place' = next
                             ELSE Becomes(Close(o.w)) /\ place' = "idle"
  BY DEF Continue
<1>2. KeepsGood(World, o) /\ buffered' = buffered /\ buffered \in BOOLEAN
  BY DEF Continue, LmsInv
<1>3. CASE o.ok
  <2>1. Good(o.w) /\ o.w.c.control = World.c.control /\ Becomes(o.w) /\ place' = next
    BY <1>1, <1>2, <1>3 DEF KeepsGood
  <2>2. Good(World)'
    BY <1>2, <2>1, Becoming
  <2>3. c' = o.w.c
    BY <2>1 DEF Becomes
  <2>4. c'.control
    BY <1>3, <2>1, <2>3, WorldIs
  <2> QED BY <1>2, <2>1, <2>2, <2>4 DEF LmsInv
<1>4. CASE ~o.ok
  <2> DEFINE z == Close(o.w)
  <2>1. Good(z) /\ ~z.c.control /\ ~z.c.streaming
    BY <1>2, CloseDoes DEF KeepsGood
  <2>2. Becomes(z) /\ place' = "idle"
    BY <1>1, <1>4
  <2> HIDE DEF z
  <2>3. Good(World)'
    BY <1>2, <2>1, <2>2, Becoming
  <2>4. ~c'.streaming
    BY <2>1, <2>2 DEF Becomes
  <2> QED BY <1>2, <2>2, <2>3, <2>4 DEF LmsInv
<1> QED BY <1>3, <1>4

LEMMA PlayKeeps == ASSUME LmsInv, Play PROVE LmsInv'
<1> DEFINE p == [out EXCEPT !.queued = out.queued - 1, !.played = TRUE]
           u == [World EXCEPT !.out = p]
<1>1. Good(World) /\ World \in WorldType /\ out \in OutputType
  BY Parts, WorldIs DEF LmsInv, Good, Sane
<1>2. ~out.held /\ out.queued > 0 /\ out' = p /\ UNCHANGED <<c, h, place, buffered>>
  BY DEF Play
<1>3. out.queued - 1 \in FrameRange
  BY <1>1, <1>2, Constants DEF OutputType, FrameRange
<1>4. /\ p \in OutputType /\ p.active = out.active /\ p.held = out.held
      /\ p.finished = out.finished /\ p.played = TRUE /\ p.misuse = out.misuse
  BY <1>1, <1>3 DEF OutputType
<1> HIDE DEF p
<1>5. u \in WorldType /\ u.c = c /\ u.out = p /\ u.h = h
  BY <1>1, <1>4, SetOut, WorldIs
<1> HIDE DEF u
<1>6. Sane(u)
  BY <1>1, <1>4, <1>5, WorldIs DEF Good, Sane
<1>7. OutputOK(u)
  BY <1>1, <1>2, <1>4, <1>5, WorldIs DEF Good, OutputOK
<1>8. TellsOK(u)
  BY <1>1, <1>4, <1>5, WorldIs DEF Good, TellsOK
<1>9. Unsent(u) = Unsent(World)
  BY <1>5, WorldIs DEF Unsent
<1>10. BodyOK(u) /\ BytesOK(u)
  BY <1>1, <1>5, <1>9, WorldIs DEF Good, BodyOK, BytesOK
<1>11. Good(u) /\ Becomes(u)
  BY <1>2, <1>5, <1>6, <1>7, <1>8, <1>10 DEF Good, Becomes
<1>12. Good(World)'
  BY <1>2, <1>11, Becoming
<1> QED BY <1>2, <1>12 DEF LmsInv

LEMMA ConnectKeeps == ASSUME LmsInv, Connect PROVE LmsInv'
<1> DEFINE k == [c EXCEPT !.control = TRUE, !.tx = 1]
           u == [World EXCEPT !.c = k]
<1>1. Good(World) /\ World \in WorldType /\ c \in ClientType
  BY Parts, WorldIs DEF LmsInv, Good, Sane
<1>2. ~c.streaming /\ ~c.http
  BY <1>1, WorldIs DEF LmsInv, Connect, Good, OutputOK
<1>3. [World EXCEPT !.c.control = TRUE, !.c.tx = 1] = u
  BY <1>1, WorldIs DEF WorldType
<1>4. Becomes(u) /\ place' = "idle" /\ buffered' = buffered
  <2> DEFINE x == [World EXCEPT !.c.control = TRUE, !.c.tx = 1]
  <2>1. Continue(Done(x), "idle")
    BY DEF Connect
  <2> HIDE DEF x, u
  <2>2. Becomes(x) /\ place' = "idle" /\ buffered' = buffered
    BY <2>1 DEF Continue, Done
  <2> QED BY <1>3, <2>2 DEF x
<1>5. k \in ClientType /\ k.control = TRUE /\ k.streaming = c.streaming /\ k.http = c.http
  BY <1>1, Ranges DEF ClientType
<1> HIDE DEF k
<1>6. u \in WorldType /\ u.c = k /\ u.out = out /\ u.h = h
  BY <1>1, <1>5, SetC, WorldIs
<1> HIDE DEF u
<1>7. Sane(u)
  BY <1>1, <1>2, <1>5, <1>6, WorldIs DEF Good, Sane
<1>8. OutputOK(u) /\ TellsOK(u) /\ BodyOK(u) /\ BytesOK(u)
  BY <1>2, <1>5, <1>6 DEF OutputOK, TellsOK, BodyOK, BytesOK
<1>9. Good(World)'
  BY <1>4, <1>7, <1>8, Becoming DEF Good
<1>10. c'.control
  BY <1>4, <1>5, <1>6 DEF Becomes
<1> QED BY <1>4, <1>9, <1>10 DEF LmsInv

LEMMA StepSendKeeps == ASSUME LmsInv, StepSend PROVE LmsInv'
<1> DEFINE Sent(n) == [World EXCEPT !.c.tx = n]
           S == Failed(World) \cup UNION {Done(Sent(n)) : n \in 0..c.tx}
<1>1. Good(World) /\ Sane(World) /\ World \in WorldType /\ c \in ClientType /\ c.control
  BY Parts, WorldIs DEF LmsInv, Good, Sane, StepSend
<1>2. Continue(S, "recv")
  BY DEF StepSend
<1>3. ASSUME NEW o \in S PROVE KeepsGood(World, o)
  <2>1. o \in Failed(World) \/ \E n \in 0..c.tx : o \in Done(Sent(n))
    BY <1>3
  <2>2. ASSUME NEW n \in 0..c.tx, o \in Done(Sent(n)) PROVE KeepsGood(World, o)
    <3>1. n \in TxRange
      BY <1>1, Constants DEF ClientType, TxRange
    <3>2. Alike(World, Sent(n))
      BY <1>1, <3>1, SetTx
    <3> HIDE DEF Sent
    <3>3. Good(Sent(n)) /\ Sent(n).c.control = World.c.control
      BY <1>1, <3>2, AlikeGood DEF Alike, Like
    <3> QED BY <2>2, <3>3, DoneKeeps
  <2>3. CASE o \in Failed(World)
    BY <1>1, <2>3, FailedKeeps
  <2> QED BY <2>1, <2>2, <2>3
<1> HIDE DEF S
<1> QED BY <1>1, <1>2, <1>3, ContinueKeeps

LEMMA StepsKeep ==
  ASSUME LmsInv, StepCommand \/ StepPump \/ Report \/ Disconnect
  PROVE  LmsInv'
<1>1. Good(World) /\ Sane(World) /\ buffered \in BOOLEAN
  BY DEF LmsInv, Good
<1>2. c.control
  BY DEF LmsInv, StepCommand, StepPump, Report, Disconnect
<1>3. CASE StepCommand
  <2>1. Continue(Command(World), "recv")
    BY <1>3 DEF StepCommand
  <2>2. \A o \in Command(World) : KeepsGood(World, o)
    BY <1>1, CommandDoes
  <2> QED BY <1>2, <2>1, <2>2, ContinueKeeps
<1>4. CASE StepPump
  <2>1. Continue(PumpHttp(World), "idle")
    BY <1>4 DEF StepPump
  <2>2. \A o \in PumpHttp(World) : KeepsGood(World, o)
    BY <1>1, PumpHttpDoes
  <2> QED BY <1>2, <2>1, <2>2, ContinueKeeps
<1>5. CASE Report
  <2>1. Continue(ReportPlayback(World), "idle") /\ World.out.active
    BY <1>5, WorldIs DEF Report
  <2>2. \A o \in ReportPlayback(World) : KeepsGood(World, o)
    BY <1>1, <2>1, ReportPlaybackDoes
  <2> QED BY <1>2, <2>1, <2>2, ContinueKeeps
<1>6. CASE Disconnect
  <2>1. Continue(Failed(World), "idle")
    BY <1>6 DEF Disconnect
  <2>2. \A o \in Failed(World) : KeepsGood(World, o)
    BY <1>1, FailedKeeps
  <2> QED BY <1>2, <2>1, <2>2, ContinueKeeps
<1> QED BY <1>3, <1>4, <1>5, <1>6

LEMMA InitLms == Init => LmsInv
<1> SUFFICES ASSUME Init PROVE LmsInv
  OBVIOUS
<1> DEFINE client(e, i, j) ==
      [control |-> FALSE, tx |-> i, http |-> FALSE, streaming |-> FALSE,
       output_released |-> FALSE, output_paused |-> FALSE, input_eof |-> FALSE,
       eof_sent |-> FALSE, prefill_frames |-> 0, ready_frames |-> j, pcm |-> e,
       pcm_sent |-> 0, body_done |-> FALSE, wait_cont |-> FALSE, wait_start |-> FALSE,
       ready_sent |-> FALSE, started_sent |-> FALSE, headers_done |-> FALSE,
       has_length |-> FALSE, remaining |-> 0, request_sent |-> FALSE, tail |-> e,
       ingress |-> e]
    history(e) ==
      [stream |-> 0, residue |-> e, received |-> 0, delivered |-> e, told |-> {},
       twice |-> FALSE, refused |-> FALSE]
<1>1. c = ClientZero /\ out = OutputZero /\ h = HistoryZero /\ place = "idle" /\ buffered \in BOOLEAN
  BY DEF Init
<1>2. c = client(<<>>, 0, 0) /\ h = history(<<>>)
  BY <1>1 DEF ClientZero, HistoryZero
<1>3. ASSUME NEW e \in Seq(Byte), NEW i \in TxRange, NEW j \in FrameRange
      PROVE  client(e, i, j) \in ClientType
  BY DEF ClientType
<1>4. ASSUME NEW e \in Seq(Byte) PROVE history(e) \in HistoryType
  BY DEF HistoryType
<1>5. out \in OutputType /\ ~out.misuse /\ ~out.active
  BY <1>1, Ranges DEF OutputZero, OutputType
<1>6. ~c.streaming /\ ~c.http /\ ~c.control
  BY <1>2
<1>7. h.told = {} /\ h.delivered = <<>> /\ h.received = 0 /\ ~h.twice /\ ~h.refused
  BY <1>2
<1> HIDE DEF client, history
<1>8. c \in ClientType /\ h \in HistoryType
  BY <1>2, <1>3, <1>4, EmptyBytes, Ranges
<1>9. World \in WorldType
  BY <1>5, <1>8 DEF World, WorldType
<1>10. Sane(World)
  BY <1>5, <1>6, <1>7, <1>9, WorldIs DEF Sane
<1>11. OutputOK(World) /\ TellsOK(World) /\ BodyOK(World) /\ BytesOK(World)
  BY <1>6, WorldIs DEF OutputOK, TellsOK, BodyOK, BytesOK
<1> QED BY <1>1, <1>6, <1>10, <1>11 DEF LmsInv, Good

LEMMA NextLms == LmsInv /\ [Next]_vars => LmsInv'
<1> SUFFICES ASSUME LmsInv, [Next]_vars PROVE LmsInv'
  OBVIOUS
<1>1. CASE UNCHANGED vars
  <2>1. Becomes(World) /\ buffered' = buffered /\ place' = place /\ c' = c
    BY <1>1, WorldIs DEF vars, Becomes
  <2>2. Good(World)'
    BY <2>1, Becoming DEF LmsInv
  <2> QED BY <2>1, <2>2 DEF LmsInv
<1> QED BY <1>1, PlayKeeps, ConnectKeeps, StepSendKeeps, StepsKeep DEF Next
----------------------------------------------------------------------------
(* lms_client.c: the client, the output and the reports agree after every  *)
(* step, whichever call failed.                                            *)
THEOREM LmsInvariant == Spec => []LmsInv
  BY InitLms, NextLms, PTL DEF Spec

(* pump_http, ingress_fill, ingress_decode and flush_pcm neither lose nor  *)
(* repeat nor reorder a byte between the socket and the output.            *)
THEOREM LmsBytesConserved == Spec => []BytesConserved
<1>1. LmsInv => BytesConserved
  BY WorldIs DEF LmsInv, Good, BytesOK, BytesConserved
<1> QED BY <1>1, LmsInvariant, PTL

(* The output callbacks are called as eaf_lms_client.h says, and there is  *)
(* an output running exactly for a stream.                                 *)
THEOREM LmsOutputContract == Spec => []OutputContract
<1>1. LmsInv => OutputContract
  <2> SUFFICES ASSUME LmsInv PROVE OutputContract
    OBVIOUS
  <2>1. c \in ClientType /\ out \in OutputType
    BY Parts, WorldIs DEF LmsInv, Good, Sane
  <2>2. out.active = c.streaming
    BY <2>1, WorldIs DEF LmsInv, Good, Sane, ClientType, OutputType
  <2> QED BY <2>2, WorldIs DEF LmsInv, Good, Sane, OutputOK, OutputContract
<1> QED BY <1>1, LmsInvariant, PTL

(* status and eaf_lms_client_report_playback: what the server is told of a *)
(* stream happened, and it is told once.                                   *)
THEOREM LmsStatusHonest == Spec => []StatusHonest
<1>1. LmsInv => StatusHonest
  <2> SUFFICES ASSUME LmsInv PROVE StatusHonest
    OBVIOUS
  <2> DEFINE w == World
  <2>1. /\ Sane(w) /\ OutputOK(w) /\ TellsOK(w) /\ BodyOK(w) /\ BytesOK(w)
        /\ w.c = c /\ w.out = out /\ w.h = h /\ w \in WorldType
    BY WorldIs DEF LmsInv, Good, Sane
  <2> HIDE DEF w
  <2>2. c \in ClientType /\ out \in OutputType /\ h \in HistoryType
    BY <2>1, Parts
  <2>3. ASSUME c.streaming, "STMd" \in h.told
        PROVE  /\ out.finished /\ ~out.held
               /\ c.has_length => c.remaining = 0
               /\ Len(h.delivered) = Len(h.residue) + h.received
    <3>1. c.input_eof /\ (c.eof_sent \/ ~buffered)
      BY <2>1, <2>3 DEF TellsOK
    <3>2. out.finished /\ ~out.held
      BY <2>1, <2>3, <3>1 DEF TellsOK, OutputOK
    <3>3. c.has_length => c.remaining = 0
      BY <2>1, <2>3, <3>1 DEF BodyOK
    <3> DEFINE d == h.delivered
               r == h.residue
               b == Body(h.stream, h.received)
    <3>4. d \in Seq(Byte) /\ r \in Seq(Byte) /\ h.stream \in Nat /\ h.received \in Nat
      BY <2>2 DEF HistoryType
    <3>5. b \in Seq(Byte) /\ Len(b) = h.received
      BY <3>4, BodyGrows
    <3>6. d \o <<>> \o <<>> \o <<>> = r \o b
      BY <2>1, <2>3, <3>1 DEF BodyOK, BytesOK, Body
    <3> HIDE DEF d, r, b
    <3>7. d = r \o b
      BY <3>4, <3>6, EmptyBytes
    <3>8. Len(d) = Len(r) + h.received
      <4>1. Len(r \o b) = Len(r) + Len(b)
        BY <3>4, <3>5, JoinBytes
      <4> QED BY <3>5, <3>7, <4>1
    <3> QED BY <3>2, <3>3, <3>8 DEF d, r
  <2>4. ~h.twice /\ ~h.refused
    BY <2>1 DEF Sane
  <2>5. c.streaming /\ "STMl" \in h.told /\ buffered =>
          c.input_eof \/ c.prefill_frames >= c.ready_frames
    BY <2>1 DEF TellsOK
  <2>6. c.streaming /\ "STMs" \in h.told => out.played
    BY <2>1 DEF TellsOK
  <2> QED BY <2>3, <2>4, <2>5, <2>6 DEF StatusHonest
<1> QED BY <1>1, LmsInvariant, PTL
=============================================================================
