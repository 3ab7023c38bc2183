-------------------------- MODULE PolledUart_proofs --------------------------
(***************************************************************************)
(* Proof that no character is dropped, repeated or overtaken between the   *)
(* program and the host, for FIFOs and calls of every size, and that a     *)
(* call that writes waits for nothing but the host.                        *)
(***************************************************************************)
EXTENDS PolledUart, SequenceTheorems, TLAPS

\* queue holds the characters from first on, up to the one before next.
InOrder(queue, first, next) ==
    /\ queue = <<>> => first = next
    /\ queue # <<>> => queue[1] = first /\ After(queue[Len(queue)]) = next
    /\ \A i \in 1 .. Len(queue) - 1 : queue[i + 1] = After(queue[i])

\* The two clocks of an access; a character is pushed in the second of a write.
Access ==
    /\ ~av_waitrequest => on
    /\ on => pc # "idle"
    /\ pc # "idle" => left # 0
    /\ fifo_wr <=> (pc = "write" /\ ~av_waitrequest)

\* The room that was seen is still there.
Room == (pc = "write" => Len(wfifo) < DEPTH) /\ ~woverflow

ToHost ==
    /\ InOrder(wfifo, IF r_val THEN After(heard) ELSE heard, sent)
    /\ r_val => r_dat = heard

Got == pc = "read" /\ ~av_waitrequest /\ rvalid

FromHost ==
    /\ InOrder(rfifo, IF Got THEN After(taken) ELSE taken, typed)
    /\ Got => fifo_rdata = taken

UartInv == TypeOK /\ Access /\ Room /\ ToHost /\ FromHost

-----------------------------------------------------------------------------
(* A FIFO at an edge: a character may leave it and one may come. *)

LEMMA AfterIsAChar == \A c \in Chars : After(c) \in Chars
  BY PolledUartAssumption, JtagUartAssumption DEF Chars, After

LEMMA Pushed ==
  ASSUME NEW queue \in Seq(Chars), NEW first, NEW next \in Chars, InOrder(queue, first, next)
  PROVE  /\ queue \o <<next>> \in Seq(Chars)
         /\ Len(queue \o <<next>>) = Len(queue) + 1
         /\ InOrder(queue \o <<next>>, first, After(next))
<1> DEFINE one == <<next>>
<1>1. one \in Seq(Chars) /\ Len(one) = 1 /\ one[1] = next
  OBVIOUS
<1> HIDE DEF one
<1> PICK longer : longer = queue \o one
  OBVIOUS
<1>2. /\ longer \in Seq(Chars) /\ Len(longer) = Len(queue) + 1
      /\ \A i \in 1 .. Len(queue) + 1 :
            longer[i] = IF i <= Len(queue) THEN queue[i] ELSE one[i - Len(queue)]
  <2>1. /\ queue \o one \in Seq(Chars) /\ Len(queue \o one) = Len(queue) + Len(one)
        /\ \A i \in 1 .. Len(queue) + Len(one) :
              (queue \o one)[i] = IF i <= Len(queue) THEN queue[i] ELSE one[i - Len(queue)]
    BY <1>1, ConcatProperties
  <2> QED BY <1>1, <2>1
<1>3. Len(queue) \in Nat /\ (queue = <<>> <=> Len(queue) = 0)
  BY EmptySeq, LenProperties
<1>4. longer # <<>> /\ longer[Len(longer)] = next
  BY <1>1, <1>2, <1>3
<1>5. longer[1] = first
  <2>1. CASE queue = <<>>
    BY <1>1, <1>2, <1>3, <2>1 DEF InOrder
  <2>2. CASE queue # <<>>
    BY <1>2, <1>3, <2>2 DEF InOrder
  <2> QED BY <2>1, <2>2
<1>6. ASSUME NEW i \in 1 .. Len(longer) - 1
      PROVE  longer[i + 1] = After(longer[i])
  <2>1. CASE i < Len(queue)
    <3>1. i \in 1 .. Len(queue) - 1 /\ longer[i] = queue[i] /\ longer[i + 1] = queue[i + 1]
      BY <1>2, <1>3, <2>1
    <3> QED BY <3>1 DEF InOrder
  <2>2. CASE i = Len(queue)
    <3>1. queue # <<>> /\ longer[i] = queue[Len(queue)] /\ longer[i + 1] = next
      BY <1>1, <1>2, <1>3, <2>2
    <3> QED BY <3>1 DEF InOrder
  <2> QED BY <1>2, <1>3, <2>1, <2>2
<1>7. InOrder(longer, first, After(next))
  BY <1>4, <1>5, <1>6 DEF InOrder
<1> QED BY <1>2, <1>7 DEF one

LEMMA Popped ==
  ASSUME NEW queue \in Seq(Chars), NEW first, NEW next, InOrder(queue, first, next),
         queue # <<>>
  PROVE  /\ Tail(queue) \in Seq(Chars)
         /\ Len(Tail(queue)) = Len(queue) - 1
         /\ Head(queue) = first
         /\ InOrder(Tail(queue), After(first), next)
<1> PICK rest : rest = Tail(queue)
  OBVIOUS
<1>1. /\ rest \in Seq(Chars) /\ Len(rest) = Len(queue) - 1
      /\ \A i \in 1 .. Len(rest) : rest[i] = queue[i + 1]
  BY HeadTailProperties
<1>2. /\ Len(queue) \in Nat \ {0} /\ Len(rest) \in Nat
      /\ (rest = <<>> <=> Len(rest) = 0)
  BY <1>1, EmptySeq, LenProperties
<1>3. Head(queue) = first
  BY DEF InOrder
<1>4. rest = <<>> => After(first) = next
  BY <1>1, <1>2 DEF InOrder
<1>5. rest # <<>> => rest[1] = After(first) /\ After(rest[Len(rest)]) = next
  BY <1>1, <1>2 DEF InOrder
<1>6. \A i \in 1 .. Len(rest) - 1 : rest[i + 1] = After(rest[i])
  BY <1>1, <1>2 DEF InOrder
<1>7. InOrder(rest, After(first), next)
  BY <1>4, <1>5, <1>6 DEF InOrder
<1> QED BY <1>1, <1>3, <1>7

-----------------------------------------------------------------------------
(* An edge of the clock. *)

LEMMA InvInit == Init => UartInv
<1> SUFFICES ASSUME Init PROVE UartInv
  OBVIOUS
<1>1. 0 \in Chars /\ DEPTH \in Nat \ {0} /\ COUNT \in Nat \ {0}
  BY PolledUartAssumption, JtagUartAssumption DEF Chars
<1>2. <<>> \in Seq(Chars) /\ Len(<<>>) = 0
  BY EmptySeq
<1>3. TypeOK
  <2>1. /\ wfifo \in Seq(Chars) /\ Len(wfifo) <= DEPTH
        /\ rfifo \in Seq(Chars) /\ Len(rfifo) <= DEPTH
    BY <1>1, <1>2 DEF Init, UartInit
  <2>2. left \in 0 .. COUNT
    BY <1>1 DEF Init
  <2> QED BY <1>1, <2>1, <2>2 DEF Init, UartInit, TypeOK
<1>4. InOrder(<<>>, 0, 0)
  BY <1>2 DEF InOrder
<1>5. ToHost /\ FromHost
  BY <1>4 DEF Init, UartInit, ToHost, FromHost, Got
<1> QED BY <1>3, <1>5 DEF Init, UartInit, UartInv, Access, Room

\* What is on the bus, and what the driver does about it.
LEMMA OnTheBus ==
  ASSUME UartInv
  PROVE  /\ Bus.op = "none" <=> ~on
         /\ Starts(Bus, "write", 0) <=> (pc = "write" /\ on /\ av_waitrequest)
         /\ Starts(Bus, "read", 0) <=> (pc = "read" /\ on /\ av_waitrequest)
         /\ Bus.data = sent
  BY DEF UartInv, TypeOK, Access, Bus, Starts

LEMMA RoomIsSeen ==
  ASSUME UartInv, WSPACE # 0
  PROVE  Len(wfifo) < DEPTH
<1>1. DEPTH \in Nat \ {0} /\ Len(wfifo) \in Nat /\ Len(wfifo) <= DEPTH
  BY JtagUartAssumption, LenProperties DEF UartInv, TypeOK
<1>2. ASSUME Len(wfifo) = DEPTH PROVE WSPACE = 0
  <2>1. DEPTH % DEPTH = 0
    BY <1>1
  <2> QED BY <1>1, <1>2, <2>1 DEF WSPACE, fifo_FF, wfifo_used
<1> QED BY <1>1, <1>2

LEMMA LeftToDo ==
  ASSUME UartInv, Driver
  PROVE  left' \in 0 .. COUNT /\ (pc' # "idle" => left' # 0)
<1>1. COUNT \in Nat /\ left \in 0 .. COUNT /\ (pc # "idle" => left # 0)
  BY PolledUartAssumption DEF UartInv, TypeOK, Access
<1>2. CASE left' \in 1 .. COUNT
  BY <1>1, <1>2
<1>3. CASE left' = left /\ pc' = pc
  BY <1>1, <1>3
<1>4. CASE left' = left /\ pc # "idle"
  BY <1>1, <1>4
<1>5. CASE /\ pc # "idle" /\ left' = left - 1
           /\ left' = 0 => pc' = "idle"
  <2> PICK l : l = left'
    OBVIOUS
  <2>1. l \in 0 .. COUNT
    BY <1>1, <1>5
  <2> QED BY <1>5, <2>1
<1>6. Driver => \/ left' \in 1 .. COUNT
                \/ left' = left /\ pc' = pc
                \/ left' = left /\ pc # "idle"
                \/ pc # "idle" /\ left' = left - 1 /\ (left' = 0 => pc' = "idle")
  BY DEF Driver, driver, CallWrite, CallRead, Rest, Ask, SeeSpace, Written, GotCharacter,
         GotNothing
<1> QED BY <1>2, <1>3, <1>4, <1>5, <1>6

LEMMA DriverTypes ==
  ASSUME UartInv, Driver
  PROVE  /\ pc' \in {"idle", "control", "write", "read"}
         /\ on' \in BOOLEAN /\ moved' \in BOOLEAN /\ blocking' \in BOOLEAN
         /\ on' => pc' # "idle"
         /\ sent' \in Chars /\ taken' \in Chars
<1> USE AfterIsAChar DEF UartInv, TypeOK, Access
<1>1. CASE CallWrite
  BY <1>1 DEF CallWrite
<1>2. CASE CallRead
  BY <1>2 DEF CallRead
<1>3. CASE Rest
  BY <1>3 DEF Rest, driver
<1>4. CASE Ask
  BY <1>4 DEF Ask
<1>5. CASE SeeSpace
  BY <1>5 DEF SeeSpace
<1>6. CASE Written
  BY <1>6 DEF Written
<1>7. CASE GotCharacter
  BY <1>7 DEF GotCharacter
<1>8. CASE GotNothing
  BY <1>8 DEF GotNothing
<1> QED BY <1>1, <1>2, <1>3, <1>4, <1>5, <1>6, <1>7, <1>8 DEF Driver

LEMMA DriverMoves ==
  ASSUME UartInv, Driver
  PROVE  /\ on' <=> pc # "idle" /\ av_waitrequest
         /\ on /\ av_waitrequest => pc' = pc
         /\ pc' = "write" => pc = "write" \/ WSPACE # 0
         /\ pc = "write" /\ ~av_waitrequest => pc' # "write"
         /\ sent' = IF pc = "write" /\ ~av_waitrequest THEN After(sent) ELSE sent
         /\ taken' = IF Got THEN After(taken) ELSE taken
<1> USE DEF UartInv, TypeOK, Access, Done, Got
<1>1. CASE CallWrite
  BY <1>1 DEF CallWrite
<1>2. CASE CallRead
  BY <1>2 DEF CallRead
<1>3. CASE Rest
  BY <1>3 DEF Rest, driver
<1>4. CASE Ask
  BY <1>4 DEF Ask
<1>5. CASE SeeSpace
  BY <1>5 DEF SeeSpace
<1>6. CASE Written
  BY <1>6 DEF Written
<1>7. CASE GotCharacter
  BY <1>7 DEF GotCharacter
<1>8. CASE GotNothing
  BY <1>8 DEF GotNothing
<1> QED BY <1>1, <1>2, <1>3, <1>4, <1>5, <1>6, <1>7, <1>8 DEF Driver

LEMMA BusSide ==
  ASSUME UartInv, NEW r_ena \in BOOLEAN, NEW t_ena \in BOOLEAN, Edge(r_ena, t_ena)
  PROVE  /\ av_waitrequest' = ~(on /\ av_waitrequest)
         /\ fifo_wr' = (pc = "write" /\ on /\ av_waitrequest)
         /\ woverflow' = FALSE
         /\ read_0' \in BOOLEAN /\ rvalid' \in BOOLEAN
         /\ Got' <=> (pc = "read" /\ on /\ av_waitrequest /\ rfifo # <<>>)
<1>1. UartEdge(Bus, r_ena, t_ena, typed) /\ Driver
  BY DEF Edge
<1>2. av_waitrequest' = ~(on /\ av_waitrequest)
  BY <1>1, OnTheBus DEF UartEdge
<1>3. pc = "write" => ~fifo_FF
  <2>1. DEPTH \in Nat
    BY JtagUartAssumption
  <2> QED BY <2>1, LenProperties DEF UartInv, TypeOK, Room, fifo_FF
<1>4. fifo_wr' = (pc = "write" /\ on /\ av_waitrequest)
  BY <1>1, <1>3, OnTheBus DEF UartEdge
<1>5. woverflow' = FALSE
  <2>1. fifo_FF \in BOOLEAN /\ woverflow = FALSE
    BY DEF fifo_FF, UartInv, TypeOK, Room
  <2> QED BY <1>1, <1>3, <2>1, OnTheBus DEF UartEdge
<1>6. read_0' \in BOOLEAN /\ rvalid' \in BOOLEAN
  BY <1>1 DEF UartEdge, Starts, fifo_EF, UartInv, TypeOK
<1>7. on /\ av_waitrequest => pc' = pc
  BY <1>1, DriverMoves
<1>8. Got' <=> (pc = "read" /\ on /\ av_waitrequest /\ rfifo # <<>>)
  <2>1. CASE pc = "read" /\ on /\ av_waitrequest
    <3>1. rvalid' = (rfifo # <<>>)
      BY <1>1, <2>1, OnTheBus DEF UartEdge, fifo_EF
    <3> QED BY <1>2, <1>7, <2>1, <3>1 DEF Got
  <2>2. CASE ~(pc = "read" /\ on /\ av_waitrequest)
    BY <1>2, <1>7, <2>2 DEF Got
  <2> QED BY <2>1, <2>2
<1> QED BY <1>2, <1>4, <1>5, <1>6, <1>8

LEMMA AccessKept ==
  ASSUME UartInv, NEW r_ena \in BOOLEAN, NEW t_ena \in BOOLEAN, Edge(r_ena, t_ena)
  PROVE  Access'
<1>1. Driver
  BY DEF Edge
<1>2. /\ av_waitrequest' = ~(on /\ av_waitrequest)
      /\ fifo_wr' = (pc = "write" /\ on /\ av_waitrequest)
  BY BusSide
<1>3. /\ on' <=> pc # "idle" /\ av_waitrequest
      /\ on /\ av_waitrequest => pc' = pc
      /\ on => pc # "idle"
  BY <1>1, DriverMoves DEF UartInv, Access
<1>4. /\ pc' # "idle" => left' # 0
      /\ on' => pc' # "idle"
  BY <1>1, LeftToDo, DriverTypes
<1>5. fifo_wr' \in BOOLEAN /\ av_waitrequest' \in BOOLEAN
  BY <1>2 DEF UartInv, TypeOK
<1> QED BY <1>2, <1>3, <1>4, <1>5 DEF Access

\* The FIFO to the host: a character of the program comes at the end of its
\* write, and one goes when the host asks.
LEMMA ToHostKept ==
  ASSUME UartInv, NEW r_ena \in BOOLEAN, NEW t_ena \in BOOLEAN, Edge(r_ena, t_ena)
  PROVE  /\ wfifo' \in Seq(Chars) /\ Len(wfifo') <= DEPTH
         /\ r_val' \in BOOLEAN /\ r_dat' \in Chars /\ heard' \in Chars
         /\ Room' /\ ToHost'
<1> DEFINE rd_wfifo == r_ena /\ wfifo # <<>>
           first    == IF r_val THEN After(heard) ELSE heard
<1>1. UartEdge(Bus, r_ena, t_ena, typed) /\ Driver /\ heard' = first
  BY DEF Edge
<1>2. /\ wfifo' = (IF rd_wfifo THEN Tail(wfifo) ELSE wfifo)
                  \o (IF fifo_wr THEN <<sent>> ELSE <<>>)
      /\ r_val' = rd_wfifo
      /\ r_dat' = IF rd_wfifo THEN Head(wfifo) ELSE r_dat
  BY <1>1, OnTheBus DEF UartEdge, Pushes
<1>3. /\ wfifo \in Seq(Chars) /\ sent \in Chars /\ InOrder(wfifo, first, sent)
      /\ fifo_wr \in BOOLEAN /\ rd_wfifo \in BOOLEAN
  BY DEF UartInv, TypeOK, ToHost
<1>4. PICK rest, front, last :
         /\ rest = IF rd_wfifo THEN Tail(wfifo) ELSE wfifo
         /\ front = IF rd_wfifo THEN After(first) ELSE first
         /\ last = IF fifo_wr THEN After(sent) ELSE sent
  OBVIOUS
<1>5. /\ rest \in Seq(Chars) /\ InOrder(rest, front, sent)
      /\ Len(rest) \in Nat /\ Len(rest) <= Len(wfifo)
      /\ rd_wfifo => Head(wfifo) = first
  <2>1. Len(wfifo) \in Nat
    BY <1>3, LenProperties
  <2>2. CASE rd_wfifo
    BY <1>3, <1>4, <2>1, <2>2, Popped, LenProperties
  <2>3. CASE ~rd_wfifo
    BY <1>3, <1>4, <2>1, <2>3
  <2> QED BY <2>2, <2>3
<1> HIDE DEF rd_wfifo, first
<1>6. /\ wfifo' \in Seq(Chars) /\ InOrder(wfifo', front, last)
      /\ Len(wfifo') = IF fifo_wr THEN Len(rest) + 1 ELSE Len(rest)
  <2>1. CASE fifo_wr
    <3>1. wfifo' = rest \o <<sent>> /\ last = After(sent)
      BY <1>2, <1>4, <2>1
    <3> QED BY <1>3, <1>5, <2>1, <3>1, Pushed
  <2>2. CASE ~fifo_wr
    <3>1. wfifo' = rest /\ last = sent
      BY <1>2, <1>4, <1>5, <2>2, ConcatEmptySeq
    <3> QED BY <1>5, <2>2, <3>1
  <2> QED BY <2>1, <2>2
<1>7. first \in Chars
  BY AfterIsAChar DEF first, UartInv, TypeOK
<1>8. heard' \in Chars /\ r_val' \in BOOLEAN /\ r_dat' \in Chars
  <2>1. rd_wfifo => Head(wfifo) \in Chars
    BY <1>5, <1>7
  <2> QED BY <1>1, <1>2, <1>3, <1>7, <2>1 DEF UartInv, TypeOK
<1>9. ToHost'
  <2>1. heard' = first /\ sent' = last
    BY <1>1, <1>4, DriverMoves DEF UartInv, Access
  <2>2. front = (IF r_val THEN After(heard) ELSE heard)'
    BY <1>2, <1>3, <1>4, <2>1
  <2>3. r_val' => r_dat' = heard'
    BY <1>2, <1>3, <1>5, <2>1
  <2> QED BY <1>6, <2>1, <2>2, <2>3 DEF ToHost
<1>10. Len(wfifo') <= DEPTH /\ (pc' = "write" => Len(wfifo') < DEPTH)
  <2>1. /\ Len(wfifo) \in Nat /\ DEPTH \in Nat /\ Len(wfifo) <= DEPTH
        /\ fifo_wr => pc = "write"
        /\ pc = "write" => Len(wfifo) < DEPTH
    BY <1>3, LenProperties, JtagUartAssumption DEF UartInv, TypeOK, Access, Room
  <2>2. /\ pc' = "write" => Len(wfifo) < DEPTH
        /\ fifo_wr => pc' # "write"
    BY <1>1, <2>1, DriverMoves, RoomIsSeen DEF UartInv, Access
  <2> PICK length : length = Len(wfifo')
    OBVIOUS
  <2>3. CASE fifo_wr
    <3>1. length = Len(rest) + 1 /\ pc' # "write" /\ Len(wfifo) < DEPTH
      BY <1>6, <2>1, <2>2, <2>3
    <3> QED BY <1>5, <2>1, <3>1
  <2>4. CASE ~fifo_wr
    <3>1. length = Len(rest)
      BY <1>6, <2>4
    <3> QED BY <1>5, <2>1, <2>2, <3>1
  <2> QED BY <2>3, <2>4
<1>11. Room'
  BY <1>10, BusSide DEF Room
<1> QED BY <1>6, <1>8, <1>9, <1>10, <1>11

\* The FIFO from the host: a character goes in the first clock of a read, and
\* is the program's in the second.
LEMMA FromHostKept ==
  ASSUME UartInv, NEW r_ena \in BOOLEAN, NEW t_ena \in BOOLEAN, Edge(r_ena, t_ena)
  PROVE  /\ rfifo' \in Seq(Chars) /\ Len(rfifo') <= DEPTH
         /\ fifo_rdata' \in Chars /\ typed' \in Chars
         /\ FromHost'
<1> DEFINE reads == pc = "read" /\ on /\ av_waitrequest /\ rfifo # <<>>
           types == t_ena /\ ~rfifo_full
           first == IF Got THEN After(taken) ELSE taken
<1>1. UartEdge(Bus, r_ena, t_ena, typed) /\ Driver
  BY DEF Edge
<1>2. /\ rfifo' = (IF reads THEN Tail(rfifo) ELSE rfifo)
                  \o (IF types THEN <<typed>> ELSE <<>>)
      /\ fifo_rdata' = IF reads THEN Head(rfifo) ELSE fifo_rdata
      /\ typed' = IF types THEN After(typed) ELSE typed
  <2>1. fifo_rd(Bus) <=> reads
    BY OnTheBus DEF fifo_rd, fifo_EF
  <2>2. typed' = IF types THEN After(typed) ELSE typed
    BY DEF Edge
  <2> QED BY <1>1, <2>1, <2>2 DEF UartEdge
<1>3. /\ rfifo \in Seq(Chars) /\ typed \in Chars /\ InOrder(rfifo, first, typed)
      /\ Len(rfifo) \in Nat /\ DEPTH \in Nat /\ Len(rfifo) <= DEPTH
  BY LenProperties, JtagUartAssumption DEF UartInv, TypeOK, FromHost
<1>4. PICK rest, front, last :
         /\ rest = IF reads THEN Tail(rfifo) ELSE rfifo
         /\ front = IF reads THEN After(first) ELSE first
         /\ last = IF types THEN After(typed) ELSE typed
  OBVIOUS
<1>5. /\ Got' <=> reads
      /\ taken' = first
  BY <1>1, BusSide, DriverMoves
<1>6. first \in Chars
  BY AfterIsAChar DEF UartInv, TypeOK
<1>7. types => Len(rfifo) < DEPTH
  BY <1>3 DEF rfifo_full
<1> HIDE DEF reads, types, first
<1>8. /\ rest \in Seq(Chars) /\ InOrder(rest, front, typed)
      /\ Len(rest) \in Nat /\ Len(rest) <= Len(rfifo)
      /\ reads => Head(rfifo) = first
  <2>1. CASE reads
    <3>1. rfifo # <<>>
      BY <2>1 DEF reads
    <3> QED BY <1>3, <1>4, <2>1, <3>1, Popped, LenProperties
  <2>2. CASE ~reads
    BY <1>3, <1>4, <2>2
  <2> QED BY <2>1, <2>2
<1>9. /\ rfifo' \in Seq(Chars) /\ InOrder(rfifo', front, last)
      /\ Len(rfifo') = IF types THEN Len(rest) + 1 ELSE Len(rest)
  <2>1. CASE types
    <3>1. rfifo' = rest \o <<typed>> /\ last = After(typed)
      BY <1>2, <1>4, <2>1
    <3> QED BY <1>3, <1>8, <2>1, <3>1, Pushed
  <2>2. CASE ~types
    <3>1. rfifo' = rest /\ last = typed
      BY <1>2, <1>4, <1>8, <2>2, ConcatEmptySeq
    <3> QED BY <1>8, <2>2, <3>1
  <2> QED BY <2>1, <2>2
<1>10. Len(rfifo') <= DEPTH
  <2> PICK length : length = Len(rfifo')
    OBVIOUS
  <2>1. CASE types
    BY <1>3, <1>7, <1>8, <1>9, <2>1
  <2>2. CASE ~types
    BY <1>3, <1>8, <1>9, <2>2
  <2> QED BY <2>1, <2>2
<1>11. fifo_rdata' \in Chars /\ typed' \in Chars
  BY <1>2, <1>3, <1>6, <1>8, AfterIsAChar DEF UartInv, TypeOK
<1>12. FromHost'
  <2>1. front = (IF Got THEN After(taken) ELSE taken)'
    BY <1>4, <1>5
  <2>2. typed' = last
    BY <1>2, <1>4
  <2>3. Got' => fifo_rdata' = taken'
    BY <1>2, <1>5, <1>8
  <2> QED BY <1>9, <2>1, <2>2, <2>3 DEF FromHost
<1> QED BY <1>9, <1>10, <1>11, <1>12

LEMMA InvStep == UartInv /\ [Next]_vars => UartInv'
<1> SUFFICES ASSUME UartInv, [Next]_vars PROVE UartInv'
  OBVIOUS
<1>1. CASE UNCHANGED vars
  BY <1>1 DEF vars, uartVars, busSide, driver, ends, UartInv, TypeOK, Access, Room, ToHost,
              FromHost, Got
<1>2. ASSUME NEW r_ena \in BOOLEAN, NEW t_ena \in BOOLEAN, Edge(r_ena, t_ena)
      PROVE  UartInv'
  <2>1. Driver
    BY <1>2 DEF Edge
  <2>2. Access' /\ Room' /\ ToHost' /\ FromHost'
    BY <1>2, AccessKept, ToHostKept, FromHostKept
  <2>3. /\ wfifo' \in Seq(Chars) /\ Len(wfifo') <= DEPTH
        /\ r_val' \in BOOLEAN /\ r_dat' \in Chars /\ heard' \in Chars
    BY <1>2, ToHostKept
  <2>4. /\ rfifo' \in Seq(Chars) /\ Len(rfifo') <= DEPTH
        /\ fifo_rdata' \in Chars /\ typed' \in Chars
    BY <1>2, FromHostKept
  <2>5. /\ av_waitrequest' \in BOOLEAN /\ fifo_wr' \in BOOLEAN /\ woverflow' \in BOOLEAN
        /\ read_0' \in BOOLEAN /\ rvalid' \in BOOLEAN
    BY <1>2, BusSide DEF UartInv, TypeOK
  <2>6. /\ pc' \in {"idle", "control", "write", "read"}
        /\ on' \in BOOLEAN /\ moved' \in BOOLEAN /\ blocking' \in BOOLEAN
        /\ sent' \in Chars /\ taken' \in Chars
    BY <2>1, DriverTypes
  <2>7. left' \in 0 .. COUNT
    BY <2>1, LeftToDo
  <2>8. TypeOK'
    BY <2>3, <2>4, <2>5, <2>6, <2>7 DEF TypeOK
  <2> QED BY <2>2, <2>8 DEF UartInv
<1> QED BY <1>1, <1>2 DEF Next

LEMMA UartInvariant == Spec => []UartInv
  BY InvInit, InvStep, PTL DEF Spec

-----------------------------------------------------------------------------

\* The state of the driver and of the UART keeps its types: the FIFOs hold
\* what they can hold.
THEOREM FifosHold == Spec => []TypeOK
<1>1. UartInv => TypeOK
  BY DEF UartInv
<1> QED BY <1>1, UartInvariant, PTL

\* The room the driver has seen in the control register is still there when
\* its character comes: no character is dropped, for a FIFO of any depth.
THEOREM RoomIsKept == Spec => []NeverOverflows
<1>1. UartInv => NeverOverflows
  BY DEF UartInv, Room, NeverOverflows
<1> QED BY <1>1, UartInvariant, PTL

\* The host gets the characters of the program, each once and in order.
THEOREM HostHears == Spec => []HostHearsEverything
<1>1. UartInv => HostHearsEverything
  BY DEF UartInv, ToHost, HostHearsEverything
<1> QED BY <1>1, UartInvariant, PTL

\* The program gets the characters of the host, each once and in order.
THEOREM ProgramReads == Spec => []ProgramReadsEverything
<1>1. UartInv => ProgramReadsEverything
  BY DEF UartInv, FromHost, Got, Done, ProgramReadsEverything
<1> QED BY <1>1, UartInvariant, PTL

-----------------------------------------------------------------------------
(* How far a call that writes is: with a clock that does not stop and a host *)
(* that goes on listening, what WritesReturn rests on.                       *)

Writing == pc \in {"control", "write"}

\* The clocks until the character is in the FIFO, if it is not full: three for
\* the read that shows the room and three for the write.
Phase == (IF pc = "control" THEN 3 ELSE 0) + (IF ~on THEN 3 ELSE IF av_waitrequest THEN 2 ELSE 1)

\* A character still to be written weighs two and one in the FIFO one; seven
\* is more than the clocks of a character.
Burden == 7 * (2 * left + Len(wfifo)) + (IF fifo_FF THEN 7 ELSE Phase)

LEMMA RoomIsShown ==
  ASSUME UartInv, ~fifo_FF
  PROVE  WSPACE # 0
<1> PICK n \in Nat, d \in Nat \ {0} : n = Len(wfifo) /\ d = DEPTH /\ n < d
  BY JtagUartAssumption, LenProperties DEF UartInv, TypeOK, fifo_FF
<1>1. n % d = n
  OBVIOUS
<1>2. WSPACE = d - (0 + (n % d))
  BY DEF WSPACE, fifo_FF, wfifo_used
<1> QED BY <1>1, <1>2

\* What an edge does to the length of the FIFO to the host.
LEMMA LengthMoves ==
  ASSUME UartInv, NEW r_ena \in BOOLEAN, NEW t_ena \in BOOLEAN, Edge(r_ena, t_ena)
  PROVE  Len(wfifo') = Len(wfifo) - (IF r_ena /\ wfifo # <<>> THEN 1 ELSE 0)
                                  + (IF fifo_wr THEN 1 ELSE 0)
<1>1. PICK rest, more :
          /\ rest = IF r_ena /\ wfifo # <<>> THEN Tail(wfifo) ELSE wfifo
          /\ more = IF fifo_wr THEN <<sent>> ELSE <<>>
  OBVIOUS
<1>2. wfifo' = rest \o more
  BY <1>1, OnTheBus DEF Edge, UartEdge, Pushes
<1>3. wfifo \in Seq(Chars) /\ sent \in Chars /\ Len(wfifo) \in Nat
  BY LenProperties DEF UartInv, TypeOK
<1>4. /\ rest \in Seq(Chars)
      /\ Len(rest) = Len(wfifo) - (IF r_ena /\ wfifo # <<>> THEN 1 ELSE 0)
  BY <1>1, <1>3, HeadTailProperties
<1>5. more \in Seq(Chars) /\ Len(more) = IF fifo_wr THEN 1 ELSE 0
  BY <1>1, <1>3
<1> PICK longer : longer = rest \o more
  OBVIOUS
<1>6. Len(longer) = Len(rest) + Len(more)
  BY <1>4, <1>5, ConcatProperties
<1>7. wfifo' = longer
  BY <1>2
<1> QED BY <1>3, <1>4, <1>5, <1>6, <1>7

WriteProceeds ==
    \A r_ena, t_ena \in BOOLEAN :
        Writing /\ Writing' /\ Edge(r_ena, t_ena) =>
            /\ Burden' <= Burden
            /\ r_ena \/ ~fifo_FF => Burden' < Burden

LEMMA BurdenType == UartInv => Burden \in Nat
<1> SUFFICES ASSUME UartInv PROVE Burden \in Nat
  OBVIOUS
<1>1. PICK l, n \in Nat : l = left /\ n = Len(wfifo)
  BY PolledUartAssumption, LenProperties DEF UartInv, TypeOK
<1>2. PICK p \in 1 .. 7 : p = IF fifo_FF THEN 7 ELSE Phase
  BY DEF Phase
<1> QED BY <1>1, <1>2 DEF Burden

\* The driver while it writes: it goes on with its access, or sees whether
\* there is room, or has written a character.
LEMMA WriterMoves ==
  ASSUME UartInv, Writing, Writing', NEW r_ena \in BOOLEAN, NEW t_ena \in BOOLEAN,
         Edge(r_ena, t_ena)
  PROVE  \/ /\ left' = left /\ ~fifo_wr
            /\ Phase' = Phase - 1
         \/ /\ left' = left /\ ~fifo_wr
            /\ IF fifo_FF THEN Phase' \in 1 .. 6 ELSE Phase = 4 /\ Phase' = 3
         \/ /\ left' = left - 1 /\ fifo_wr
            /\ ~fifo_FF /\ Phase = 1 /\ Phase' = 6
<1>1. /\ Driver
      /\ av_waitrequest' = ~(on /\ av_waitrequest)
      /\ av_waitrequest \in BOOLEAN /\ on \in BOOLEAN
      /\ ~av_waitrequest => on
      /\ fifo_wr <=> (pc = "write" /\ ~av_waitrequest)
  BY BusSide DEF Edge, UartInv, TypeOK, Access
<1>2. CASE Ask
  <2>1. pc' = pc /\ left' = left /\ on' = TRUE /\ ~(on /\ ~av_waitrequest)
    BY <1>2 DEF Ask, Done
  <2>2. Phase' = Phase - 1
    <3>1. CASE on
      <4>1. av_waitrequest /\ ~av_waitrequest'
        BY <1>1, <2>1, <3>1
      <4> QED BY <2>1, <3>1, <4>1 DEF Phase, Writing
    <3>2. CASE ~on
      BY <1>1, <2>1, <3>2 DEF Phase, Writing
    <3> QED BY <3>1, <3>2
  <2> QED BY <1>1, <2>1, <2>2
<1>3. CASE SeeSpace
  <2>1. /\ pc = "control" /\ on /\ ~av_waitrequest /\ left' = left
        /\ on' = FALSE /\ pc' = IF WSPACE # 0 THEN "write" ELSE pc
    BY <1>3 DEF SeeSpace, Done
  <2>2. Phase' \in 1 .. 6
    BY <2>1 DEF Phase
  <2>3. ~fifo_FF => Phase = 4 /\ Phase' = 3
    BY <2>1, RoomIsShown DEF Phase
  <2> QED BY <1>1, <2>1, <2>2, <2>3
<1>4. CASE Written
  <2>1. /\ pc = "write" /\ on /\ ~av_waitrequest /\ left' = left - 1 /\ on' = FALSE
        /\ pc' = "control"
    BY <1>4 DEF Written, Done, Writing
  <2>2. ~fifo_FF
    <3>1. DEPTH \in Nat
      BY JtagUartAssumption
    <3> QED BY <2>1, <3>1, LenProperties DEF UartInv, TypeOK, Room, fifo_FF
  <2> QED BY <1>1, <2>1, <2>2 DEF Phase
<1>5. ~CallWrite /\ ~CallRead /\ ~Rest /\ ~GotCharacter /\ ~GotNothing
  BY DEF Writing, CallWrite, CallRead, Rest, GotCharacter, GotNothing
<1> QED BY <1>1, <1>2, <1>3, <1>4, <1>5 DEF Driver

LEMMA BurdenMoves ==
  ASSUME UartInv, Len(wfifo') <= DEPTH, Writing, Writing',
         NEW r_ena \in BOOLEAN, NEW t_ena \in BOOLEAN, Edge(r_ena, t_ena)
  PROVE  Burden' <= Burden /\ (r_ena \/ ~fifo_FF => Burden' < Burden)
<1>1. PICK l \in Nat, n \in Nat, d \in Nat \ {0} : l = left /\ n = Len(wfifo) /\ d = DEPTH /\ n <= d
  BY PolledUartAssumption, JtagUartAssumption, LenProperties DEF UartInv, TypeOK
<1>2. PICK m, n1 : m = left' /\ n1 = Len(wfifo')
  OBVIOUS
<1>3. PICK p \in 1 .. 6, p1 \in 1 .. 6 : p = Phase /\ p1 = Phase'
  BY DEF Phase
<1>4. n1 = n - (IF r_ena /\ n # 0 THEN 1 ELSE 0) + (IF fifo_wr THEN 1 ELSE 0)
  <2>1. wfifo # <<>> <=> n # 0
    BY <1>1, EmptySeq DEF UartInv, TypeOK
  <2> QED BY <1>1, <1>2, <2>1, LengthMoves
<1>5. /\ (fifo_FF <=> n = d) /\ (fifo_FF' <=> n1 = d)
  BY <1>1, <1>2 DEF fifo_FF
<1>6. PICK b, b1 : b = Burden /\ b1 = Burden'
  OBVIOUS
<1>7. /\ b = 7 * (2 * l + n) + (IF n = d THEN 7 ELSE p)
      /\ b1 = 7 * (2 * m + n1) + (IF n1 = d THEN 7 ELSE p1)
  BY <1>1, <1>2, <1>3, <1>5, <1>6 DEF Burden
<1>8. \/ m = l /\ ~fifo_wr /\ p1 = p - 1
      \/ m = l /\ ~fifo_wr /\ IF n = d THEN TRUE ELSE p = 4 /\ p1 = 3
      \/ m = l - 1 /\ fifo_wr /\ n # d /\ p = 1
  BY <1>1, <1>2, <1>3, <1>5, WriterMoves
<1>9. n1 <= d
  BY <1>1, <1>2
<1>10. b1 <= b /\ (r_ena \/ n # d => b1 < b)
  <2>1. CASE fifo_wr
    <3>1. m = l - 1 /\ n # d /\ p = 1
      BY <1>8, <2>1
    <3> QED BY <1>1, <1>4, <1>7, <1>9, <2>1, <3>1
  <2>2. CASE ~fifo_wr
    <3>1. m = l /\ (n # d => p1 = p - 1)
      BY <1>8, <2>2
    <3>2. n1 = n - (IF r_ena /\ n # 0 THEN 1 ELSE 0)
      BY <1>1, <1>4, <2>2
    <3>3. CASE n = d /\ r_ena
      BY <1>1, <1>7, <3>1, <3>2, <3>3
    <3>4. CASE n = d /\ ~r_ena
      BY <1>1, <1>7, <3>1, <3>2, <3>4
    <3>5. CASE n # d
      BY <1>1, <1>7, <3>1, <3>2, <3>5
    <3> QED BY <3>3, <3>4, <3>5
  <2> QED BY <2>1, <2>2
<1> QED BY <1>5, <1>6, <1>10

\* The safety half of WritesReturn: a clock at which the host takes what there
\* is, or at which the FIFO has room, brings the call strictly closer to its
\* end, and no clock takes it further away, whatever is typed meanwhile.
THEOREM WriteComesCloser == Spec => [](Burden \in Nat) /\ [][WriteProceeds]_vars
<1>1. UartInv /\ UartInv' => WriteProceeds
  BY BurdenMoves DEF WriteProceeds, UartInv, TypeOK
<1> QED BY <1>1, BurdenType, UartInvariant, PTL
=============================================================================
