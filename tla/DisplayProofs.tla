--------------------------- MODULE DisplayProofs ---------------------------
(* Proofs about Display: for every set of processes and claimers, every    *)
(* number of drivers and every set of request values.                      *)
EXTENDS Display, SequenceTheorems, TLAPS

-----------------------------------------------------------------------------
(* Sequences.                                                              *)

LEMMA ToSetAppend ==
  ASSUME NEW S, NEW s \in Seq(S), NEW d \in S
  PROVE  ToSet(Append(s, d)) = ToSet(s) \cup {d}
<1>1. /\ Len(Append(s, d)) = Len(s) + 1 /\ Len(s) \in Nat
      /\ DOMAIN s = 1..Len(s) /\ DOMAIN Append(s, d) = 1..(Len(s) + 1)
      /\ \A k \in 1..Len(s) : Append(s, d)[k] = s[k]
      /\ Append(s, d)[Len(s) + 1] = d
  OBVIOUS
<1>2. ToSet(Append(s, d)) \subseteq ToSet(s) \cup {d}
  BY <1>1 DEF ToSet
<1>3. ToSet(s) \subseteq ToSet(Append(s, d))
  BY <1>1 DEF ToSet
<1>4. d \in ToSet(Append(s, d))
  <2>1. Len(s) + 1 \in DOMAIN Append(s, d)
    BY <1>1
  <2>2. QED
    BY <1>1, <2>1 DEF ToSet
<1>5. QED
  BY <1>2, <1>3, <1>4

LEMMA IsAppend ==
  ASSUME NEW S, NEW s \in Seq(S), NEW d \in S, NEW t \in Seq(S),
         Len(t) = Len(s) + 1, \A k \in 1..Len(s) : t[k] = s[k], t[Len(s) + 1] = d
  PROVE  Append(s, d) = t
<1>1. /\ Append(s, d) \in Seq(S) /\ Len(Append(s, d)) = Len(t)
      /\ \A k \in 1..Len(s) : Append(s, d)[k] = t[k]
      /\ Append(s, d)[Len(s) + 1] = t[Len(s) + 1]
  BY AppendProperties
<1>2. 1..Len(t) = 1..Len(s) \cup {Len(s) + 1} /\ Len(s) \in Nat
  OBVIOUS
<1>3. \A k \in 1..Len(t) : Append(s, d)[k] = t[k]
  BY <1>1, <1>2
<1>4. QED
  BY <1>1, <1>3, SeqEqual

\* The requests of a burst, one by one.
LEMMA BurstAppends ==
  ASSUME NEW a, NEW b, NEW c, NEW d
  PROVE  /\ Append(<<>>, a) = <<a>> /\ Append(<<a>>, b) = <<a, b>>
         /\ Append(<<a, b>>, c) = <<a, b, c>> /\ Append(<<a, b, c>>, d) = <<a, b, c, d>>
<1> DEFINE S == {a, b, c, d}
<1>1. /\ <<>> \in Seq(S) /\ <<a>> \in Seq(S) /\ <<a, b>> \in Seq(S)
      /\ <<a, b, c>> \in Seq(S) /\ <<a, b, c, d>> \in Seq(S)
      /\ a \in S /\ b \in S /\ c \in S /\ d \in S
  OBVIOUS
<1> HIDE DEF S
<1>2. /\ Len(<<>>) = 0 /\ Len(<<a>>) = 1 /\ Len(<<a, b>>) = 2
      /\ Len(<<a, b, c>>) = 3 /\ Len(<<a, b, c, d>>) = 4
  OBVIOUS
<1>3. Append(<<>>, a) = <<a>>
  BY <1>1, <1>2, IsAppend
<1>4. Append(<<a>>, b) = <<a, b>>
  <2>1. /\ \A k \in 1..Len(<<a>>) : <<a, b>>[k] = <<a>>[k]
        /\ <<a, b>>[Len(<<a>>) + 1] = b /\ Len(<<a, b>>) = Len(<<a>>) + 1
    BY <1>2
  <2>2. QED
    BY <1>1, <2>1, IsAppend
<1>5. Append(<<a, b>>, c) = <<a, b, c>>
  <2>1. /\ \A k \in 1..Len(<<a, b>>) : <<a, b, c>>[k] = <<a, b>>[k]
        /\ <<a, b, c>>[Len(<<a, b>>) + 1] = c /\ Len(<<a, b, c>>) = Len(<<a, b>>) + 1
    BY <1>2
  <2>2. QED
    BY <1>1, <2>1, IsAppend
<1>6. Append(<<a, b, c>>, d) = <<a, b, c, d>>
  <2>1. /\ \A k \in 1..Len(<<a, b, c>>) : <<a, b, c, d>>[k] = <<a, b, c>>[k]
        /\ <<a, b, c, d>>[Len(<<a, b, c>>) + 1] = d /\ Len(<<a, b, c, d>>) = Len(<<a, b, c>>) + 1
    BY <1>2
  <2>2. QED
    BY <1>1, <2>1, IsAppend
<1>7. QED
  BY <1>3, <1>4, <1>5, <1>6

\* A complete command, from its request and its arguments.
LEMMA ClearTuple ==
  ASSUME NEW n, NEW a, NEW b
  PROVE  <<n>> \o Tail(<<a, b>>) = <<n, b>>
<1> DEFINE S == {n, a, b}
<1>1. /\ Tail(<<a, b>>) = <<b>>
      /\ <<n>> \in Seq(S) /\ <<b>> \in Seq(S) /\ <<n, b>> \in Seq(S)
  OBVIOUS
<1> HIDE DEF S
<1>2. <<n>> \o <<b>> \in Seq(S) /\ Len(<<n>> \o <<b>>) = 2 /\ Len(<<n, b>>) = 2
  BY <1>1, ConcatProperties
<1>3. \A k \in 1..2 : (<<n>> \o <<b>>)[k] = <<n, b>>[k]
  BY <1>1
<1>4. QED
  BY <1>1, <1>2, <1>3, SeqEqual

LEMMA PixelTuple ==
  ASSUME NEW n, NEW a, NEW b, NEW c, NEW d
  PROVE  <<n>> \o Tail(<<a, b, c, d>>) = <<n, b, c, d>>
<1> DEFINE S == {n, a, b, c, d}
<1>1. /\ Tail(<<a, b, c, d>>) = <<b, c, d>>
      /\ <<n>> \in Seq(S) /\ <<b, c, d>> \in Seq(S) /\ <<n, b, c, d>> \in Seq(S)
  OBVIOUS
<1> HIDE DEF S
<1>2. /\ <<n>> \o <<b, c, d>> \in Seq(S) /\ Len(<<n>> \o <<b, c, d>>) = 4
      /\ Len(<<n, b, c, d>>) = 4
  BY <1>1, ConcatProperties
<1>3. \A k \in 1..4 : (<<n>> \o <<b, c, d>>)[k] = <<n, b, c, d>>[k]
  BY <1>1
<1>4. QED
  BY <1>1, <1>2, <1>3, SeqEqual

-----------------------------------------------------------------------------
(* The invariant.                                                          *)

Masters(d) == {p \in Proc : d \in ToSet(slave_driver_groups[p])}

\* What the screen's master has sent of a command is what the statics hold;
\* all others have sent nothing, and no burst is open without a master.
Sender(p) ==
  /\ ~ cmd_bursting => data_index = 0 /\ sent[p] = <<>>
  /\ cmd_bursting /\ data_index = 0 => sent[p] = <<saved_req>>
  /\ cmd_bursting /\ data_index = 1 =>
       saved_req = SCREENUAPI_PUTPIXEL /\ sent[p] = <<SCREENUAPI_PUTPIXEL, arg.x>>
  /\ cmd_bursting /\ data_index = 2 =>
       saved_req = SCREENUAPI_PUTPIXEL /\ sent[p] = <<SCREENUAPI_PUTPIXEL, arg.x, arg.y>>

BurstInv ==
  /\ \A p \in Masters(DRIVERTYPE_DISPLAY) : Sender(p)
  /\ \A p \in Proc \ Masters(DRIVERTYPE_DISPLAY) : sent[p] = <<>>
  /\ Masters(DRIVERTYPE_DISPLAY) = {} => ~ cmd_bursting /\ data_index = 0

DInv ==
  /\ TypeOK /\ SoleMaster /\ BurstInv /\ DrawsWhatWasAsked
  /\ sent \in [Proc -> Seq(Data)]

LEMMA InitDInv == Init => DInv
<1> SUFFICES ASSUME Init PROVE DInv
  OBVIOUS
<1>1. \A d : Masters(d) = {}
  BY DEF Init, Masters, ToSet
<1>2. TypeOK /\ sent \in [Proc -> Seq(Data)]
  <2>1. <<>> \in Seq(Data) /\ <<>> \in Seq(1..DRIVERTYPE_COUNT) /\ 0 \in 0..2
    BY DisplayAssumption
  <2>2. QED
    BY <2>1, DisplayAssumption DEF Init, TypeOK, Status, claims, burst
<1>3. SoleMaster
  BY <1>1 DEF Init, SoleMaster, Masters
<1>4. BurstInv /\ DrawsWhatWasAsked
  BY <1>1 DEF Init, BurstInv, DrawsWhatWasAsked
<1>5. QED
  BY <1>2, <1>3, <1>4 DEF DInv

-----------------------------------------------------------------------------
(* Claims.                                                                 *)

LEMMA ClaimDInv ==
  ASSUME DInv, NEW p \in Proc, NEW d, drv_claim(p, d)
  PROVE  DInv'
<1> USE DEF claims, burst
<1>1. /\ TypeOK /\ SoleMaster /\ BurstInv /\ sent \in [Proc -> Seq(Data)]
      /\ d \in 1..DRIVERTYPE_COUNT /\ d \notin drivertypes
  BY DEF DInv, drv_claim, Claimable
<1>2. /\ drivertypes' = drivertypes \cup {d}
      /\ slave_driver_groups' = [slave_driver_groups EXCEPT ![p] = Append(@, d)]
      /\ drawn' = Nothing /\ asked' = Nothing
      /\ UNCHANGED <<live, cmd_bursting, saved_req, data_index, arg, rax, sent>>
  BY DEF drv_claim
<1>3. \A q \in Proc : slave_driver_groups[q] \in Seq(1..DRIVERTYPE_COUNT)
  BY <1>1 DEF TypeOK
<1>4. Append(slave_driver_groups[p], d) \in Seq(1..DRIVERTYPE_COUNT)
  BY <1>1, <1>3
<1>5. ToSet(slave_driver_groups'[p]) = ToSet(slave_driver_groups[p]) \cup {d}
  <2>1. slave_driver_groups'[p] = Append(slave_driver_groups[p], d)
    BY <1>1, <1>2 DEF TypeOK
  <2>2. slave_driver_groups[p] \in Seq(1..DRIVERTYPE_COUNT)
    BY <1>3
  <2>3. ToSet(Append(slave_driver_groups[p], d)) = ToSet(slave_driver_groups[p]) \cup {d}
    <3>1. d \in 1..DRIVERTYPE_COUNT
      BY <1>1
    <3> DEFINE T == 1..DRIVERTYPE_COUNT
               s == slave_driver_groups[p]
    <3> HIDE DEF T, s
    <3>2. s \in Seq(T) /\ d \in T
      BY <2>2, <3>1 DEF T, s
    <3>3. ToSet(Append(s, d)) = ToSet(s) \cup {d}
      BY <3>2, ToSetAppend
    <3>4. QED
      BY <3>3 DEF s
  <2>4. QED
    BY <2>1, <2>3, Zenon
<1>6. \A q \in Proc \ {p} : slave_driver_groups'[q] = slave_driver_groups[q]
  BY <1>1, <1>2 DEF TypeOK
<1>7. Masters(d) = {}
  BY <1>1 DEF SoleMaster, Masters
<1>8. \A k : Masters(k)' = IF k = d THEN {p} ELSE Masters(k)
  BY <1>5, <1>6, <1>7 DEF Masters
<1>9. TypeOK'
  BY <1>1, <1>2, <1>4 DEF TypeOK
<1>10. SoleMaster'
  <2>1. \A k \in 1..DRIVERTYPE_COUNT :
          /\ \A q, r \in Masters(k)' : q = r
          /\ k \in drivertypes' <=> Masters(k)' # {}
    <3>1. \A k \in 1..DRIVERTYPE_COUNT :
            (\A q, r \in Masters(k) : q = r) /\ (k \in drivertypes <=> Masters(k) # {})
      BY <1>1, Zenon DEF SoleMaster, Masters
    <3>2. QED
      BY <1>2, <1>8, <3>1
  <2>2. QED
    BY <2>1, Zenon DEF SoleMaster, Masters
<1>11. BurstInv'
  <2>1. CASE d = DRIVERTYPE_DISPLAY
    <3>1. /\ ~ cmd_bursting /\ data_index = 0 /\ \A q \in Proc : sent[q] = <<>>
          /\ Masters(DRIVERTYPE_DISPLAY)' = {p}
      BY <1>1, <1>7, <1>8, <2>1 DEF BurstInv
    <3>2. QED
      BY <1>2, <3>1 DEF BurstInv, Sender
  <2>2. CASE d # DRIVERTYPE_DISPLAY
    BY <1>1, <1>2, <1>8, <2>2 DEF BurstInv, Sender
  <2>3. QED
    BY <2>1, <2>2
<1>12. QED
  BY <1>1, <1>2, <1>9, <1>10, <1>11 DEF DInv, DrawsWhatWasAsked

-----------------------------------------------------------------------------
(* Requests.                                                               *)

\* One request of the screen's master: the statics and what it has sent go on
\* together, and a command is drawn when it is complete.
LEMMA MasterRequest ==
  ASSUME DInv, NEW p \in Masters(DRIVERTYPE_DISPLAY), NEW req \in Data,
         screen_uapi(p, req), Follow(p, req)
  PROVE  /\ Sender(p)' /\ drawn' = asked'
         /\ sent' \in [Proc -> Seq(Data)] /\ \A q \in Proc \ {p} : sent'[q] = sent[q]
         /\ cmd_bursting' \in BOOLEAN /\ saved_req' \in {0, 1} /\ data_index' \in 0..2
         /\ arg' \in [x : Data, y : Data, color : Data] /\ rax' \in Status
<1> USE DEF SCREENUAPI_CLEARSCREEN, SCREENUAPI_PUTPIXEL
<1> DEFINE s == IF sent[p] = <<>> /\ req \notin {0, 1} THEN <<>> ELSE Append(sent[p], req)
           done == s # <<>> /\ Len(s) = 1 + MaxArgs(s[1])
<1>1. /\ p \in Proc /\ verify_drvmaster(p) /\ Sender(p) /\ sent \in [Proc -> Seq(Data)]
      /\ cmd_bursting \in BOOLEAN /\ saved_req \in {0, 1} /\ data_index \in 0..2
      /\ arg \in [x : Data, y : Data, color : Data] /\ {0, 1} \subseteq Data
  BY DisplayAssumption DEF DInv, BurstInv, TypeOK, Masters, verify_drvmaster
<1>2. /\ sent' = [sent EXCEPT ![p] = IF done THEN <<>> ELSE s]
      /\ asked' = IF ~ done THEN Nothing
                  ELSE <<IF s[1] = 0 THEN "clear" ELSE "pixel">> \o Tail(s)
  BY DEF Follow
<1>3. /\ sent[p] = <<>> /\ req \notin {0, 1} => s = <<>>
      /\ sent[p] # <<>> \/ req \in {0, 1} => s = Append(sent[p], req)
      /\ done <=> s # <<>> /\ Len(s) = 1 + MaxArgs(s[1])
      /\ done => sent'[p] = <<>>
      /\ ~ done => sent'[p] = s
  BY <1>1, <1>2
<1>0. /\ \A a, b, c : <<a>> # <<>> /\ <<a, b>> # <<>> /\ <<a, b, c>> # <<>>
      /\ 0 # 1 /\ 0 # 2 /\ 1 # 2
  OBVIOUS
<1>4. sent' \in [Proc -> Seq(Data)] /\ \A q \in Proc \ {p} : sent'[q] = sent[q]
  <2>1. s \in Seq(Data) /\ <<>> \in Seq(Data)
    BY <1>1
  <2>2. QED
    BY <1>1, <1>2, <2>1
<1> HIDE DEF s, done
<1>5. CASE ~ cmd_bursting
  <2>1. sent[p] = <<>> /\ data_index = 0 /\ BeginBurst(req)
    BY <1>1, <1>5 DEF Sender, screen_uapi
  <2>2. /\ cmd_bursting' = (req \in {0, 1}) /\ saved_req' = IF cmd_bursting' THEN req ELSE saved_req
        /\ rax' = "OK" /\ drawn' = Nothing /\ data_index' = 0 /\ arg' = arg
    BY <2>1 DEF BeginBurst
  <2>3. CASE req \in {0, 1}
    <3>1. s = <<req>>
      BY <1>3, <2>1, <2>3, BurstAppends
    <3>2. s[1] = req /\ Len(s) = 1 /\ MaxArgs(req) \in {1, 3}
      BY <2>3, <3>1 DEF MaxArgs
    <3>3. ~ done
      BY <1>3, <3>2
    <3>4. Sender(p)'
      BY <1>0, <1>3, <2>2, <2>3, <3>1, <3>3, Zenon DEF Sender
    <3>5. QED
      BY <1>1, <1>2, <1>4, <2>2, <2>3, <3>3, <3>4 DEF Status
  <2>4. CASE req \notin {0, 1}
    <3>1. s = <<>> /\ ~ done
      BY <1>3, <2>1, <2>4
    <3>2. Sender(p)'
      BY <1>0, <1>3, <2>2, <2>4, <3>1, Zenon DEF Sender
    <3>3. QED
      <4>0. cmd_bursting' = FALSE
        <5>1. (req \in {0, 1}) = FALSE
          BY <2>4
        <5>2. QED
          BY <2>2, <5>1, Zenon
      <4>1. saved_req' = saved_req /\ rax' \in Status /\ cmd_bursting' \in BOOLEAN
        BY <2>2, <4>0, Zenon DEF Status
      <4>2. drawn' = asked' /\ data_index' \in 0..2
        BY <1>2, <2>2, <3>1
      <4>3. QED
        BY <1>1, <1>4, <2>2, <3>2, <4>1, <4>2, Zenon
  <2>5. QED
    BY <2>3, <2>4
<1>6. CASE cmd_bursting
  <2>1. process_req(req)
    BY <1>1, <1>6 DEF screen_uapi
  <2>2. arg' = Stored(req)
    BY <2>1 DEF process_req
  <2>3. LastArgument => /\ data_index' = 0 /\ drawn' = Call(arg') /\ rax' = "OK"
                        /\ saved_req' = 0 /\ cmd_bursting' = FALSE
    BY <2>1 DEF process_req
  <2>4. ~ LastArgument => /\ data_index' = data_index + 1 /\ drawn' = Nothing
                          /\ rax' = "CMDBURST_CONTINUE"
                          /\ saved_req' = saved_req /\ cmd_bursting' = cmd_bursting
    BY <2>1 DEF process_req
  <2>5. CASE data_index = 0 /\ saved_req = 0
    <3>1. sent[p] = <<0>> /\ sent[p] # <<>>
      BY <1>0, <1>1, <1>6, <2>5, Zenon DEF Sender
    <3>2. s = <<0, req>>
      BY <1>3, <3>1, BurstAppends
    <3>3. s[1] = 0 /\ Len(s) = 2 /\ MaxArgs(0) = 1 /\ s # <<>>
      BY <3>2 DEF MaxArgs
    <3>4. done
      BY <1>3, <3>3
    <3>5. LastArgument /\ arg' = [arg EXCEPT !.color = req]
      BY <2>2, <2>5 DEF LastArgument, MaxArgs, Stored
    <3>6. asked' = <<"clear", req>>
      BY <1>2, <3>2, <3>3, <3>4, ClearTuple
    <3>7. drawn' = <<"clear", req>> /\ arg' \in [x : Data, y : Data, color : Data]
      BY <1>1, <2>3, <2>5, <3>5 DEF Call
    <3>8. Sender(p)'
      BY <1>0, <1>3, <2>3, <3>4, <3>5, Zenon DEF Sender
    <3>9. QED
      <4>1. cmd_bursting' \in BOOLEAN /\ rax' \in Status
        BY <2>3, <3>5, Zenon DEF Status
      <4>2. drawn' = asked' /\ saved_req' \in {0, 1} /\ data_index' \in 0..2
        BY <2>3, <3>5, <3>6, <3>7
      <4>3. QED
        BY <1>4, <3>7, <3>8, <4>1, <4>2, Zenon
  <2>6. CASE data_index = 0 /\ saved_req = 1
    <3>1. sent[p] = <<1>> /\ sent[p] # <<>>
      BY <1>0, <1>1, <1>6, <2>6, Zenon DEF Sender
    <3>2. s = <<1, req>>
      BY <1>3, <3>1, BurstAppends
    <3>3. s[1] = 1 /\ Len(s) = 2 /\ MaxArgs(1) = 3
      BY <3>2 DEF MaxArgs
    <3>4. ~ done
      BY <1>3, <3>3
    <3>5. ~ LastArgument /\ arg' = [arg EXCEPT !.x = req]
      BY <2>2, <2>6 DEF LastArgument, MaxArgs, Stored
    <3>6. arg'.x = req /\ arg' \in [x : Data, y : Data, color : Data]
      BY <1>1, <3>5
    <3>7. QED
      <4>1. Sender(p)'
        <5>1. data_index' = 1
          BY <2>4, <2>6, <3>5
        <5>2. QED
          BY <1>0, <1>3, <1>6, <2>4, <2>6, <3>2, <3>4, <3>5, <3>6, <5>1, Zenon DEF Sender
      <4>2. QED
        BY <1>2, <1>4, <1>6, <2>4, <2>6, <3>4, <3>5, <3>6, <4>1 DEF Status
  <2>7. CASE data_index = 1
    <3>1. saved_req = 1 /\ sent[p] = <<1, arg.x>> /\ sent[p] # <<>>
      BY <1>0, <1>1, <1>6, <2>7, Zenon DEF Sender
    <3>2. s = <<1, arg.x, req>>
      BY <1>3, <3>1, BurstAppends
    <3>3. s[1] = 1 /\ Len(s) = 3 /\ MaxArgs(1) = 3
      BY <3>2 DEF MaxArgs
    <3>4. ~ done
      BY <1>3, <3>3
    <3>5. ~ LastArgument /\ arg' = [arg EXCEPT !.y = req]
      BY <2>2, <2>7, <3>1 DEF LastArgument, MaxArgs, Stored
    <3>6. arg'.x = arg.x /\ arg'.y = req /\ arg' \in [x : Data, y : Data, color : Data]
      BY <1>1, <3>5
    <3>7. QED
      <4>1. Sender(p)'
        <5>1. data_index' = 2
          BY <2>4, <2>7, <3>5
        <5>2. QED
          BY <1>0, <1>3, <1>6, <2>4, <3>1, <3>2, <3>4, <3>5, <3>6, <5>1, Zenon DEF Sender
      <4>2. QED
        BY <1>2, <1>4, <1>6, <2>4, <2>7, <3>1, <3>4, <3>5, <3>6, <4>1 DEF Status
  <2>8. CASE data_index = 2
    <3>1. saved_req = 1 /\ sent[p] = <<1, arg.x, arg.y>> /\ sent[p] # <<>>
      BY <1>0, <1>1, <1>6, <2>8, Zenon DEF Sender
    <3>2. s = <<1, arg.x, arg.y, req>>
      BY <1>3, <3>1, BurstAppends
    <3>3. s[1] = 1 /\ Len(s) = 4 /\ MaxArgs(1) = 3 /\ s # <<>>
      BY <3>2 DEF MaxArgs
    <3>4. done
      BY <1>3, <3>3
    <3>5. LastArgument /\ arg' = [arg EXCEPT !.color = req]
      BY <2>2, <2>8, <3>1 DEF LastArgument, MaxArgs, Stored
    <3>6. asked' = <<"pixel", arg.x, arg.y, req>>
      <4>1. asked' = <<"pixel">> \o Tail(s)
        BY <1>0, <1>2, <3>3, <3>4, Zenon
      <4>2. QED
        <5> DEFINE x == arg.x
                   y == arg.y
        <5>1. s = <<1, x, y, req>>
          BY <3>2
        <5> HIDE DEF x, y
        <5>2. <<"pixel">> \o Tail(<<1, x, y, req>>) = <<"pixel", x, y, req>>
          BY PixelTuple
        <5>3. asked' = <<"pixel", x, y, req>>
          BY <4>1, <5>1, <5>2, Zenon
        <5>4. QED
          BY <5>3 DEF x, y
    <3>7. /\ drawn' = <<"pixel", arg.x, arg.y, req>>
          /\ arg' \in [x : Data, y : Data, color : Data]
      BY <1>1, <2>3, <3>1, <3>5 DEF Call
    <3>8. Sender(p)'
      BY <1>0, <1>3, <2>3, <3>4, <3>5, Zenon DEF Sender
    <3>9. QED
      <4>1. cmd_bursting' \in BOOLEAN /\ rax' \in Status
        BY <2>3, <3>5, Zenon DEF Status
      <4>2. drawn' = asked' /\ saved_req' \in {0, 1} /\ data_index' \in 0..2
        BY <2>3, <3>5, <3>6, <3>7
      <4>3. QED
        BY <1>4, <3>7, <3>8, <4>1, <4>2, Zenon
  <2>9. QED
    BY <1>1, <2>5, <2>6, <2>7, <2>8
<1>7. QED
  BY <1>1, <1>5, <1>6

LEMMA RequestDInv ==
  ASSUME DInv, NEW p \in Proc, NEW service, NEW req \in Data, sys_req(p, service, req)
  PROVE  DInv'
<1>1. /\ TypeOK /\ SoleMaster /\ BurstInv /\ sent \in [Proc -> Seq(Data)]
      /\ UNCHANGED <<live, drivertypes, slave_driver_groups>>
      /\ sysreq(p, service, req)
  BY DEF DInv, sys_req, claims
<1>2. \A k : Masters(k)' = Masters(k)
  BY <1>1 DEF Masters
<1>3. SoleMaster'
  BY <1>1 DEF SoleMaster
<1>4. CASE service = "SCREEN" /\ p \in Masters(DRIVERTYPE_DISPLAY)
  <2>1. screen_uapi(p, req) /\ Follow(p, req)
    BY <1>1, <1>4 DEF sysreq, Service, Masters
  <2>2. /\ Sender(p)' /\ drawn' = asked'
        /\ sent' \in [Proc -> Seq(Data)] /\ \A q \in Proc \ {p} : sent'[q] = sent[q]
        /\ cmd_bursting' \in BOOLEAN /\ saved_req' \in {0, 1} /\ data_index' \in 0..2
        /\ arg' \in [x : Data, y : Data, color : Data] /\ rax' \in Status
    BY <1>4, <2>1, MasterRequest
  <2>3. TypeOK'
    BY <1>1, <2>2 DEF TypeOK
  <2>4. \A q \in Masters(DRIVERTYPE_DISPLAY) : q = p
    <3>1. 1 \in 1..DRIVERTYPE_COUNT
      BY DisplayAssumption
    <3>2. QED
      BY <1>1, <1>4, <3>1 DEF SoleMaster, Masters, DRIVERTYPE_DISPLAY
  <2>5. BurstInv'
    BY <1>1, <1>2, <1>4, <2>2, <2>4 DEF BurstInv
  <2>6. QED
    BY <1>3, <2>2, <2>3, <2>5 DEF DInv, DrawsWhatWasAsked
<1>5. CASE service # "SCREEN" \/ p \notin Masters(DRIVERTYPE_DISPLAY)
  <2>1. /\ UNCHANGED <<cmd_bursting, saved_req, data_index, arg, sent>>
        /\ rax' \in Status /\ drawn' = Nothing /\ asked' = Nothing
    BY <1>1, <1>5 DEF sysreq, screen_uapi, verify_drvmaster, Masters, burst, Status
  <2>2. TypeOK'
    BY <1>1, <2>1 DEF TypeOK
  <2>3. BurstInv'
    BY <1>1, <1>2, <2>1 DEF BurstInv, Sender
  <2>4. QED
    BY <1>1, <1>3, <2>1, <2>2, <2>3 DEF DInv, DrawsWhatWasAsked
<1>6. QED
  BY <1>4, <1>5

-----------------------------------------------------------------------------
(* The theorems.                                                           *)

LEMMA NextDInv ==
  ASSUME DInv, [Next]_vars
  PROVE  DInv'
<1>1. ASSUME NEW p \in Proc, Exit(p)
      PROVE  DInv'
  <2>1. live' \subseteq live /\ drawn' = Nothing /\ asked' = Nothing
    BY <1>1 DEF Exit
  <2>2. UNCHANGED <<drivertypes, slave_driver_groups, cmd_bursting, saved_req,
                    data_index, arg, rax, sent>>
    BY <1>1 DEF Exit, claims, burst
  <2>3. QED
    BY <2>1, <2>2 DEF DInv, TypeOK, SoleMaster, BurstInv, Sender, Masters, DrawsWhatWasAsked
<1>2. CASE UNCHANGED vars
  BY <1>2 DEF vars, claims, burst, DInv, TypeOK, SoleMaster, BurstInv, Sender, Masters,
              DrawsWhatWasAsked
<1>3. CASE Next
  BY <1>1, <1>3, ClaimDInv, RequestDInv DEF Next
<1>4. QED
  BY <1>2, <1>3

LEMMA DInvariantProof == Spec => []DInv
<1>1. DInv /\ [Next]_vars => DInv'
  BY NextDInv
<1>2. QED
  BY <1>1, InitDInv, PTL DEF Spec

\* The claims, the statics of a burst and the status keep their types.
THEOREM DisplayTypeCorrect == Spec => []TypeOK
<1>1. DInv => TypeOK
  BY DEF DInv
<1>2. QED
  BY <1>1, DInvariantProof, PTL

\* drv_claim gives every driver at most one master for ever, dead or alive.
THEOREM OneMaster == Spec => []SoleMaster
<1>1. DInv => SoleMaster
  BY DEF DInv
<1>2. QED
  BY <1>1, DInvariantProof, PTL

\* screen_uapi draws the commands its master sent and nothing else: no burst
\* in the static variables mixes the requests of two processes.
THEOREM DrawsTheCommands == Spec => []DrawsWhatWasAsked
<1>1. DInv => DrawsWhatWasAsked
  BY DEF DInv
<1>2. QED
  BY <1>1, DInvariantProof, PTL
=============================================================================
