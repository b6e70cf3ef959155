--------------------------- MODULE VoxLinkCli_proof ---------------------------
(***************************************************************************)
(* The reference client: what it prints under a revision is true, for      *)
(* every registry, frame size, ring and size of a read, any commands and   *)
(* any number of faults; and what it prints of a quiet P4 on a clean line  *)
(* is the whole answer.                                                    *)
(***************************************************************************)
EXTENDS VoxLinkCli, VoxLinkUart_proof

-----------------------------------------------------------------------------
(* The frames that the client may still be given *)

LineUnit == [frame : ServerFrame, part : Nat \ {0}, damage : Damage \union {"none"}]

FramesOf(units) == [i \in 1..Len(units) |-> units[i].frame]
OnWire(units) ==
    [i \in 1..Len(units) |-> HostUnit(units[i].frame, units[i].part, "none")]

FramesIn(units) == {units[i].frame : i \in 1..Len(units)}
Items(frames) == {frames[i] : i \in 1..Len(frames)}
InPlay == FramesIn(tx) \union FramesIn(line) \union FramesIn(buf)
            \union Items(batch) \union Items(out)

(* A frame under a revision tells the P4's value at that revision.          *)
ToldBy(past, frame) ==
    frame.revision # NoValue =>
        /\ frame.revision + 1 \in 1..Len(past)
        /\ frame.param \in Param => frame.value = past[frame.revision + 1][frame.param]

(* Units that follow one another, frame after frame, the last one complete. *)
Complete(unit) == unit.part = Size(unit.frame.type)
Follows(unit, next) ==
    IF Complete(unit) THEN next.part = 1
    ELSE next.frame = unit.frame /\ next.part = unit.part + 1
Chained(units) ==
    /\ \A i \in 1..Len(units) : units[i].part <= Size(units[i].frame.type)
    /\ \A i \in 1..(Len(units) - 1) : Follows(units[i], units[i + 1])
    /\ units # <<>> => Complete(units[Len(units)])
Undamaged(units) == \A i \in 1..Len(units) : units[i].damage = "none"

(* A snapshot's value that its revision does not have.                      *)
Mismatch(past, begin, param) ==
    /\ begin.type = "STATE_BEGIN" /\ param.type = "STATE_PARAM"
    /\ param.param \in Param /\ begin.revision # NoValue
    /\ param.value # past[begin.revision + 1][param.param]
AtOdds(past, f, g) == Mismatch(past, f, g) \/ Mismatch(past, g, f)

(* Between two snapshots there is the end of the first one.                 *)
EndIn(frames, i, j) == \E k \in i..j : frames[k].type = "STATE_END"
Apart(past, frames) ==
    \A i, j \in 1..Len(frames) :
        i < j /\ AtOdds(past, frames[i], frames[j]) => EndIn(frames, i, j)
Closed(frames) ==
    \A i \in 1..Len(frames) :
        frames[i].type \in {"STATE_BEGIN", "STATE_PARAM"} => EndIn(frames, i, Len(frames))

(* Nothing is missing from what is still to be read, and what has been read *)
(* and what is to be read are snapshots that keep apart.                    *)
Orderly(past, received, coming) ==
    /\ Chained(coming) /\ Undamaged(coming)
    /\ received # <<>> /\ coming # <<>> => coming[1].part = 1
    /\ Apart(past, received \o FramesOf(coming))
    /\ Closed(received \o FramesOf(coming))

Reading == pc \in {"read", "feed", "filter"}
Received == IF pc = "read" THEN out
            ELSE IF pc \in {"feed", "filter"} THEN out \o batch ELSE <<>>
Coming == IF Reading THEN buf \o (line \o OnWire(tx)) ELSE OnWire(tx)

-----------------------------------------------------------------------------
(* The inductive invariant *)

CliTypeOK ==
    /\ SessionTypeOK
    /\ up \in Seq(ClientFrame) /\ line \in Seq(LineUnit) /\ buf \in Seq(LineUnit)
    /\ batch \in Seq(ServerFrame) /\ out \in Seq(ServerFrame)
    /\ seq \in 0..(StressSends + 1)
    /\ pc \in {"idle", "stress", "read", "feed", "filter", "print"}
    /\ pc # "idle" => cmd \in Command
    /\ Reading \/ pc = "print" => cmd.name # "stress"
    /\ fresh \in BOOLEAN /\ intact \in BOOLEAN

HistoryOK ==
    /\ history \in Seq([Param -> Value]) /\ Len(history) = revision + 1
    /\ history[revision + 1] = values

AllTold == \A frame \in InPlay : ToldBy(history, frame)

(* A state command that began with a quiet P4 has the only request.         *)
OneSnapshot ==
    fresh /\ (Reading \/ pc = "print") /\ cmd.name = "state" =>
        /\ \A request \in Items(up) \union Items(parsed) : request.type = "GET_STATE"
        /\ \A frame \in InPlay :
            /\ frame.revision \in {NoValue, revision}
            /\ frame.param \in Param => frame.value = values[frame.param]

SnapshotsApart == intact => Orderly(history, Received, Coming)

EndsRequest == Reading => \A i \in 1..Len(out) : out[i].type # "STATE_END"

OneIsPrinted ==
    pc = "print" /\ intact =>
        \A i, j \in 1..Len(out) : ~Mismatch(history, out[i], out[j])

ReportTrue ==
    report.revision # NoValue /\ (report.cmd.name = "state" => report.apart) =>
        /\ report.revision + 1 \in 1..Len(history)
        /\ \A p \in report.printed :
            p.param \in Param => p.value = history[report.revision + 1][p.param]

CliIInv ==
    /\ CliTypeOK /\ HistoryOK /\ Chained(tx) /\ AllTold /\ OneSnapshot
    /\ SnapshotsApart /\ EndsRequest /\ OneIsPrinted /\ ReportTrue

-----------------------------------------------------------------------------
(* Sequences *)

LEMMA Joined ==
    ASSUME NEW S, NEW a \in Seq(S), NEW b \in Seq(S)
    PROVE  /\ a \o b \in Seq(S) /\ Len(a) \in Nat /\ Len(b) \in Nat
           /\ Len(a \o b) = Len(a) + Len(b)
           /\ \A i \in 1..Len(a) : (a \o b)[i] = a[i]
           /\ \A i \in 1..Len(b) : (a \o b)[Len(a) + i] = b[i]
<1>1. Len(a) \in Nat /\ Len(b) \in Nat
    BY LenProperties
<1>2. /\ a \o b \in Seq(S) /\ Len(a \o b) = Len(a) + Len(b)
      /\ \A i \in 1..Len(a) + Len(b) :
            (a \o b)[i] = IF i <= Len(a) THEN a[i] ELSE b[i - Len(a)]
    BY ConcatProperties
<1>3. ASSUME NEW i \in 1..Len(b)
      PROVE  (a \o b)[Len(a) + i] = b[i]
    <2>1. Len(a) + i \in 1..Len(a) + Len(b) /\ ~(Len(a) + i <= Len(a))
          /\ (Len(a) + i) - Len(a) = i
        BY <1>1
    <2> QED BY <1>2, <2>1
<1> QED BY <1>1, <1>2, <1>3

(* A place in a joined sequence is a place in one of the two.               *)
LEMMA PlaceJoined ==
    ASSUME NEW m \in Nat, NEW n \in Nat, NEW i \in 1..(m + n)
    PROVE  i \in 1..m \/ (i > m /\ i - m \in 1..n /\ i = m + (i - m))
OBVIOUS

(* A later part of what is apart is apart.                                  *)
LEMMA SuffixApart ==
    ASSUME NEW past, NEW a \in Seq(ServerFrame), NEW b \in Seq(ServerFrame),
           Apart(past, a \o b), Closed(a \o b)
    PROVE  Apart(past, b) /\ Closed(b)
<1> DEFINE all == a \o b
           m == Len(a)
           n == Len(b)
<1>1. /\ m \in Nat /\ n \in Nat /\ Len(all) = m + n
      /\ \A i \in 1..n : all[m + i] = b[i]
    BY Joined
<1>2. Apart(past, all) /\ Closed(all)
    OBVIOUS
<1> HIDE DEF all
<1>3. ASSUME NEW i \in 1..n, NEW j \in 1..n, EndIn(all, m + i, m + j)
      PROVE  EndIn(b, i, j)
    <2>1. PICK k \in (m + i)..(m + j) : all[k].type = "STATE_END"
        BY <1>3 DEF EndIn
    <2>2. k - m \in i..j /\ k - m \in 1..n /\ m + (k - m) = k
        BY <1>1, <2>1
    <2>3. b[k - m].type = "STATE_END"
        BY <1>1, <2>1, <2>2
    <2> QED BY <2>2, <2>3 DEF EndIn
<1>4. Apart(past, b)
    <2> SUFFICES ASSUME NEW i \in 1..n, NEW j \in 1..n, i < j,
                        AtOdds(past, b[i], b[j])
                 PROVE  EndIn(b, i, j)
        BY DEF Apart
    <2>1. m + i \in 1..(m + n) /\ m + j \in 1..(m + n) /\ m + i < m + j
        BY <1>1
    <2>2. EndIn(all, m + i, m + j)
        BY <1>1, <1>2, <2>1 DEF Apart
    <2> QED BY <1>3, <2>2
<1>5. Closed(b)
    <2> SUFFICES ASSUME NEW i \in 1..n, b[i].type \in {"STATE_BEGIN", "STATE_PARAM"}
                 PROVE  EndIn(b, i, n)
        BY DEF Closed
    <2>1. m + i \in 1..(m + n) /\ n \in 1..n
        BY <1>1
    <2>2. EndIn(all, m + i, m + n)
        BY <1>1, <1>2, <2>1 DEF Closed
    <2> QED BY <1>3, <2>1, <2>2
<1> QED BY <1>4, <1>5

(* What comes after snapshots that have ended is apart from them.           *)
LEMMA AppendApart ==
    ASSUME NEW past, NEW a \in Seq(ServerFrame), NEW b \in Seq(ServerFrame),
           Apart(past, a), Closed(a),
           \A i, j \in 1..Len(b) : ~AtOdds(past, b[i], b[j]),
           \A i \in 1..Len(b) : b[i].type \in {"STATE_BEGIN", "STATE_PARAM"} =>
                b[Len(b)].type = "STATE_END"
    PROVE  Apart(past, a \o b) /\ Closed(a \o b)
<1> DEFINE all == a \o b
           m == Len(a)
           n == Len(b)
<1>1. /\ m \in Nat /\ n \in Nat /\ Len(all) = m + n
      /\ \A i \in 1..m : all[i] = a[i]
      /\ \A i \in 1..n : all[m + i] = b[i]
    BY Joined
<1> HIDE DEF all
<1>2. ASSUME NEW i \in 1..m, NEW j \in m..(m + n),
             all[i].type \in {"STATE_BEGIN", "STATE_PARAM"}
      PROVE  EndIn(all, i, j)
    <2>1. a[i].type \in {"STATE_BEGIN", "STATE_PARAM"}
        BY <1>1, <1>2
    <2>2. PICK k \in i..m : a[k].type = "STATE_END"
        BY <2>1 DEF Closed, EndIn
    <2>3. k \in i..j /\ k \in 1..m
        BY <1>1, <2>2
    <2>4. all[k].type = "STATE_END"
        BY <1>1, <2>2, <2>3
    <2> QED BY <2>3, <2>4 DEF EndIn
<1>3. Apart(past, all)
    <2> SUFFICES ASSUME NEW i \in 1..(m + n), NEW j \in 1..(m + n), i < j,
                        AtOdds(past, all[i], all[j])
                 PROVE  EndIn(all, i, j)
        BY <1>1 DEF Apart
    <2>1. CASE i \in 1..m /\ j \in 1..m
        <3>1. AtOdds(past, a[i], a[j])
            BY <1>1, <2>1
        <3>2. PICK k \in i..j : a[k].type = "STATE_END"
            BY <2>1, <3>1 DEF Apart, EndIn
        <3>3. k \in 1..m
            BY <1>1, <2>1, <3>2
        <3> QED BY <1>1, <3>2, <3>3 DEF EndIn
    <2>2. CASE i \in 1..m /\ j > m
        <3>1. all[i].type \in {"STATE_BEGIN", "STATE_PARAM"} /\ j \in m..(m + n)
            BY <1>1, <2>2 DEF AtOdds, Mismatch
        <3> QED BY <1>2, <2>2, <3>1
    <2>3. CASE i > m
        <3>1. i - m \in 1..n /\ j - m \in 1..n /\ m + (i - m) = i /\ m + (j - m) = j
            BY <1>1, <2>3
        <3>2. all[i] = b[i - m] /\ all[j] = b[j - m]
            BY <1>1, <3>1
        <3> QED BY <3>1, <3>2
    <2> QED BY <1>1, <2>1, <2>2, <2>3
<1>4. Closed(all)
    <2> SUFFICES ASSUME NEW i \in 1..(m + n),
                        all[i].type \in {"STATE_BEGIN", "STATE_PARAM"}
                 PROVE  EndIn(all, i, m + n)
        BY <1>1 DEF Closed
    <2>1. CASE i \in 1..m
        BY <1>1, <1>2, <2>1
    <2>2. CASE i > m
        <3>1. i - m \in 1..n /\ m + (i - m) = i /\ n \in 1..n /\ m + n \in i..(m + n)
            BY <1>1, <2>2
        <3>2. b[i - m].type \in {"STATE_BEGIN", "STATE_PARAM"}
            BY <1>1, <3>1
        <3>3. b[n].type = "STATE_END" /\ all[m + n] = b[n]
            BY <1>1, <3>1, <3>2
        <3> QED BY <3>1, <3>3 DEF EndIn
    <2> QED BY <1>1, <2>1, <2>2
<1> QED BY <1>3, <1>4 DEF all

(* The units of a frame count as the frame once it is complete.             *)
LEMMA OneForAll ==
    ASSUME NEW past, NEW a \in Seq(ServerFrame), NEW b \in Seq(ServerFrame),
           NEW c \in Seq(ServerFrame), NEW f \in ServerFrame,
           b # <<>>, \A i \in 1..Len(b) : b[i] = f,
           Apart(past, a \o (b \o c)), Closed(a \o (b \o c))
    PROVE  Apart(past, (a \o <<f>>) \o c) /\ Closed((a \o <<f>>) \o c)
<1> DEFINE old == a \o (b \o c)
           new == (a \o <<f>>) \o c
           m == Len(a)
           n == Len(b)
           l == Len(c)
           g(i) == IF i <= m + 1 THEN i ELSE i + (n - 1)
           h(k) == IF k <= m THEN k ELSE IF k <= m + n THEN m + 1 ELSE k - (n - 1)
<1>1. m \in Nat /\ n \in Nat /\ l \in Nat /\ n >= 1
    BY LenProperties, EmptySeq
<1>2. /\ Len(old) = m + (n + l)
      /\ \A i \in 1..m : old[i] = a[i]
      /\ \A i \in 1..n : old[m + i] = f
      /\ \A i \in 1..l : old[m + (n + i)] = c[i]
    <2>1. /\ b \o c \in Seq(ServerFrame) /\ Len(b \o c) = n + l
          /\ \A i \in 1..n : (b \o c)[i] = b[i]
          /\ \A i \in 1..l : (b \o c)[n + i] = c[i]
        BY Joined
    <2> DEFINE bc == b \o c
    <2> HIDE DEF bc
    <2>2. /\ bc \in Seq(ServerFrame) /\ Len(bc) = n + l
          /\ \A i \in 1..n : bc[i] = f
          /\ \A i \in 1..l : bc[n + i] = c[i]
        BY <2>1 DEF bc
    <2>3. /\ Len(a \o bc) = m + Len(bc)
          /\ \A i \in 1..m : (a \o bc)[i] = a[i]
          /\ \A i \in 1..Len(bc) : (a \o bc)[m + i] = bc[i]
        <3>1. a \in Seq(ServerFrame) /\ bc \in Seq(ServerFrame)
            BY <2>2
        <3> QED BY ONLY <3>1, Joined
    <2>4. \A i \in 1..n : i \in 1..Len(bc)
        BY <1>1, <2>2
    <2>5. \A i \in 1..l : n + i \in 1..Len(bc)
        BY <1>1, <2>2
    <2> QED BY <2>2, <2>3, <2>4, <2>5 DEF bc
<1>3. /\ Len(new) = (m + 1) + l
      /\ \A i \in 1..m : new[i] = a[i]
      /\ new[m + 1] = f
      /\ \A i \in 1..l : new[(m + 1) + i] = c[i]
    <2>1. <<f>> \in Seq(ServerFrame) /\ Len(<<f>>) = 1 /\ <<f>>[1] = f
        BY OneFrame
    <2>2. /\ a \o <<f>> \in Seq(ServerFrame) /\ Len(a \o <<f>>) = m + 1
          /\ \A i \in 1..m : (a \o <<f>>)[i] = a[i]
          /\ (a \o <<f>>)[m + 1] = f
        BY <2>1, Joined
    <2> DEFINE af == a \o <<f>>
    <2> HIDE DEF af
    <2>3. /\ af \in Seq(ServerFrame) /\ Len(af) = m + 1
          /\ \A i \in 1..m : af[i] = a[i]
          /\ af[m + 1] = f
        BY <2>2 DEF af
    <2>4. /\ Len(af \o c) = Len(af) + l
          /\ \A i \in 1..Len(af) : (af \o c)[i] = af[i]
          /\ \A i \in 1..l : (af \o c)[Len(af) + i] = c[i]
        <3>1. af \in Seq(ServerFrame) /\ c \in Seq(ServerFrame)
            BY <2>3
        <3> QED BY ONLY <3>1, Joined
    <2>5. \A i \in 1..m : i \in 1..(m + 1)
        BY <1>1
    <2>6. m + 1 \in 1..(m + 1)
        BY <1>1
    <2> QED BY <2>3, <2>4, <2>5, <2>6 DEF af
<1>4. Apart(past, old) /\ Closed(old)
    OBVIOUS
<1> HIDE DEF old, new, m, n, l
<1>5. ASSUME NEW i \in 1..(m + 1 + l)
      PROVE  g(i) \in 1..(m + (n + l)) /\ old[g(i)] = new[i]
    <2>1. CASE i <= m
        BY <1>1, <1>2, <1>3, <2>1
    <2>2. CASE i = m + 1
        BY <1>1, <1>2, <1>3, <2>2
    <2>3. CASE i > m + 1
        <3>1. i - (m + 1) \in 1..l /\ i = (m + 1) + (i - (m + 1))
              /\ g(i) = m + (n + (i - (m + 1)))
            BY <1>1, <2>3
        <3>2. new[i] = c[i - (m + 1)] /\ old[g(i)] = c[i - (m + 1)]
            BY <1>2, <1>3, <3>1
        <3> QED BY <1>1, <3>1, <3>2
    <2> QED BY <1>1, <2>1, <2>2, <2>3
<1>6. ASSUME NEW k \in 1..(m + (n + l))
      PROVE  h(k) \in 1..(m + 1 + l) /\ new[h(k)] = old[k]
    <2>1. CASE k <= m
        BY <1>1, <1>2, <1>3, <2>1
    <2>2. CASE k > m /\ k <= m + n
        <3>1. k - m \in 1..n /\ k = m + (k - m) /\ h(k) = m + 1
            BY <1>1, <2>2
        <3>2. old[k] = f /\ new[h(k)] = f
            BY <1>2, <1>3, <3>1
        <3> QED BY <1>1, <3>1, <3>2
    <2>3. CASE k > m + n
        <3>1. k - (m + n) \in 1..l /\ k = m + (n + (k - (m + n)))
              /\ h(k) = (m + 1) + (k - (m + n))
            BY <1>1, <2>3
        <3>2. old[k] = c[k - (m + n)] /\ new[h(k)] = c[k - (m + n)]
            BY <1>2, <1>3, <3>1
        <3> QED BY <1>1, <3>1, <3>2
    <2> QED BY <1>1, <2>1, <2>2, <2>3
<1>7. ASSUME NEW i \in 1..(m + 1 + l), NEW j \in 1..(m + 1 + l),
             EndIn(old, g(i), g(j))
      PROVE  EndIn(new, i, j)
    <2>1. PICK k \in g(i)..g(j) : old[k].type = "STATE_END"
        BY <1>7 DEF EndIn
    <2>2. k \in 1..(m + (n + l))
        <3>1. g(i) \in 1..(m + (n + l)) /\ g(j) \in 1..(m + (n + l))
            BY <1>5
        <3> HIDE DEF g
        <3> QED BY <1>1, <2>1, <3>1
    <2>3. h(k) \in i..j
        BY <1>1, <2>1, <2>2
    <2>4. new[h(k)].type = "STATE_END"
        BY <1>6, <2>1, <2>2
    <2> QED BY <2>3, <2>4 DEF EndIn
<1>8. Apart(past, new)
    <2> SUFFICES ASSUME NEW i \in 1..(m + 1 + l), NEW j \in 1..(m + 1 + l), i < j,
                        AtOdds(past, new[i], new[j])
                 PROVE  EndIn(new, i, j)
        BY <1>3 DEF Apart
    <2>1. g(i) < g(j)
        BY <1>1
    <2>2. g(i) \in 1..Len(old) /\ g(j) \in 1..Len(old)
          /\ old[g(i)] = new[i] /\ old[g(j)] = new[j]
        BY <1>2, <1>5
    <2> HIDE DEF g
    <2>3. EndIn(old, g(i), g(j))
        BY <1>4, <2>1, <2>2 DEF Apart
    <2> QED BY <1>7, <2>3
<1>9. Closed(new)
    <2> SUFFICES ASSUME NEW i \in 1..(m + 1 + l),
                        new[i].type \in {"STATE_BEGIN", "STATE_PARAM"}
                 PROVE  EndIn(new, i, m + 1 + l)
        BY <1>3 DEF Closed
    <2>1. old[g(i)] = new[i] /\ g(i) \in 1..Len(old)
        BY <1>2, <1>5
    <2>2. EndIn(old, g(i), Len(old))
        <3> HIDE DEF g
        <3> QED BY <1>4, <2>1 DEF Closed
    <2>3. m + 1 + l \in 1..(m + 1 + l)
        BY <1>1
    <2>4. PICK k \in g(i)..Len(old) : old[k].type = "STATE_END"
        BY <2>2 DEF EndIn
    <2>5. k \in 1..(m + (n + l)) /\ h(k) \in i..(m + 1 + l)
        BY <1>1, <1>2, <2>1, <2>4
    <2>6. new[h(k)].type = "STATE_END"
        BY <1>6, <2>4, <2>5
    <2> QED BY <2>5, <2>6 DEF EndIn
<1> QED BY <1>8, <1>9 DEF new

(* What was true of a revision stays true of it.                            *)
LEMMA ToldLater ==
    ASSUME NEW T, NEW past \in Seq(T), NEW now \in T, NEW frame \in ServerFrame,
           ToldBy(past, frame)
    PROVE  ToldBy(Append(past, now), frame)
<1>1. /\ Len(Append(past, now)) = Len(past) + 1 /\ Len(past) \in Nat
      /\ \A i \in 1..Len(past) : Append(past, now)[i] = past[i]
    BY AppendProperties, LenProperties
<1> QED BY <1>1 DEF ToldBy

LEMMA ApartLater ==
    ASSUME NEW T, NEW past \in Seq(T), NEW now \in T,
           NEW frames \in Seq(ServerFrame),
           \A i \in 1..Len(frames) : ToldBy(past, frames[i]),
           Apart(past, frames)
    PROVE  Apart(Append(past, now), frames)
<1>1. \A i \in 1..Len(past) : Append(past, now)[i] = past[i]
    BY AppendProperties
<1>2. ASSUME NEW i \in 1..Len(frames), NEW j \in 1..Len(frames),
             Mismatch(Append(past, now), frames[i], frames[j])
      PROVE  Mismatch(past, frames[i], frames[j])
    <2>1. frames[i].revision + 1 \in 1..Len(past)
        BY <1>2 DEF Mismatch, ToldBy
    <2> QED BY <1>1, <1>2, <2>1 DEF Mismatch
<1> QED BY <1>2 DEF Apart, AtOdds

-----------------------------------------------------------------------------
(* Units *)

LEMMA FramesOfUnits ==
    ASSUME NEW units \in Seq(LineUnit)
    PROVE  /\ FramesOf(units) \in Seq(ServerFrame) /\ Len(FramesOf(units)) = Len(units)
           /\ \A i \in 1..Len(units) : FramesOf(units)[i] = units[i].frame
<1>1. Len(units) \in Nat /\ \A i \in 1..Len(units) : units[i].frame \in ServerFrame
    <2>1. \A i \in 1..Len(units) : units[i] \in LineUnit
        BY ElementOfSeq
    <2> QED BY <2>1, LenProperties DEF LineUnit
<1>2. FramesOf(units) \in [1..Len(units) -> ServerFrame]
    BY <1>1 DEF FramesOf
<1>3. FramesOf(units) \in Seq(ServerFrame) /\ Len(FramesOf(units)) = Len(units)
    BY <1>1, <1>2, IsASeq
<1> QED BY <1>3 DEF FramesOf

LEMMA OnWireUnits ==
    ASSUME NEW units \in Seq(Unit)
    PROVE  /\ OnWire(units) \in Seq(LineUnit) /\ Len(OnWire(units)) = Len(units)
           /\ \A i \in 1..Len(units) :
                OnWire(units)[i] = HostUnit(units[i].frame, units[i].part, "none")
<1>1. Len(units) \in Nat
    BY LenProperties
<1>2. ASSUME NEW i \in 1..Len(units)
      PROVE  HostUnit(units[i].frame, units[i].part, "none") \in LineUnit
    <2>1. units[i] \in Unit
        BY ElementOfSeq
    <2> QED BY <2>1 DEF Unit, LineUnit, HostUnit
<1>3. OnWire(units) \in [1..Len(units) -> LineUnit]
    BY <1>2 DEF OnWire
<1>4. OnWire(units) \in Seq(LineUnit) /\ Len(OnWire(units)) = Len(units)
    BY <1>1, <1>3, IsASeq
<1> QED BY <1>4 DEF OnWire

LEMMA FramesOfJoined ==
    ASSUME NEW a \in Seq(LineUnit), NEW b \in Seq(LineUnit)
    PROVE  FramesOf(a \o b) = FramesOf(a) \o FramesOf(b)
<1> DEFINE m == Len(a)
           n == Len(b)
           left == FramesOf(a \o b)
           right == FramesOf(a) \o FramesOf(b)
<1>1. /\ a \o b \in Seq(LineUnit) /\ m \in Nat /\ n \in Nat /\ Len(a \o b) = m + n
      /\ \A i \in 1..m : (a \o b)[i] = a[i]
      /\ \A i \in 1..n : (a \o b)[m + i] = b[i]
    BY Joined
<1>2. /\ left \in Seq(ServerFrame) /\ Len(left) = m + n
      /\ \A i \in 1..(m + n) : left[i] = (a \o b)[i].frame
    BY <1>1, FramesOfUnits
<1>3. /\ FramesOf(a) \in Seq(ServerFrame) /\ Len(FramesOf(a)) = m
      /\ FramesOf(b) \in Seq(ServerFrame) /\ Len(FramesOf(b)) = n
      /\ \A i \in 1..m : FramesOf(a)[i] = a[i].frame
      /\ \A i \in 1..n : FramesOf(b)[i] = b[i].frame
    BY FramesOfUnits
<1>4. /\ right \in Seq(ServerFrame) /\ Len(right) = m + n
      /\ \A i \in 1..m : right[i] = a[i].frame
      /\ \A i \in 1..n : right[m + i] = b[i].frame
    <2> DEFINE fa == FramesOf(a)
               fb == FramesOf(b)
    <2>1. fa \in Seq(ServerFrame) /\ fb \in Seq(ServerFrame)
        BY <1>3
    <2> HIDE DEF fa, fb
    <2>2. /\ fa \o fb \in Seq(ServerFrame)
          /\ Len(fa \o fb) = Len(fa) + Len(fb)
          /\ \A i \in 1..Len(fa) : (fa \o fb)[i] = fa[i]
          /\ \A i \in 1..Len(fb) : (fa \o fb)[Len(fa) + i] = fb[i]
        BY ONLY <2>1, Joined
    <2> QED BY <1>3, <2>2 DEF fa, fb
<1> HIDE DEF left, right, m, n
<1>5. ASSUME NEW i \in 1..(m + n)
      PROVE  left[i] = right[i]
    <2>1. CASE i \in 1..m
        BY <1>1, <1>2, <1>4, <2>1
    <2>2. CASE i > m
        <3>1. i - m \in 1..n /\ i = m + (i - m)
            BY <1>1, <2>2
        <3>2. (a \o b)[m + (i - m)] = b[i - m] /\ right[m + (i - m)] = b[i - m].frame
            BY <1>1, <1>4, <3>1
        <3> QED BY <1>2, <3>1, <3>2
    <2> QED BY <1>1, <2>1, <2>2
<1>6. left = right
    BY <1>2, <1>4, <1>5, SeqEqual
<1> QED BY <1>6 DEF left, right

LEMMA OnWireJoined ==
    ASSUME NEW a \in Seq(Unit), NEW b \in Seq(Unit)
    PROVE  OnWire(a \o b) = OnWire(a) \o OnWire(b)
<1> DEFINE m == Len(a)
           n == Len(b)
           left == OnWire(a \o b)
           right == OnWire(a) \o OnWire(b)
           wire(u) == HostUnit(u.frame, u.part, "none")
<1>1. /\ a \o b \in Seq(Unit) /\ m \in Nat /\ n \in Nat /\ Len(a \o b) = m + n
      /\ \A i \in 1..m : (a \o b)[i] = a[i]
      /\ \A i \in 1..n : (a \o b)[m + i] = b[i]
    BY Joined
<1>2. /\ left \in Seq(LineUnit) /\ Len(left) = m + n
      /\ \A i \in 1..(m + n) : left[i] = wire((a \o b)[i])
    BY <1>1, OnWireUnits
<1>3. /\ OnWire(a) \in Seq(LineUnit) /\ Len(OnWire(a)) = m
      /\ OnWire(b) \in Seq(LineUnit) /\ Len(OnWire(b)) = n
      /\ \A i \in 1..m : OnWire(a)[i] = wire(a[i])
      /\ \A i \in 1..n : OnWire(b)[i] = wire(b[i])
    BY OnWireUnits
<1> HIDE DEF wire
<1>4. /\ right \in Seq(LineUnit) /\ Len(right) = m + n
      /\ \A i \in 1..m : right[i] = wire(a[i])
      /\ \A i \in 1..n : right[m + i] = wire(b[i])
    <2> DEFINE fa == OnWire(a)
               fb == OnWire(b)
    <2>1. fa \in Seq(LineUnit) /\ fb \in Seq(LineUnit)
        BY <1>3
    <2> HIDE DEF fa, fb
    <2>2. /\ fa \o fb \in Seq(LineUnit)
          /\ Len(fa \o fb) = Len(fa) + Len(fb)
          /\ \A i \in 1..Len(fa) : (fa \o fb)[i] = fa[i]
          /\ \A i \in 1..Len(fb) : (fa \o fb)[Len(fa) + i] = fb[i]
        BY ONLY <2>1, Joined
    <2> QED BY <1>3, <2>2 DEF fa, fb
<1> HIDE DEF left, right, m, n
<1>5. ASSUME NEW i \in 1..(m + n)
      PROVE  left[i] = right[i]
    <2>1. CASE i \in 1..m
        BY <1>1, <1>2, <1>4, <2>1
    <2>2. CASE i > m
        <3>1. i - m \in 1..n /\ i = m + (i - m)
            BY <1>1, <2>2
        <3>2. (a \o b)[m + (i - m)] = b[i - m] /\ right[m + (i - m)] = wire(b[i - m])
            BY <1>1, <1>4, <3>1
        <3> QED BY <1>2, <3>1, <3>2
    <2> QED BY <1>1, <2>1, <2>2
<1>6. left = right
    BY <1>2, <1>4, <1>5, SeqEqual
<1> QED BY <1>6 DEF left, right

(* A unit that goes over the wire stays in front of those that follow.      *)
LEMMA OnWireHead ==
    ASSUME NEW units \in Seq(Unit), units # <<>>
    PROVE  LET first == HostUnit(Head(units).frame, Head(units).part, "none") IN
           /\ first \in LineUnit /\ Tail(units) \in Seq(Unit)
           /\ OnWire(units) = <<first>> \o OnWire(Tail(units))
<1> DEFINE first == HostUnit(Head(units).frame, Head(units).part, "none")
<1>1. Head(units) \in Unit /\ Tail(units) \in Seq(Unit)
      /\ units = <<Head(units)>> \o Tail(units)
    OBVIOUS
<1>2. first \in LineUnit
    BY <1>1 DEF Unit, LineUnit, HostUnit
<1>3. <<Head(units)>> \in Seq(Unit) /\ Len(<<Head(units)>>) = 1
      /\ <<Head(units)>>[1] = Head(units)
    BY <1>1
<1>4. OnWire(<<Head(units)>>) = <<first>>
    <2> DEFINE one == <<Head(units)>>
    <2>1. one \in Seq(Unit) /\ Len(one) = 1 /\ one[1] = Head(units)
        BY <1>3
    <2> HIDE DEF one
    <2>2. OnWire(one) \in Seq(LineUnit) /\ Len(OnWire(one)) = 1 /\ OnWire(one)[1] = first
        BY <2>1, OnWireUnits
    <2> HIDE DEF first
    <2>3. OnWire(one) = <<first>>
        BY <1>2, <2>2
    <2> QED BY <2>3 DEF one
<1>5. OnWire(<<Head(units)>> \o Tail(units)) = OnWire(<<Head(units)>>) \o OnWire(Tail(units))
    BY <1>1, <1>3, OnWireJoined
<1> QED BY <1>1, <1>2, <1>4, <1>5

-----------------------------------------------------------------------------
(* Chains of units *)

LEMMA ChainedPart ==
    ASSUME NEW S, NEW a \in Seq(S), NEW b \in Seq(S), Chained(a \o b)
    PROVE  /\ Chained(b)
           /\ a # <<>> /\ b # <<>> /\ Complete(a[Len(a)]) => b[1].part = 1
<1> DEFINE all == a \o b
           m == Len(a)
           n == Len(b)
<1>1. /\ all \in Seq(S) /\ m \in Nat /\ n \in Nat /\ Len(all) = m + n
      /\ \A i \in 1..m : all[i] = a[i]
      /\ \A i \in 1..n : all[m + i] = b[i]
    BY Joined
<1>2. Chained(all) /\ (a = <<>> <=> m = 0) /\ (b = <<>> <=> n = 0)
      /\ (all = <<>> <=> m + n = 0)
    BY <1>1
<1> HIDE DEF all, m, n
<1>3. \A i \in 1..n : b[i].part <= Size(b[i].frame.type)
    <2> SUFFICES ASSUME NEW i \in 1..n PROVE b[i].part <= Size(b[i].frame.type)
        OBVIOUS
    <2>1. m + i \in 1..(m + n)
        BY <1>1
    <2> QED BY <1>1, <1>2, <2>1 DEF Chained
<1>4. \A i \in 1..(n - 1) : Follows(b[i], b[i + 1])
    <2> SUFFICES ASSUME NEW i \in 1..(n - 1) PROVE Follows(b[i], b[i + 1])
        OBVIOUS
    <2>1. m + i \in 1..(m + n - 1) /\ m + (i + 1) = (m + i) + 1
          /\ i \in 1..n /\ i + 1 \in 1..n
        <3>1. m \in Nat /\ n \in Nat /\ i \in 1..(n - 1)
            BY <1>1
        <3> QED BY ONLY <3>1
    <2>2. all[m + i] = b[i] /\ all[(m + i) + 1] = b[i + 1]
        BY SMTT(30), <1>1, <2>1
    <2> QED BY <1>1, <1>2, <2>1, <2>2 DEF Chained
<1>5. b # <<>> => Complete(b[n])
    <2>1. n # 0 => n \in 1..n /\ m + n # 0
        BY <1>1
    <2> QED BY <1>1, <1>2, <2>1 DEF Chained
<1>6. a # <<>> /\ b # <<>> /\ Complete(a[m]) => b[1].part = 1
    <2> SUFFICES ASSUME m # 0, n # 0, Complete(a[m]) PROVE b[1].part = 1
        BY <1>2
    <2>1. m \in 1..(m + n - 1) /\ m \in 1..m /\ 1 \in 1..n
        BY <1>1
    <2>2. all[m] = a[m] /\ all[m + 1] = b[1]
        BY <1>1, <2>1
    <2> QED BY SMTT(30), <1>1, <1>2, <2>1, <2>2 DEF Chained, Follows
<1> QED BY <1>3, <1>4, <1>5, <1>6 DEF Chained, m, n

LEMMA ChainedJoined ==
    ASSUME NEW S, NEW a \in Seq(S), NEW b \in Seq(S), Chained(a), Chained(b),
           b # <<>> => b[1].part = 1
    PROVE  Chained(a \o b)
<1> DEFINE all == a \o b
           m == Len(a)
           n == Len(b)
<1>1. /\ all \in Seq(S) /\ m \in Nat /\ n \in Nat /\ Len(all) = m + n
      /\ \A i \in 1..m : all[i] = a[i]
      /\ \A i \in 1..n : all[m + i] = b[i]
    BY Joined
<1>2. (a = <<>> <=> m = 0) /\ (b = <<>> <=> n = 0) /\ (all = <<>> <=> m + n = 0)
    BY <1>1
<1>3. /\ \A i \in 1..m : a[i].part <= Size(a[i].frame.type)
      /\ \A i \in 1..n : b[i].part <= Size(b[i].frame.type)
      /\ \A i \in 1..(m - 1) : Follows(a[i], a[i + 1])
      /\ \A i \in 1..(n - 1) : Follows(b[i], b[i + 1])
      /\ m # 0 => Complete(a[m])
      /\ n # 0 => Complete(b[n]) /\ b[1].part = 1
    BY <1>2 DEF Chained
<1> HIDE DEF all, m, n
<1>4. ASSUME NEW i \in 1..(m + n)
      PROVE  all[i].part <= Size(all[i].frame.type)
    <2>1. CASE i \in 1..m
        BY <1>1, <1>3, <2>1
    <2>2. CASE i > m
        <3>1. i - m \in 1..n /\ i = m + (i - m)
            BY <1>1, <2>2
        <3>2. all[i] = b[i - m]
            BY <1>1, <3>1
        <3> QED BY <1>3, <3>1, <3>2
    <2> QED BY <1>1, <2>1, <2>2
<1>5. ASSUME NEW i \in 1..(m + n - 1)
      PROVE  Follows(all[i], all[i + 1])
    <2>1. CASE i \in 1..(m - 1)
        <3>1. i \in 1..m /\ i + 1 \in 1..m
            BY <1>1, <2>1
        <3> QED BY <1>1, <1>3, <2>1, <3>1
    <2>2. CASE i = m
        <3>1. m \in 1..m /\ 1 \in 1..n /\ m # 0 /\ n # 0
            BY <1>1, <2>2
        <3>2. all[i] = a[m] /\ all[i + 1] = b[1]
            BY <1>1, <2>2, <3>1
        <3> QED BY <1>3, <3>1, <3>2 DEF Follows
    <2>3. CASE i > m
        <3>1. i - m \in 1..(n - 1) /\ i = m + (i - m) /\ i + 1 = m + ((i - m) + 1)
              /\ i - m \in 1..n /\ (i - m) + 1 \in 1..n
            BY <1>1, <2>3
        <3>2. all[i] = b[i - m] /\ all[i + 1] = b[(i - m) + 1]
            BY <1>1, <3>1
        <3> QED BY <1>3, <3>1, <3>2
    <2> QED BY <1>1, <2>1, <2>2, <2>3
<1>6. m + n # 0 => Complete(all[m + n])
    <2>1. CASE n = 0
        <3>1. m # 0 => m \in 1..m /\ m + n = m
            BY <1>1, <2>1
        <3> QED BY <1>1, <1>3, <2>1, <3>1
    <2>2. CASE n # 0
        <3>1. n \in 1..n
            BY <1>1, <2>2
        <3> QED BY <1>1, <1>3, <2>2, <3>1
    <2> QED BY <2>1, <2>2
<1>7. Chained(all)
    BY <1>1, <1>2, <1>4, <1>5, <1>6 DEF Chained
<1> QED BY <1>7 DEF all

(* A chain that begins with the first unit of a frame begins with all of    *)
(* the frame.                                                               *)
LEMMA ChainBegins ==
    ASSUME NEW units \in Seq(LineUnit), units # <<>>, Chained(units), Undamaged(units),
           units[1].part = 1
    PROVE  \A i \in 1..Len(units) : i <= Size(units[1].frame.type) =>
                units[i] = HostUnit(units[1].frame, i, "none")
<1> DEFINE f == units[1].frame
           k == Size(f.type)
           N == Len(units)
           Good == {i \in 0..N : i \in 1..k => units[i] = HostUnit(f, i, "none")}
<1>1. N \in Nat \ {0} /\ \A i \in 1..N : units[i] \in LineUnit
    BY LenProperties, EmptySeq, ElementOfSeq
<1>2. f \in ServerFrame /\ k \in Nat \ {0}
    <2>1. units[1] \in LineUnit
        BY <1>1
    <2>2. f \in ServerFrame
        BY <2>1 DEF LineUnit
    <2> HIDE DEF f
    <2> QED BY <2>2, UnitsOfFrame
<1>3. ASSUME NEW i \in 1..N, units[i].frame = f, units[i].part = i
      PROVE  units[i] = HostUnit(f, i, "none")
    <2>1. units[i] \in LineUnit /\ units[i].damage = "none"
        BY <1>1 DEF Undamaged
    <2> QED BY <1>3, <2>1 DEF LineUnit, HostUnit
<1> HIDE DEF f, k
<1>4. 0 \in Good
    BY <1>1
<1>5. ASSUME NEW i \in 1..N, i - 1 \in Good
      PROVE  i \in Good
    <2>1. CASE i = 1
        BY <1>3, <2>1 DEF f
    <2>2. CASE i > 1 /\ i <= k
        <3>1. i - 1 \in 1..(N - 1) /\ i - 1 \in 1..k /\ (i - 1) + 1 = i /\ i - 1 # k
            BY <1>1, <1>2, <2>2
        <3>2. units[i - 1] = HostUnit(f, i - 1, "none")
            BY <1>5, <3>1
        <3>3. units[i - 1].frame = f /\ units[i - 1].part = i - 1
            BY <3>2 DEF HostUnit
        <3>4. Follows(units[i - 1], units[i])
            <4>1. Follows(units[i - 1], units[(i - 1) + 1])
                BY <3>1 DEF Chained
            <4> QED BY <3>1, <4>1
        <3>5. ~Complete(units[i - 1])
            BY <3>1, <3>3 DEF Complete, k
        <3>6. units[i].frame = f /\ units[i].part = i
            BY <3>1, <3>3, <3>4, <3>5 DEF Follows
        <3> QED BY <1>3, <3>6
    <2>3. CASE i > k
        BY <1>2, <2>3
    <2> QED BY <1>1, <1>2, <2>1, <2>2, <2>3
<1>6. \A i \in 0..N : i \in Good
    <2> HIDE DEF Good, N
    <2> QED BY <1>1, <1>4, <1>5, UpTo
<1>7. ASSUME NEW i \in 1..N, i <= k
      PROVE  units[i] = HostUnit(f, i, "none")
    <2>1. i \in 0..N /\ i \in 1..k
        BY <1>1, <1>2, <1>7
    <2> QED BY <1>6, <2>1
<1> QED BY <1>7 DEF f, k

LEMMA UndamagedParts ==
    ASSUME NEW a \in Seq(LineUnit), NEW b \in Seq(LineUnit)
    PROVE  Undamaged(a \o b) <=> Undamaged(a) /\ Undamaged(b)
<1> DEFINE all == a \o b
           m == Len(a)
           n == Len(b)
<1>1. /\ m \in Nat /\ n \in Nat /\ Len(all) = m + n
      /\ \A i \in 1..m : all[i] = a[i]
      /\ \A i \in 1..n : all[m + i] = b[i]
    BY Joined
<1> HIDE DEF all, m, n
<1>2. ASSUME Undamaged(all) PROVE Undamaged(a) /\ Undamaged(b)
    <2>1. \A i \in 1..m : i \in 1..(m + n)
        BY <1>1
    <2>2. \A i \in 1..n : m + i \in 1..(m + n)
        BY <1>1
    <2>3. ASSUME NEW i \in 1..n PROVE b[i].damage = "none"
        <3>1. all[m + i] = b[i] /\ m + i \in 1..(m + n)
            BY <1>1, <2>2
        <3> QED BY <1>1, <1>2, <3>1 DEF Undamaged
    <2> QED BY <1>1, <1>2, <2>1, <2>3 DEF Undamaged, m, n
<1>3. ASSUME Undamaged(a), Undamaged(b) PROVE Undamaged(all)
    <2> SUFFICES ASSUME NEW i \in 1..(m + n) PROVE all[i].damage = "none"
        BY <1>1 DEF Undamaged
    <2>1. CASE i \in 1..m
        BY <1>1, <1>3, <2>1 DEF Undamaged, m
    <2>2. CASE i > m
        <3>1. i - m \in 1..n /\ i = m + (i - m)
            BY <1>1, <2>2
        <3>2. all[i] = b[i - m]
            BY <1>1, <3>1
        <3> QED BY <1>3, <3>1, <3>2 DEF Undamaged, n
    <2> QED BY <1>1, <2>1, <2>2
<1> QED BY <1>2, <1>3 DEF all

-----------------------------------------------------------------------------
(* What happens to an orderly answer *)

(* The rest of a frame whose first unit the client has not seen is skipped. *)
LEMMA OrderlySkip ==
    ASSUME NEW past, NEW r \in Seq(ServerFrame), NEW a \in Seq(LineUnit),
           NEW b \in Seq(LineUnit), Orderly(past, r, a \o b), r # <<>> => a = <<>>
    PROVE  Orderly(past, r, b)
<1>1. CASE a = <<>>
    BY <1>1, ConcatEmptySeq
<1>2. CASE r = <<>>
    <2>1. Chained(a \o b) /\ Undamaged(a \o b)
          /\ Apart(past, r \o FramesOf(a \o b)) /\ Closed(r \o FramesOf(a \o b))
        BY DEF Orderly
    <2>2. Chained(b) /\ Undamaged(b)
        BY <2>1, ChainedPart, UndamagedParts
    <2>3. FramesOf(a) \in Seq(ServerFrame) /\ FramesOf(b) \in Seq(ServerFrame)
          /\ FramesOf(a \o b) = FramesOf(a) \o FramesOf(b)
        BY FramesOfUnits, FramesOfJoined
    <2>4. FramesOf(a) \o FramesOf(b) \in Seq(ServerFrame)
        BY <2>3, Joined
    <2>5. r \o FramesOf(a \o b) = FramesOf(a) \o FramesOf(b) /\ r \o FramesOf(b) = FramesOf(b)
        BY <1>2, <2>3, <2>4, ConcatEmptySeq
    <2>6. Apart(past, FramesOf(b)) /\ Closed(FramesOf(b))
        BY <2>1, <2>3, <2>5, SuffixApart
    <2> QED BY <1>2, <2>2, <2>5, <2>6 DEF Orderly
<1> QED BY <1>1, <1>2

(* The frames received are forgotten when a command ends.                   *)
LEMMA OrderlyForget ==
    ASSUME NEW past, NEW r \in Seq(ServerFrame), NEW c \in Seq(LineUnit),
           Orderly(past, r, c)
    PROVE  Orderly(past, <<>>, c)
<1>1. FramesOf(c) \in Seq(ServerFrame)
    BY FramesOfUnits
<1>2. Apart(past, FramesOf(c)) /\ Closed(FramesOf(c))
    BY <1>1, SuffixApart DEF Orderly
<1>3. <<>> \o FramesOf(c) = FramesOf(c)
    BY <1>1, ConcatEmptySeq
<1> QED BY <1>2, <1>3 DEF Orderly

(* A frame is parsed: its units leave the front.                            *)
LEMMA OrderlyParse ==
    ASSUME NEW past, NEW r \in Seq(ServerFrame), NEW b \in Seq(LineUnit),
           NEW c \in Seq(LineUnit), NEW f \in ServerFrame,
           b # <<>>, \A i \in 1..Len(b) : b[i].frame = f, Complete(b[Len(b)]),
           Orderly(past, r, b \o c)
    PROVE  Orderly(past, r \o <<f>>, c)
<1>1. Chained(b \o c) /\ Undamaged(b \o c)
      /\ Apart(past, r \o FramesOf(b \o c)) /\ Closed(r \o FramesOf(b \o c))
    BY DEF Orderly
<1>2. Chained(c) /\ (c # <<>> => c[1].part = 1)
    BY <1>1, ChainedPart
<1>3. Undamaged(c)
    BY <1>1, UndamagedParts
<1>4. /\ FramesOf(b) \in Seq(ServerFrame) /\ FramesOf(c) \in Seq(ServerFrame)
      /\ FramesOf(b \o c) = FramesOf(b) \o FramesOf(c)
      /\ Len(FramesOf(b)) = Len(b) /\ \A i \in 1..Len(b) : FramesOf(b)[i] = b[i].frame
    BY FramesOfUnits, FramesOfJoined
<1>5. FramesOf(b) # <<>> /\ \A i \in 1..Len(FramesOf(b)) : FramesOf(b)[i] = f
    <2>1. Len(b) # 0
        BY EmptySeq
    <2> QED BY <1>4, <2>1, EmptySeq
<1>6. Apart(past, (r \o <<f>>) \o FramesOf(c)) /\ Closed((r \o <<f>>) \o FramesOf(c))
    BY <1>1, <1>4, <1>5, OneForAll
<1> QED BY <1>2, <1>3, <1>6 DEF Orderly

(* Frames are sent after those under way.                                   *)
LEMMA OrderlySend ==
    ASSUME NEW past, NEW r \in Seq(ServerFrame), NEW c \in Seq(LineUnit),
           NEW d \in Seq(LineUnit), Orderly(past, r, c),
           Chained(d), Undamaged(d), d # <<>> => d[1].part = 1,
           \A i, j \in 1..Len(d) : ~AtOdds(past, d[i].frame, d[j].frame),
           \A i \in 1..Len(d) : d[i].frame.type \in {"STATE_BEGIN", "STATE_PARAM"} =>
                d[Len(d)].frame.type = "STATE_END"
    PROVE  Orderly(past, r, c \o d)
<1>1. Chained(c) /\ Undamaged(c)
      /\ Apart(past, r \o FramesOf(c)) /\ Closed(r \o FramesOf(c))
    BY DEF Orderly
<1>2. Chained(c \o d)
    BY <1>1, ChainedJoined
<1>3. Undamaged(c \o d)
    BY <1>1, UndamagedParts
<1>4. r # <<>> /\ c \o d # <<>> => (c \o d)[1].part = 1
    <2>1. CASE c = <<>>
        BY <2>1, ConcatEmptySeq
    <2>2. CASE c # <<>>
        <3>1. 1 \in 1..Len(c)
            BY <2>2, EmptySeq
        <3>2. (c \o d)[1] = c[1]
            BY <3>1, Joined
        <3> QED BY <2>2, <3>2 DEF Orderly
    <2> QED BY <2>1, <2>2
<1>5. /\ FramesOf(c) \in Seq(ServerFrame) /\ FramesOf(d) \in Seq(ServerFrame)
      /\ FramesOf(c \o d) = FramesOf(c) \o FramesOf(d)
      /\ Len(FramesOf(d)) = Len(d) /\ \A i \in 1..Len(d) : FramesOf(d)[i] = d[i].frame
    BY FramesOfUnits, FramesOfJoined
<1>6. r \o FramesOf(c) \in Seq(ServerFrame)
      /\ r \o FramesOf(c \o d) = (r \o FramesOf(c)) \o FramesOf(d)
    <2> DEFINE fc == FramesOf(c)
               fd == FramesOf(d)
    <2>1. r \in Seq(ServerFrame) /\ fc \in Seq(ServerFrame) /\ fd \in Seq(ServerFrame)
        BY <1>5
    <2> HIDE DEF fc, fd
    <2>2. r \o fc \in Seq(ServerFrame) /\ (r \o fc) \o fd = r \o (fc \o fd)
        BY ONLY <2>1, ConcatProperties, ConcatAssociative
    <2> QED BY <1>5, <2>2 DEF fc, fd
<1>7. /\ \A i, j \in 1..Len(FramesOf(d)) :
            ~AtOdds(past, FramesOf(d)[i], FramesOf(d)[j])
      /\ \A i \in 1..Len(FramesOf(d)) :
            FramesOf(d)[i].type \in {"STATE_BEGIN", "STATE_PARAM"} =>
                FramesOf(d)[Len(FramesOf(d))].type = "STATE_END"
    <2>1. \A i \in 1..Len(d) : Len(d) \in 1..Len(d)
        BY LenProperties
    <2> QED BY <1>5, <2>1
<1>8. Apart(past, r \o FramesOf(c \o d)) /\ Closed(r \o FramesOf(c \o d))
    BY <1>1, <1>5, <1>6, <1>7, AppendApart
<1> QED BY <1>2, <1>3, <1>4, <1>8 DEF Orderly

LEMMA OrderlyLater ==
    ASSUME NEW T, NEW past \in Seq(T), NEW now \in T,
           NEW r \in Seq(ServerFrame), NEW c \in Seq(LineUnit),
           \A f \in Items(r) \union FramesIn(c) : ToldBy(past, f),
           Orderly(past, r, c)
    PROVE  Orderly(Append(past, now), r, c)
<1> DEFINE all == r \o FramesOf(c)
<1>1. /\ FramesOf(c) \in Seq(ServerFrame) /\ Len(FramesOf(c)) = Len(c)
      /\ \A i \in 1..Len(c) : FramesOf(c)[i] = c[i].frame
    BY FramesOfUnits
<1>2. /\ all \in Seq(ServerFrame) /\ Len(r) \in Nat /\ Len(c) \in Nat
      /\ Len(all) = Len(r) + Len(c)
      /\ \A i \in 1..Len(r) : all[i] = r[i]
      /\ \A i \in 1..Len(c) : all[Len(r) + i] = c[i].frame
    <2> DEFINE fc == FramesOf(c)
    <2>1. r \in Seq(ServerFrame) /\ fc \in Seq(ServerFrame)
        BY <1>1
    <2> HIDE DEF fc
    <2>2. /\ r \o fc \in Seq(ServerFrame) /\ Len(r) \in Nat /\ Len(fc) \in Nat
          /\ Len(r \o fc) = Len(r) + Len(fc)
          /\ \A i \in 1..Len(r) : (r \o fc)[i] = r[i]
          /\ \A i \in 1..Len(fc) : (r \o fc)[Len(r) + i] = fc[i]
        BY ONLY <2>1, Joined
    <2> QED BY <1>1, <2>2 DEF fc
<1>3. Apart(past, all)
    BY DEF Orderly
<1> HIDE DEF all
<1>4. ASSUME NEW i \in 1..Len(all) PROVE ToldBy(past, all[i])
    <2>1. CASE i \in 1..Len(r)
        BY <1>2, <2>1 DEF Items
    <2>2. CASE i > Len(r)
        <3>1. i - Len(r) \in 1..Len(c) /\ i = Len(r) + (i - Len(r))
            BY <1>2, <2>2
        <3>2. all[i] = c[i - Len(r)].frame
            BY <1>2, <3>1
        <3> QED BY <3>1, <3>2 DEF FramesIn
    <2> QED BY <1>2, <2>1, <2>2
<1>5. Apart(Append(past, now), all)
    BY <1>2, <1>3, <1>4, ApartLater
<1> QED BY <1>5 DEF Orderly, all

-----------------------------------------------------------------------------
(* The client's operators *)

LEMMA MinIsLeast ==
    ASSUME NEW N \in Nat, NEW places, places \subseteq 1..N, places # {}
    PROVE  Min(places) \in places /\ \A j \in places : Min(places) <= j
<1> DEFINE Less == {ss \in Nat \X Nat : ss[1] < ss[2]}
<1>1. IsWellFoundedOn(Less, Nat)
    BY NatLessThanWellFounded DEF OpToRel
<1>2. places \subseteq Nat
    OBVIOUS
<1>3. PICK x \in places : \A y \in places : <<y, x>> \notin Less
    <2> HIDE DEF Less
    <2> QED BY <1>1, <1>2, WFMin
<1>4. \A y \in places : x <= y
    <2> SUFFICES ASSUME NEW y \in places PROVE x <= y
        OBVIOUS
    <2>1. <<y, x>> \notin Less /\ x \in Nat /\ y \in Nat
        BY <1>2, <1>3
    <2> QED BY <2>1
<1> QED BY <1>3, <1>4 DEF Min

LEMMA MaxIsGreatest ==
    ASSUME NEW N \in Nat, NEW places, places \subseteq 1..N, places # {}
    PROVE  Max(places) \in places /\ \A j \in places : Max(places) >= j
<1> DEFINE mirrored == {N + 1 - i : i \in places}
<1>1. mirrored \subseteq 1..N /\ mirrored # {}
    <2>1. \A i \in places : N + 1 - i \in 1..N
        OBVIOUS
    <2>2. PICK i \in places : TRUE
        OBVIOUS
    <2>3. N + 1 - i \in mirrored
        BY <2>2
    <2> QED BY <2>1, <2>3
<1>2. Min(mirrored) \in mirrored /\ \A j \in mirrored : Min(mirrored) <= j
    <2> HIDE DEF mirrored
    <2> QED BY <1>1, MinIsLeast
<1>3. PICK x \in places : Min(mirrored) = N + 1 - x
    BY <1>2
<1>4. \A y \in places : x >= y
    <2> SUFFICES ASSUME NEW y \in places PROVE x >= y
        OBVIOUS
    <2>1. N + 1 - y \in mirrored
        OBVIOUS
    <2>2. N + 1 - x <= N + 1 - y /\ x \in Nat /\ y \in Nat
        BY <1>2, <1>3, <2>1
    <2> QED BY <2>2
<1> QED BY <1>4 DEF Max

(* Synchronizing skips a part of the buffer without an SOF.                 *)
LEMMA SyncedSkips ==
    ASSUME NEW units \in Seq(LineUnit)
    PROVE  \E skipped \in Seq(LineUnit) :
              /\ Synced(units) \in Seq(LineUnit) /\ units = skipped \o Synced(units)
              /\ \A i \in 1..Len(skipped) : ~HasSof(units[i])
              /\ Synced(units) # <<>> => HasSof(Synced(units)[1])
<1> DEFINE sofs == {i \in 1..Len(units) : HasSof(units[i])}
           k == Min(sofs)
           N == Len(units)
<1>1. N \in Nat /\ \A i \in 1..N : units[i] \in LineUnit
    BY LenProperties, ElementOfSeq
<1>2. CASE sofs = {}
    <2>1. Synced(units) = <<>>
        BY <1>2 DEF Synced
    <2>2. <<>> \in Seq(LineUnit) /\ units = units \o <<>>
        BY EmptySeq, ConcatEmptySeq
    <2> QED BY <1>2, <2>1, <2>2
<1>3. CASE sofs # {}
    <2>1. k \in sofs /\ \A j \in sofs : k <= j
        <3> HIDE DEF N
        <3>1. sofs \subseteq 1..N
            BY DEF N
        <3> HIDE DEF sofs
        <3> QED BY <1>1, <1>3, <3>1, MinIsLeast
    <2>2. Synced(units) = SubSeq(units, k, N)
        BY <1>3 DEF Synced
    <2>3. k \in 1..N /\ HasSof(units[k])
        BY <2>1
    <2>4. \A i \in 1..(k - 1) : ~HasSof(units[i])
        <3> SUFFICES ASSUME NEW i \in 1..(k - 1), HasSof(units[i]) PROVE FALSE
            OBVIOUS
        <3>1. i \in sofs
            BY <1>1, <2>3
        <3> HIDE DEF sofs
        <3> QED BY <2>1, <2>3, <3>1
    <2> HIDE DEF k, sofs
    <2> DEFINE skipped == SubSeq(units, 1, k - 1)
    <2>5. /\ skipped \in Seq(LineUnit) /\ Len(skipped) = k - 1
        <3>1. \A i \in 1..(k - 1) : units[i] \in LineUnit
            BY <1>1, <2>3
        <3>2. /\ skipped \in Seq(LineUnit)
              /\ Len(skipped) = IF 1 <= k - 1 THEN (k - 1) - 1 + 1 ELSE 0
            <4>1. 1 \in Int /\ k - 1 \in Int
                BY <2>3
            <4> QED BY <3>1, <4>1, SubSeqProperties
        <3> HIDE DEF skipped
        <3> QED BY <2>3, <3>2
    <2>6. /\ SubSeq(units, k, N) \in Seq(LineUnit)
          /\ SubSeq(units, k, N)[1] = units[k]
        <3>1. \A i \in k..N : units[i] \in LineUnit
            BY <1>1, <2>3
        <3>2. SubSeq(units, k, N) \in Seq(LineUnit)
              /\ \A i \in 1..(N - k + 1) : SubSeq(units, k, N)[i] = units[k + i - 1]
            BY <1>1, <2>3, <3>1, SubSeqProperties
        <3>3. 1 \in 1..(N - k + 1) /\ k + 1 - 1 = k
            BY <1>1, <2>3
        <3> QED BY <3>2, <3>3
    <2>7. units = skipped \o SubSeq(units, k, N)
        <3>1. 1 \in 1..(Len(units) + 1) /\ k - 1 \in (1 - 1)..Len(units)
              /\ Len(units) \in (k - 1)..Len(units) /\ (k - 1) + 1 = k
            BY <1>1, <2>3
        <3>2. SubSeq(units, 1, k - 1) \o SubSeq(units, (k - 1) + 1, Len(units))
                = SubSeq(units, 1, Len(units))
            BY <3>1, ConcatAdjacentSubSeq
        <3> QED BY <3>1, <3>2, SubSeqFull
    <2> HIDE DEF skipped
    <2> QED BY <2>2, <2>3, <2>4, <2>5, <2>6, <2>7
<1> QED BY <1>2, <1>3

-----------------------------------------------------------------------------
(* What a step leaves in play *)

LEMMA SplitAt ==
    ASSUME NEW S, NEW s \in Seq(S), NEW n \in 0..Len(s)
    PROVE  LET a == SubSeq(s, 1, n)
               b == SubSeq(s, n + 1, Len(s)) IN
           /\ a \in Seq(S) /\ b \in Seq(S) /\ s = a \o b
           /\ Len(a) = n /\ \A i \in 1..n : a[i] = s[i]
<1>1. Len(s) \in Nat /\ \A i \in 1..Len(s) : s[i] \in S
    BY LenProperties, ElementOfSeq
<1>2. \A i \in 1..n : s[i] \in S
    BY <1>1
<1>3. /\ SubSeq(s, 1, n) \in Seq(S)
      /\ Len(SubSeq(s, 1, n)) = IF 1 <= n THEN n - 1 + 1 ELSE 0
      /\ \A i \in 1..(n - 1 + 1) : SubSeq(s, 1, n)[i] = s[1 + i - 1]
    BY <1>1, <1>2, SubSeqProperties
<1>4. SubSeq(s, n + 1, Len(s)) \in Seq(S)
    <2>1. \A i \in (n + 1)..Len(s) : s[i] \in S
        BY <1>1
    <2>2. n + 1 \in Int /\ Len(s) \in Int
        BY <1>1
    <2> QED BY <2>1, <2>2, SubSeqProperties
<1>5. s = SubSeq(s, 1, n) \o SubSeq(s, n + 1, Len(s))
    <2>1. 1 \in 1..(Len(s) + 1) /\ n \in (1 - 1)..Len(s) /\ Len(s) \in n..Len(s)
        BY <1>1
    <2>2. SubSeq(s, 1, n) \o SubSeq(s, n + 1, Len(s)) = SubSeq(s, 1, Len(s))
        BY <2>1, ConcatAdjacentSubSeq
    <2> QED BY <2>2, SubSeqFull
<1>6. Len(SubSeq(s, 1, n)) = n
    BY <1>1, <1>3
<1>7. ASSUME NEW i \in 1..n PROVE SubSeq(s, 1, n)[i] = s[i]
    <2>1. i \in 1..(n - 1 + 1) /\ 1 + i - 1 = i
        BY <1>1
    <2> QED BY <1>3, <2>1
<1> QED BY <1>3, <1>4, <1>5, <1>6, <1>7

LEMMA FramesInJoined ==
    ASSUME NEW S, NEW a \in Seq(S), NEW b \in Seq(S)
    PROVE  /\ FramesIn(a \o b) = FramesIn(a) \union FramesIn(b)
           /\ Items(a \o b) = Items(a) \union Items(b)
<1> DEFINE all == a \o b
           m == Len(a)
           n == Len(b)
<1>1. /\ m \in Nat /\ n \in Nat /\ Len(all) = m + n
      /\ \A i \in 1..m : all[i] = a[i]
      /\ \A i \in 1..n : all[m + i] = b[i]
    BY Joined
<1> HIDE DEF all, m, n
<1>2. \A i \in 1..(m + n) :
        (\E j \in 1..m : all[i] = a[j]) \/ (\E j \in 1..n : all[i] = b[j])
    <2> SUFFICES ASSUME NEW i \in 1..(m + n)
                 PROVE  (\E j \in 1..m : all[i] = a[j]) \/ (\E j \in 1..n : all[i] = b[j])
        OBVIOUS
    <2>1. CASE i \in 1..m
        BY <1>1, <2>1
    <2>2. CASE i > m
        <3>1. i - m \in 1..n /\ i = m + (i - m)
            BY <1>1, <2>2
        <3> QED BY <1>1, <3>1
    <2> QED BY <1>1, <2>1, <2>2
<1>3. /\ \A i \in 1..m : i \in 1..(m + n) /\ all[i] = a[i]
      /\ \A i \in 1..n : m + i \in 1..(m + n) /\ all[m + i] = b[i]
    BY <1>1
<1>4. FramesIn(all) = FramesIn(a) \union FramesIn(b)
    <2>1. FramesIn(all) \subseteq FramesIn(a) \union FramesIn(b)
        <3> SUFFICES ASSUME NEW i \in 1..(m + n)
                     PROVE  all[i].frame \in FramesIn(a) \union FramesIn(b)
            BY <1>1 DEF FramesIn
        <3>1. CASE \E j \in 1..m : all[i] = a[j]
            BY <3>1 DEF FramesIn, m
        <3>2. CASE \E j \in 1..n : all[i] = b[j]
            BY <3>2 DEF FramesIn, n
        <3> QED BY <1>2, <3>1, <3>2
    <2>2. FramesIn(a) \subseteq FramesIn(all)
        BY <1>1, <1>3 DEF FramesIn, m
    <2>3. FramesIn(b) \subseteq FramesIn(all)
        <3> SUFFICES ASSUME NEW i \in 1..n PROVE b[i].frame \in FramesIn(all)
            BY DEF FramesIn, n
        <3>1. m + i \in 1..Len(all) /\ all[m + i].frame = b[i].frame
            BY <1>1, <1>3
        <3> QED BY <3>1 DEF FramesIn
    <2> QED BY <2>1, <2>2, <2>3
<1>5. Items(all) = Items(a) \union Items(b)
    <2>1. Items(all) \subseteq Items(a) \union Items(b)
        <3> SUFFICES ASSUME NEW i \in 1..(m + n)
                     PROVE  all[i] \in Items(a) \union Items(b)
            BY <1>1 DEF Items
        <3>1. CASE \E j \in 1..m : all[i] = a[j]
            BY <3>1 DEF Items, m
        <3>2. CASE \E j \in 1..n : all[i] = b[j]
            BY <3>2 DEF Items, n
        <3> QED BY <1>2, <3>1, <3>2
    <2>2. Items(a) \subseteq Items(all)
        BY <1>1, <1>3 DEF Items, m
    <2>3. Items(b) \subseteq Items(all)
        <3> SUFFICES ASSUME NEW i \in 1..n PROVE b[i] \in Items(all)
            BY DEF Items, n
        <3>1. m + i \in 1..Len(all) /\ all[m + i] = b[i]
            BY <1>1, <1>3
        <3> QED BY <3>1 DEF Items
    <2> QED BY <2>1, <2>2, <2>3
<1> QED BY <1>4, <1>5 DEF all

LEMMA OneInFront ==
    ASSUME NEW S, NEW s \in Seq(S), s # <<>>
    PROVE  /\ Head(s) \in S /\ Tail(s) \in Seq(S) /\ <<Head(s)>> \in Seq(S)
           /\ s = <<Head(s)>> \o Tail(s)
           /\ Items(Tail(s)) \subseteq Items(s) /\ FramesIn(Tail(s)) \subseteq FramesIn(s)
           /\ Head(s) \in Items(s) /\ Head(s).frame \in FramesIn(s)
<1>1. Head(s) \in S /\ Tail(s) \in Seq(S) /\ s = <<Head(s)>> \o Tail(s)
      /\ <<Head(s)>> \in Seq(S)
    OBVIOUS
<1>2. Items(s) = Items(<<Head(s)>>) \union Items(Tail(s))
      /\ FramesIn(s) = FramesIn(<<Head(s)>>) \union FramesIn(Tail(s))
    <2> DEFINE a == <<Head(s)>>
               b == Tail(s)
    <2>1. a \in Seq(S) /\ b \in Seq(S) /\ s = a \o b
        BY <1>1
    <2> HIDE DEF a, b
    <2>2. /\ FramesIn(a \o b) = FramesIn(a) \union FramesIn(b)
          /\ Items(a \o b) = Items(a) \union Items(b)
        BY ONLY <2>1, FramesInJoined
    <2>3. /\ FramesIn(s) = FramesIn(a) \union FramesIn(b)
          /\ Items(s) = Items(a) \union Items(b)
        BY <2>1, <2>2
    <2> QED BY <2>3 DEF a, b
<1>3. Head(s) = s[1] /\ 1 \in 1..Len(s)
    <2>1. Len(s) \in Nat /\ Len(s) # 0
        BY LenProperties, EmptySeq
    <2> QED BY <2>1
<1>4. Head(s) \in Items(s) /\ Head(s).frame \in FramesIn(s)
    BY <1>3 DEF Items, FramesIn
<1> QED BY <1>1, <1>2, <1>4

LEMMA FramesOnWire ==
    ASSUME NEW units \in Seq(Unit)
    PROVE  /\ FramesIn(OnWire(units)) = FramesIn(units)
           /\ Undamaged(OnWire(units))
           /\ Chained(units) => Chained(OnWire(units))
<1>1. /\ OnWire(units) \in Seq(LineUnit) /\ Len(OnWire(units)) = Len(units)
      /\ \A i \in 1..Len(units) :
            /\ OnWire(units)[i].frame = units[i].frame
            /\ OnWire(units)[i].part = units[i].part
            /\ OnWire(units)[i].damage = "none"
    <2>1. /\ OnWire(units) \in Seq(LineUnit) /\ Len(OnWire(units)) = Len(units)
          /\ \A i \in 1..Len(units) :
                OnWire(units)[i] = HostUnit(units[i].frame, units[i].part, "none")
        BY OnWireUnits
    <2>2. \A frame, part : LET u == HostUnit(frame, part, "none") IN
            u.frame = frame /\ u.part = part /\ u.damage = "none"
        BY DEF HostUnit
    <2> QED BY <2>1, <2>2
<1>2. Len(units) \in Nat /\ (units = <<>> <=> Len(units) = 0)
      /\ (OnWire(units) = <<>> <=> Len(units) = 0)
    BY <1>1, LenProperties, EmptySeq
<1> DEFINE w == OnWire(units)
           N == Len(units)
<1>3. /\ Len(w) = N /\ N \in Nat /\ (units = <<>> <=> N = 0) /\ (w = <<>> <=> N = 0)
      /\ \A i \in 1..N : w[i].frame = units[i].frame /\ w[i].part = units[i].part
                         /\ w[i].damage = "none"
    BY <1>1, <1>2
<1> HIDE DEF w
<1>4. FramesIn(w) = FramesIn(units) /\ Undamaged(w)
    BY <1>3 DEF FramesIn, Undamaged
<1>5. ASSUME Chained(units) PROVE Chained(w)
    <2>1. \A i \in 1..N : w[i].part <= Size(w[i].frame.type)
        BY <1>3, <1>5 DEF Chained
    <2>2. ASSUME NEW i \in 1..(N - 1) PROVE Follows(w[i], w[i + 1])
        <3>1. i \in 1..N /\ i + 1 \in 1..N
            BY <1>3
        <3>2. Follows(units[i], units[i + 1])
            BY <1>5 DEF Chained
        <3> QED BY <1>3, <3>1, <3>2 DEF Follows, Complete
    <2>3. N # 0 => Complete(w[N])
        <3>1. N # 0 => N \in 1..N
            BY <1>3
        <3> QED BY <1>3, <1>5, <3>1 DEF Chained, Complete
    <2> QED BY <1>3, <2>1, <2>2, <2>3 DEF Chained
<1> QED BY <1>4, <1>5 DEF w

-----------------------------------------------------------------------------
(* What enqueue() appends *)

Whole(units) == Chained(units) /\ (units # <<>> => units[1].part = 1)

LEMMA WholeFrame ==
    ASSUME NEW frame \in ServerFrame
    PROVE  Whole(Units(frame)) /\ FramesIn(Units(frame)) = {frame}
<1> DEFINE u == Units(frame)
           k == Size(frame.type)
<1>1. /\ k \in Nat \ {0} /\ u \in Seq(Unit) /\ Len(u) = k
      /\ \A i \in 1..k : u[i].frame = frame /\ u[i].part = i
    BY UnitsOfFrame
<1> HIDE DEF u
<1>2. \A i \in 1..k : u[i].part <= Size(u[i].frame.type)
    BY <1>1
<1>3. ASSUME NEW i \in 1..(k - 1) PROVE Follows(u[i], u[i + 1])
    <2>1. i \in 1..k /\ i + 1 \in 1..k /\ i # k
        BY <1>1
    <2> QED BY <1>1, <2>1 DEF Follows, Complete
<1>4. k \in 1..k /\ 1 \in 1..k
    BY <1>1
<1>5. Complete(u[k])
    BY <1>1, <1>4 DEF Complete
<1>6. Chained(u)
    BY <1>1, <1>2, <1>3, <1>5 DEF Chained
<1>7. FramesIn(u) = {frame}
    BY <1>1, <1>4 DEF FramesIn
<1> QED BY <1>1, <1>4, <1>6, <1>7 DEF Whole, u

LEMMA WholeJoined ==
    ASSUME NEW S, NEW a \in Seq(S), NEW b \in Seq(S), Whole(a), Whole(b)
    PROVE  Whole(a \o b)
<1>1. Chained(a \o b)
    BY ChainedJoined DEF Whole
<1>2. CASE a = <<>>
    BY <1>2, ConcatEmptySeq
<1>3. CASE a # <<>>
    <2>1. 1 \in 1..Len(a)
        BY <1>3, EmptySeq, LenProperties
    <2>2. (a \o b)[1] = a[1]
        BY <2>1, Joined
    <2> QED BY <1>1, <1>3, <2>2 DEF Whole
<1> QED BY <1>2, <1>3

(* The ring takes whole frames, in their order, or none of a frame.         *)
LEMMA EnqueueAppends ==
    ASSUME tx \in Seq(Unit), stale \subseteq Param \union {NoValue},
           NEW frames \in Seq(ServerFrame), Enqueue(frames)
    PROVE  \E new \in Seq(Unit) :
              /\ tx' = tx \o new
              /\ Whole(new) /\ FramesIn(new) \subseteq Items(frames)
<1> DEFINE N == Len(frames)
           Taken(new) == Whole(new) /\ FramesIn(new) \subseteq Items(frames)
<1>1. PICK ring \in [0..N -> Ring] :
         /\ ring[0] = [tx |-> tx, stale |-> stale]
         /\ \A n \in 1..N : ring[n] = EnqueueOne(ring[n - 1], frames[n])
         /\ tx' = ring[N].tx
    BY EnqueueRings
<1> DEFINE Good == {n \in 0..N : \E new \in Seq(Unit) :
                        ring[n].tx = tx \o new /\ Taken(new)}
<1>2. N \in Nat
    BY LenProperties
<1>3. 0 \in Good
    <2>1. <<>> \in Seq(Unit) /\ ring[0].tx = tx \o <<>>
        BY <1>1, ConcatEmptySeq, EmptySeq
    <2>2. Whole(<<>>) /\ FramesIn(<<>>) = {}
        BY DEF Whole, Chained, FramesIn
    <2> QED BY SMTT(30), <1>2, <2>1, <2>2
<1>4. ASSUME NEW n \in 1..N, n - 1 \in Good
      PROVE  n \in Good
    <2> DEFINE f == frames[n]
    <2>1. PICK new \in Seq(Unit) : ring[n - 1].tx = tx \o new /\ Taken(new)
        BY <1>4
    <2>2. f \in ServerFrame /\ f \in Items(frames) /\ n - 1 \in 0..N /\ n \in 0..N
        BY <1>2, ElementOfSeq DEF Items
    <2>3. ring[n - 1] \in Ring /\ ring[n] = EnqueueOne(ring[n - 1], f)
        BY <1>1, <2>2
    <2> HIDE DEF f
    <2>4. ring[n].tx = ring[n - 1].tx \/ ring[n].tx = ring[n - 1].tx \o Units(f)
        BY <2>2, <2>3, EnqueueOneCases
    <2>5. CASE ring[n].tx = ring[n - 1].tx
        <3> HIDE DEF Taken
        <3> QED BY <2>1, <2>2, <2>5
    <2>6. CASE ring[n].tx = ring[n - 1].tx \o Units(f)
        <3> DEFINE u == Units(f)
        <3>1. u \in Seq(Unit) /\ Whole(u) /\ FramesIn(u) = {f}
            BY <2>2, WholeFrame, UnitsOfFrame
        <3> HIDE DEF u
        <3>2. new \o u \in Seq(Unit) /\ Whole(new \o u)
              /\ FramesIn(new \o u) = FramesIn(new) \union FramesIn(u)
            BY <2>1, <3>1, Joined, WholeJoined, FramesInJoined
        <3>3. (tx \o new) \o u = tx \o (new \o u)
            <4>1. tx \in Seq(Unit) /\ new \in Seq(Unit) /\ u \in Seq(Unit)
                BY <2>1, <3>1
            <4> QED BY ONLY SMTT(30), <4>1, ConcatAssociative
        <3>4. ring[n].tx = tx \o (new \o u)
            BY <2>1, <2>6, <3>3 DEF u
        <3>5. Taken(new \o u)
            BY <2>1, <2>2, <3>1, <3>2
        <3> HIDE DEF Taken
        <3> QED BY <2>2, <3>2, <3>4, <3>5
    <2> QED BY <2>4, <2>5, <2>6
<1>5. \A n \in 0..N : n \in Good
    <2> HIDE DEF Good, N
    <2> QED BY <1>2, <1>3, <1>4, UpTo
<1>6. N \in Good
    BY <1>2, <1>5
<1> QED BY <1>1, <1>6

-----------------------------------------------------------------------------
(* What the client may still be given, and what stays *)

LEMMA SeqParts ==
    ASSUME NEW S, NEW a \in Seq(S), NEW b \in Seq(S), NEW c \in Seq(S)
    PROVE  /\ a \o b \in Seq(S) /\ a \o (b \o c) \in Seq(S)
           /\ (a \o b) \o c = a \o (b \o c)
           /\ Items(a \o b) = Items(a) \union Items(b)
           /\ FramesIn(a \o (b \o c)) = FramesIn(a) \union FramesIn(b) \union FramesIn(c)
<1>1. a \o b \in Seq(S) /\ b \o c \in Seq(S)
    BY Joined
<1>2. Items(a \o b) = Items(a) \union Items(b)
      /\ FramesIn(b \o c) = FramesIn(b) \union FramesIn(c)
    BY FramesInJoined
<1>3. (a \o b) \o c = a \o (b \o c)
    BY ConcatAssociative
<1> DEFINE bc == b \o c
<1>4. bc \in Seq(S)
    BY <1>1
<1> HIDE DEF bc
<1>5. a \o bc \in Seq(S) /\ FramesIn(a \o bc) = FramesIn(a) \union FramesIn(bc)
    BY <1>4, Joined, FramesInJoined
<1> QED BY <1>1, <1>2, <1>3, <1>5 DEF bc

LEMMA InPlayTypes ==
    ASSUME CliTypeOK
    PROVE  /\ InPlay \subseteq ServerFrame
           /\ Received \in Seq(ServerFrame) /\ Items(Received) \subseteq InPlay
           /\ Coming \in Seq(LineUnit) /\ FramesIn(Coming) \subseteq InPlay
           /\ OnWire(tx) \in Seq(LineUnit) /\ buf \o line \in Seq(LineUnit)
           /\ buf \o (line \o OnWire(tx)) = (buf \o line) \o OnWire(tx)
<1>1. /\ tx \in Seq(Unit) /\ line \in Seq(LineUnit) /\ buf \in Seq(LineUnit)
      /\ batch \in Seq(ServerFrame) /\ out \in Seq(ServerFrame)
    BY DEF CliTypeOK, SessionTypeOK
<1>2. OnWire(tx) \in Seq(LineUnit) /\ FramesIn(OnWire(tx)) = FramesIn(tx)
    BY <1>1, OnWireUnits, FramesOnWire
<1>3. /\ FramesIn(tx) \subseteq ServerFrame /\ FramesIn(line) \subseteq ServerFrame
      /\ FramesIn(buf) \subseteq ServerFrame
      /\ Items(batch) \subseteq ServerFrame /\ Items(out) \subseteq ServerFrame
    <2>1. \A i \in 1..Len(tx) : tx[i].frame \in ServerFrame
        <3>1. \A i \in 1..Len(tx) : tx[i] \in Unit
            BY <1>1, ElementOfSeq
        <3> QED BY <3>1 DEF Unit
    <2>2. \A i \in 1..Len(line) : line[i].frame \in ServerFrame
        <3>1. \A i \in 1..Len(line) : line[i] \in LineUnit
            BY <1>1, ElementOfSeq
        <3> QED BY <3>1 DEF LineUnit
    <2>3. \A i \in 1..Len(buf) : buf[i].frame \in ServerFrame
        <3>1. \A i \in 1..Len(buf) : buf[i] \in LineUnit
            BY <1>1, ElementOfSeq
        <3> QED BY <3>1 DEF LineUnit
    <2>4. \A i \in 1..Len(batch) : batch[i] \in ServerFrame
        BY <1>1, ElementOfSeq
    <2>5. \A i \in 1..Len(out) : out[i] \in ServerFrame
        BY <1>1, ElementOfSeq
    <2> QED BY <2>1, <2>2, <2>3, <2>4, <2>5 DEF FramesIn, Items
<1>4. /\ out \o batch \in Seq(ServerFrame)
      /\ Items(out \o batch) = Items(out) \union Items(batch)
    BY <1>1, Joined, FramesInJoined
<1>5. Received \in Seq(ServerFrame) /\ Items(Received) \subseteq InPlay
    <2>1. <<>> \in Seq(ServerFrame) /\ Items(<<>>) = {}
        BY DEF Items
    <2> QED BY <1>1, <1>4, <2>1 DEF Received, InPlay
<1> DEFINE w == OnWire(tx)
<1>6. w \in Seq(LineUnit) /\ FramesIn(w) = FramesIn(tx)
    BY <1>2
<1> HIDE DEF w
<1>7. /\ buf \o line \in Seq(LineUnit) /\ buf \o (line \o w) \in Seq(LineUnit)
      /\ (buf \o line) \o w = buf \o (line \o w)
      /\ FramesIn(buf \o (line \o w)) = FramesIn(buf) \union FramesIn(line) \union FramesIn(w)
    <2>1. w \in Seq(LineUnit) /\ line \in Seq(LineUnit) /\ buf \in Seq(LineUnit)
        BY <1>1, <1>6
    <2> QED BY ONLY <2>1, SeqParts
<1>8. Coming \in Seq(LineUnit) /\ FramesIn(Coming) \subseteq InPlay
    BY <1>6, <1>7 DEF Coming, InPlay, w
<1>9. InPlay \subseteq ServerFrame
    BY <1>3 DEF InPlay
<1> QED BY <1>5, <1>6, <1>7, <1>8, <1>9 DEF w

LEMMA OneMore ==
    ASSUME NEW S, NEW s \in Seq(S), NEW x \in S
    PROVE  /\ Append(s, x) \in Seq(S) /\ Append(s, x) = s \o <<x>> /\ <<x>> \in Seq(S)
           /\ FramesIn(Append(s, x)) = FramesIn(s) \union {x.frame}
           /\ Items(Append(s, x)) = Items(s) \union {x}
<1> DEFINE one == <<x>>
<1>1. one \in Seq(S) /\ Append(s, x) = s \o one
    BY AppendIsConcat
<1>2. FramesIn(one) = {x.frame} /\ Items(one) = {x}
    BY DEF FramesIn, Items
<1> HIDE DEF one
<1>3. /\ s \o one \in Seq(S)
      /\ FramesIn(s \o one) = FramesIn(s) \union FramesIn(one)
      /\ Items(s \o one) = Items(s) \union Items(one)
    BY <1>1, Joined, FramesInJoined
<1> QED BY <1>1, <1>2, <1>3 DEF one

(* Whatever becomes of what the host has, the P4's ring is in order.        *)
LEMMA RingOrderly ==
    ASSUME CliIInv, intact
    PROVE  Orderly(history, <<>>, OnWire(tx))
<1>1. CliTypeOK /\ Orderly(history, Received, Coming)
    BY DEF CliIInv, SnapshotsApart
<1>2. /\ Received \in Seq(ServerFrame) /\ Coming \in Seq(LineUnit)
      /\ OnWire(tx) \in Seq(LineUnit) /\ buf \o line \in Seq(LineUnit)
      /\ buf \o (line \o OnWire(tx)) = (buf \o line) \o OnWire(tx)
    BY <1>1, InPlayTypes
<1>3. Orderly(history, <<>>, Coming)
    BY <1>1, <1>2, OrderlyForget
<1>4. CASE Reading
    <2>1. Orderly(history, <<>>, (buf \o line) \o OnWire(tx))
        BY <1>2, <1>3, <1>4 DEF Coming
    <2>2. <<>> \in Seq(ServerFrame)
        OBVIOUS
    <2> QED BY <1>2, <2>1, <2>2, OrderlySkip
<1>5. CASE ~Reading
    BY <1>3, <1>5 DEF Coming
<1> QED BY <1>4, <1>5

(* A step that sends nothing and starts no command.                         *)
Busy == pc \in {"read", "feed", "filter", "print"}

LEMMA NothingNew ==
    ASSUME CliIInv, UNCHANGED <<values, revision, history>>, InPlay' \subseteq InPlay,
           Busy' => Busy /\ cmd' = cmd /\ fresh' = fresh,
           Items(up') \union Items(parsed') \subseteq Items(up) \union Items(parsed)
    PROVE  HistoryOK' /\ AllTold' /\ OneSnapshot'
<1>1. HistoryOK'
    BY DEF CliIInv, HistoryOK
<1>2. AllTold'
    BY DEF CliIInv, AllTold
<1>3. OneSnapshot'
    <2> SUFFICES ASSUME fresh', Busy', cmd'.name = "state"
                 PROVE  /\ \A request \in Items(up') \union Items(parsed') :
                              request.type = "GET_STATE"
                        /\ \A frame \in InPlay' :
                              /\ frame.revision \in {NoValue, revision'}
                              /\ frame.param \in Param => frame.value = values'[frame.param]
        BY DEF OneSnapshot, Reading, Busy
    <2>1. fresh /\ Busy /\ cmd.name = "state"
        OBVIOUS
    <2> QED BY <2>1 DEF CliIInv, OneSnapshot, Reading, Busy
<1> QED BY <1>1, <1>2, <1>3

LEMMA NothingReported ==
    ASSUME CliIInv, report' = report \/ report' = Silence, history' = history
    PROVE  ReportTrue'
<1>1. Silence.revision = NoValue
    BY DEF Silence
<1> QED BY <1>1 DEF CliIInv, ReportTrue

-----------------------------------------------------------------------------
(* The P4's steps *)

LEMMA TransmitSteps ==
    ASSUME CliIInv, Transmit
    PROVE  CliIInv'
<1> DEFINE u == HostUnit(Head(tx).frame, Head(tx).part, "none")
           rest == OnWire(Tail(tx))
<1>1. /\ CliTypeOK /\ SessionTypeOK /\ tx \in Seq(Unit) /\ tx # <<>> /\ tx' = Tail(tx)
      /\ line \in Seq(LineUnit) /\ buf \in Seq(LineUnit) /\ Chained(tx)
    BY DEF Transmit, TakeTx, CliIInv, CliTypeOK, SessionTypeOK
<1>2. /\ u \in LineUnit /\ Tail(tx) \in Seq(Unit) /\ OnWire(tx) = <<u>> \o rest
      /\ rest \in Seq(LineUnit)
    BY <1>1, OnWireHead, OnWireUnits
<1>3. /\ FramesIn(Tail(tx)) \subseteq FramesIn(tx) /\ u.frame \in FramesIn(tx)
      /\ <<Head(tx)>> \in Seq(Unit) /\ tx = <<Head(tx)>> \o Tail(tx)
    BY <1>1, OneInFront DEF HostUnit
<1>4. /\ line' = line \o <<u>> /\ line' \in Seq(LineUnit) /\ <<u>> \in Seq(LineUnit)
      /\ FramesIn(line') = FramesIn(line) \union {u.frame}
    <2>1. line' = Append(line, u)
        BY DEF Transmit
    <2> HIDE DEF u
    <2> QED BY <1>1, <1>2, <2>1, OneMore
<1> HIDE DEF u, rest
<1>5. UNCHANGED <<up, pc, cmd, seq, readVars, ghostVars, boundVars>>
      /\ UNCHANGED <<parsed, values, revision>>
    BY DEF Transmit, TakeTx, stateVars
<1>6. CliTypeOK'
    <2>1. SessionTypeOK'
        BY <1>1, ShortStepTypes DEF Transmit
    <2> QED BY <1>1, <1>4, <1>5, <2>1 DEF CliTypeOK, Reading, readVars, ghostVars
<1>7. HistoryOK' /\ AllTold' /\ OneSnapshot' /\ ReportTrue'
    <2>1. InPlay' \subseteq InPlay
        BY <1>1, <1>3, <1>4, <1>5 DEF InPlay, readVars
    <2> QED BY <1>5, <2>1, NothingNew, NothingReported DEF readVars, ghostVars, Busy
<1>8. Chained(tx')
    BY <1>1, <1>2, <1>3, ChainedPart
<1>9. SnapshotsApart'
    <2> SUFFICES ASSUME intact PROVE Orderly(history, Received', Coming')
        BY <1>5 DEF SnapshotsApart, ghostVars
    <2>1. Received' = Received /\ (Reading' <=> Reading) /\ OnWire(tx') = rest /\ buf' = buf
        BY <1>1, <1>5 DEF Received, Reading, readVars, rest
    <2>2. CASE Reading
        <3>1. line' \o rest = line \o (<<u>> \o rest)
            <4>1. line \in Seq(LineUnit) /\ <<u>> \in Seq(LineUnit) /\ rest \in Seq(LineUnit)
                BY <1>1, <1>2, <1>4
            <4>2. (line \o <<u>>) \o rest = line \o (<<u>> \o rest)
                BY ONLY <4>1, ConcatAssociative
            <4> QED BY <1>4, <4>2
        <3>2. Coming' = Coming
            BY <1>2, <2>1, <2>2, <3>1 DEF Coming
        <3> QED BY <2>1, <3>2 DEF CliIInv, SnapshotsApart
    <2>3. CASE ~Reading
        <3>1. Received' = <<>> /\ Coming' = rest
            BY <2>1, <2>3 DEF Received, Reading, Coming
        <3>2. Orderly(history, <<>>, <<u>> \o rest)
            BY <1>2, RingOrderly
        <3>3. <<>> \in Seq(ServerFrame)
            OBVIOUS
        <3> QED BY <1>2, <1>4, <3>1, <3>2, <3>3, OrderlySkip
    <2> QED BY <2>2, <2>3
<1>10. EndsRequest' /\ OneIsPrinted'
    BY <1>5 DEF CliIInv, EndsRequest, OneIsPrinted, Reading, readVars, ghostVars
<1> QED BY <1>6, <1>7, <1>8, <1>9, <1>10 DEF CliIInv

LEMMA TransmitFaultySteps ==
    ASSUME CliIInv, TransmitFaulty
    PROVE  CliIInv'
<1>1. /\ CliTypeOK /\ SessionTypeOK /\ tx \in Seq(Unit) /\ tx # <<>> /\ tx' = Tail(tx)
      /\ line \in Seq(LineUnit) /\ Chained(tx) /\ intact' = FALSE
    BY DEF TransmitFaulty, TakeTx, CliIInv, CliTypeOK, SessionTypeOK
<1>2. /\ Head(tx) \in Unit /\ Tail(tx) \in Seq(Unit) /\ <<Head(tx)>> \in Seq(Unit)
      /\ tx = <<Head(tx)>> \o Tail(tx)
      /\ FramesIn(Tail(tx)) \subseteq FramesIn(tx) /\ Head(tx).frame \in FramesIn(tx)
    BY <1>1, OneInFront
<1>3. line' \in Seq(LineUnit) /\ FramesIn(line') \subseteq FramesIn(line) \union FramesIn(tx)
    <2>1. CASE line' = line
        BY <1>1, <2>1
    <2>2. ASSUME NEW damage \in Damage,
                 line' = Append(line, HostUnit(Head(tx).frame, Head(tx).part, damage))
          PROVE  line' \in Seq(LineUnit)
                 /\ FramesIn(line') \subseteq FramesIn(line) \union FramesIn(tx)
        <3> DEFINE u == HostUnit(Head(tx).frame, Head(tx).part, damage)
        <3>1. u \in LineUnit /\ u.frame \in FramesIn(tx)
            BY <1>2 DEF HostUnit, LineUnit, Unit
        <3>2. line' = Append(line, u)
            BY <2>2
        <3> HIDE DEF u
        <3>3. line \in Seq(LineUnit) /\ u \in LineUnit
            BY <1>1, <3>1
        <3>4. /\ line' = line \o <<u>> /\ line' \in Seq(LineUnit) /\ <<u>> \in Seq(LineUnit)
              /\ FramesIn(line') = FramesIn(line) \union {u.frame}
            BY <3>2, <3>3, OneMore
        <3> QED BY <3>1, <3>4
    <2>3. "body" \in Damage
        BY DEF Damage
    <2>4. CASE line' # line
        <3>1. PICK damage \in Damage :
                line' = Append(line, HostUnit(Head(tx).frame, Head(tx).part, damage))
            BY <2>3, <2>4 DEF TransmitFaulty
        <3> QED BY <2>2, <3>1
    <2> QED BY <2>1, <2>4
<1>5. UNCHANGED <<up, pc, cmd, seq, readVars, report, history, fresh>>
      /\ UNCHANGED <<parsed, values, revision>>
    BY DEF TransmitFaulty, TakeTx, stateVars
<1>6. CliTypeOK'
    <2>1. SessionTypeOK'
        BY <1>1, ShortStepTypes DEF TransmitFaulty
    <2> QED BY <1>1, <1>3, <1>5, <2>1 DEF CliTypeOK, Reading, readVars
<1>7. HistoryOK' /\ AllTold' /\ OneSnapshot' /\ ReportTrue'
    <2>1. InPlay' \subseteq InPlay
        BY <1>1, <1>2, <1>3, <1>5 DEF InPlay, readVars
    <2> QED BY <1>5, <2>1, NothingNew, NothingReported DEF readVars, Busy
<1>8. Chained(tx')
    BY <1>1, <1>2, ChainedPart
<1>9. SnapshotsApart' /\ EndsRequest' /\ OneIsPrinted'
    BY <1>1, <1>5 DEF CliIInv, SnapshotsApart, EndsRequest, OneIsPrinted, Reading, readVars
<1> QED BY <1>6, <1>7, <1>8, <1>9 DEF CliIInv

LEMMA RequestSteps ==
    ASSUME CliIInv, P4Read \/ LoseRequest
    PROVE  CliIInv'
<1>1. CliTypeOK /\ SessionTypeOK /\ up \in Seq(ClientFrame) /\ up # <<>> /\ up' = Tail(up)
    BY DEF P4Read, LoseRequest, CliIInv, CliTypeOK
<1>2. /\ Head(up) \in ClientFrame /\ Tail(up) \in Seq(ClientFrame)
      /\ <<Head(up)>> \in Seq(ClientFrame)
      /\ Items(Tail(up)) \subseteq Items(up) /\ Head(up) \in Items(up)
    BY <1>1, OneInFront
<1>3. /\ UNCHANGED <<connection, stateVars, tx, stale, rxAge, clockVars, line, pc, cmd, seq,
                     readVars, report, history, fresh>>
      /\ intact' => intact
    BY DEF P4Read, LoseRequest, ghostVars, sessionVars, stateVars, clockVars
<1>4. /\ parsed' \in Seq(ClientFrame) /\ inflight' \subseteq Seq8
      /\ Items(up') \union Items(parsed') \subseteq Items(up) \union Items(parsed)
    <2>1. Items(<<Head(up)>>) = {Head(up)}
        BY <1>2 DEF Items
    <2>2. CASE P4Read
        BY <1>1, <1>2, <2>1, <2>2 DEF P4Read
    <2>3. CASE LoseRequest
        BY <1>1, <1>2, <2>3 DEF LoseRequest, sessionVars, CliTypeOK, SessionTypeOK
    <2> QED BY <2>2, <2>3
<1>5. CliTypeOK'
    <2>1. SessionTypeOK'
        BY <1>1, <1>3, <1>4 DEF SessionTypeOK, stateVars, clockVars
    <2>2. intact' \in BOOLEAN
        BY <1>1 DEF P4Read, LoseRequest, ghostVars, CliTypeOK
    <2> QED BY <1>1, <1>2, <1>3, <2>1, <2>2 DEF CliTypeOK, Reading, readVars
<1>6. HistoryOK' /\ AllTold' /\ OneSnapshot' /\ ReportTrue'
    <2>1. InPlay' = InPlay
        BY <1>3 DEF InPlay, readVars
    <2> QED BY <1>3, <1>4, <2>1, NothingNew, NothingReported DEF readVars, Busy, stateVars
<1>7. Chained(tx') /\ SnapshotsApart' /\ EndsRequest' /\ OneIsPrinted'
    <2>1. (Reading' <=> Reading) /\ Received' = Received /\ Coming' = Coming
        BY <1>3 DEF Reading, Received, Coming, readVars
    <2> QED BY <1>3, <2>1 DEF CliIInv, SnapshotsApart, EndsRequest, OneIsPrinted, readVars
<1> QED BY <1>5, <1>6, <1>7 DEF CliIInv

(* Frames that are true when they are sent stay true under their revision,  *)
(* and a snapshot that is sent with its end keeps apart from those before.  *)
LEMMA SendKeeps ==
    ASSUME CliIInv, HistoryOK', revision' \in Nat, NEW frames, Sends(frames),
           \/ UNCHANGED <<history, values, revision>>
           \/ history' = Append(history, values') /\ values' \in [Param -> Value],
           UNCHANGED <<up, line, pc, cmd, buf, batch, out, report, fresh>>,
           parsed' \in Seq(ClientFrame), Items(parsed') \subseteq Items(parsed),
           intact' => intact,
           fresh /\ Busy /\ cmd.name = "state" => UNCHANGED <<values, revision>>,
           \A n \in 1..Len(frames) :
                frames[n].type \in SnapshotType => (intact' => SnapshotEnds(tx'))
    PROVE  /\ AllTold' /\ OneSnapshot' /\ Chained(tx') /\ SnapshotsApart'
           /\ EndsRequest' /\ OneIsPrinted' /\ ReportTrue'
<1>1. /\ CliTypeOK /\ HistoryOK /\ tx \in Seq(Unit)
      /\ stale \subseteq Param \union {NoValue}
      /\ line \in Seq(LineUnit) /\ buf \in Seq(LineUnit) /\ Chained(tx)
      /\ history \in Seq([Param -> Value]) /\ Len(history) = revision + 1
      /\ history[revision + 1] = values /\ revision \in Nat
    BY DEF CliIInv, CliTypeOK, SessionTypeOK, HistoryOK
<1>2. /\ InPlay \subseteq ServerFrame
      /\ Received \in Seq(ServerFrame) /\ Items(Received) \subseteq InPlay
      /\ Coming \in Seq(LineUnit) /\ FramesIn(Coming) \subseteq InPlay
    BY <1>1, InPlayTypes
<1>3. frames \in Seq(ServerFrame) /\ Enqueue(frames)
    BY DEF Sends
<1>4. PICK new \in Seq(Unit) :
        tx' = tx \o new /\ Whole(new) /\ FramesIn(new) \subseteq Items(frames)
    BY <1>1, <1>3, EnqueueAppends
<1>5. Chained(tx') /\ FramesIn(tx') = FramesIn(tx) \union FramesIn(new)
    BY <1>1, <1>4, ChainedJoined, FramesInJoined DEF Whole
<1>6. InPlay' \subseteq InPlay \union Items(frames)
    BY <1>4, <1>5 DEF InPlay
<1>7. ASSUME NEW frame \in Items(frames)
      PROVE  /\ frame \in ServerFrame
             /\ frame.param \in Param => frame.value = values'[frame.param]
             /\ frame.revision \in {NoValue, revision'}
    <2>1. PICK n \in 1..Len(frames) : frame = frames[n]
        BY DEF Items
    <2> QED BY <1>3, <2>1, ElementOfSeq DEF Sends
<1>8. Len(history') = revision' + 1 /\ history'[revision' + 1] = values' /\ revision' \in Nat
      /\ NoValue \notin Nat
    BY SessionAssumption DEF HistoryOK
<1>9. ASSUME NEW frame \in Items(frames) PROVE ToldBy(history', frame)
    <2> SUFFICES ASSUME frame.revision # NoValue
                 PROVE  /\ frame.revision + 1 \in 1..Len(history')
                        /\ frame.param \in Param =>
                              frame.value = history'[frame.revision + 1][frame.param]
        BY DEF ToldBy
    <2>1. frame.revision = revision'
        BY <1>7
    <2>2. revision' + 1 \in 1..Len(history')
        <3>1. revision' \in Nat /\ Len(history') = revision' + 1
            BY <1>8
        <3>2. \A n \in Nat : n + 1 \in 1..(n + 1)
            OBVIOUS
        <3> QED BY <3>1, <3>2
    <2> QED BY <1>7, <1>8, <2>1, <2>2
<1>10. ASSUME NEW frame \in InPlay PROVE ToldBy(history', frame)
    <2>1. ToldBy(history, frame) /\ frame \in ServerFrame
        BY <1>2 DEF CliIInv, AllTold
    <2> QED BY <1>1, <2>1, ToldLater
<1>11. AllTold'
    BY <1>6, <1>9, <1>10 DEF AllTold
<1>12. OneSnapshot'
    <2> SUFFICES ASSUME fresh, Busy, cmd.name = "state"
                 PROVE  /\ \A request \in Items(up') \union Items(parsed') :
                              request.type = "GET_STATE"
                        /\ \A frame \in InPlay' :
                              /\ frame.revision \in {NoValue, revision'}
                              /\ frame.param \in Param => frame.value = values'[frame.param]
        BY DEF OneSnapshot, Reading, Busy
    <2>1. UNCHANGED <<values, revision>>
        OBVIOUS
    <2>2. /\ \A request \in Items(up) \union Items(parsed) : request.type = "GET_STATE"
          /\ \A frame \in InPlay :
                /\ frame.revision \in {NoValue, revision}
                /\ frame.param \in Param => frame.value = values[frame.param]
        BY DEF CliIInv, OneSnapshot, Reading, Busy
    <2> QED BY <1>6, <1>7, <2>1, <2>2
<1>13. SnapshotsApart'
    <2> SUFFICES ASSUME intact' PROVE Orderly(history', Received', Coming')
        BY DEF SnapshotsApart
    <2> DEFINE d == OnWire(new)
               w == OnWire(tx)
    <2>1. /\ d \in Seq(LineUnit) /\ Len(d) = Len(new)
          /\ \A i \in 1..Len(new) : d[i] = HostUnit(new[i].frame, new[i].part, "none")
          /\ FramesIn(d) = FramesIn(new) /\ Undamaged(d) /\ (Chained(new) => Chained(d))
          /\ w \in Seq(LineUnit) /\ OnWire(tx') = w \o d
        BY <1>1, <1>4, OnWireUnits, FramesOnWire, OnWireJoined
    <2>2. Coming' = Coming \o d
        <3> HIDE DEF d, w
        <3>1. CASE Reading
            <4>1. buf' = buf /\ line' = line /\ Reading'
                BY <3>1 DEF Reading
            <4>2. line \o w \in Seq(LineUnit)
                BY <1>1, <2>1, Joined
            <4> DEFINE lw == line \o w
            <4>3. line \o (w \o d) = lw \o d
                <5>1. line \in Seq(LineUnit) /\ w \in Seq(LineUnit) /\ d \in Seq(LineUnit)
                    BY <1>1, <2>1
                <5> QED BY ONLY SMTT(30), <5>1, ConcatAssociative
            <4>4. buf \in Seq(LineUnit) /\ lw \in Seq(LineUnit) /\ d \in Seq(LineUnit)
                BY <1>1, <2>1, <4>2
            <4> HIDE DEF lw
            <4>5. buf \o (lw \o d) = (buf \o lw) \o d
                BY ONLY SMTT(30), <4>4, ConcatAssociative
            <4>6. Coming = buf \o lw
                BY <3>1 DEF Coming, lw, w
            <4> QED BY <2>1, <4>1, <4>3, <4>5, <4>6 DEF Coming
        <3>2. CASE ~Reading
            BY <2>1, <3>2 DEF Coming, Reading, w
        <3> QED BY <3>1, <3>2
    <2>3. Received' = Received
        BY DEF Received
    <2>4. Orderly(history, Received, Coming)
        BY DEF CliIInv, SnapshotsApart
    <2>5. Orderly(history', Received, Coming)
        <3>1. CASE history' = history
            BY <2>4, <3>1
        <3>2. CASE history' = Append(history, values') /\ values' \in [Param -> Value]
            <4>1. \A f \in Items(Received) \union FramesIn(Coming) : ToldBy(history, f)
                BY <1>2 DEF CliIInv, AllTold
            <4>2. Orderly(Append(history, values'), Received, Coming)
                BY <1>1, <1>2, <2>4, <3>2, <4>1, OrderlyLater
            <4> QED BY <3>2, <4>2
        <3> QED BY <3>1, <3>2
    <2>6. ASSUME NEW i \in 1..Len(d) PROVE d[i].frame \in Items(frames)
        BY <1>4, <2>1 DEF FramesIn
    <2>7. ASSUME NEW i \in 1..Len(d), NEW j \in 1..Len(d)
          PROVE  ~Mismatch(history', d[i].frame, d[j].frame)
        <3> DEFINE f == d[i].frame
                   g == d[j].frame
        <3>1. f \in Items(frames) /\ g \in Items(frames)
            BY <2>6
        <3> HIDE DEF d, f, g
        <3> SUFFICES ~Mismatch(history', f, g)
            BY DEF f, g
        <3> QED BY <1>7, <1>8, <3>1 DEF Mismatch
    <2>8. ASSUME NEW i \in 1..Len(d), d[i].frame.type \in {"STATE_BEGIN", "STATE_PARAM"}
          PROVE  d[Len(d)].frame.type = "STATE_END"
        <3>1. d[i].frame \in Items(frames)
            BY <2>6
        <3>2. PICK n \in 1..Len(frames) : frames[n] = d[i].frame
            BY <3>1 DEF Items
        <3>3. SnapshotEnds(tx')
            BY <2>8, <3>2 DEF SnapshotType
        <3>4. Len(new) \in 1..Len(new) /\ Len(tx') = Len(tx) + Len(new)
              /\ tx'[Len(tx) + Len(new)] = new[Len(new)]
            <4>1. Len(new) \in 1..Len(new)
                BY <1>4, <2>1, LenProperties
            <4>2. /\ Len(tx \o new) = Len(tx) + Len(new)
                  /\ \A k \in 1..Len(new) : (tx \o new)[Len(tx) + k] = new[k]
                BY <1>1, <1>4, Joined
            <4> QED BY <1>4, <4>1, <4>2
        <3>5. new[Len(new)].frame.type = "STATE_END"
            BY <3>3, <3>4 DEF SnapshotEnds
        <3>6. d[Len(d)] = HostUnit(new[Len(new)].frame, new[Len(new)].part, "none")
            BY <2>1, <3>4
        <3> HIDE DEF d
        <3> QED BY <3>5, <3>6 DEF HostUnit
    <2>9. d # <<>> => d[1].part = 1
        <3>1. d # <<>> => 1 \in 1..Len(new) /\ new # <<>>
            <4> HIDE DEF d
            <4> QED BY <1>4, <2>1, LenProperties, EmptySeq
        <3>2. 1 \in 1..Len(new) => d[1] = HostUnit(new[1].frame, new[1].part, "none")
            BY <2>1
        <3> HIDE DEF d
        <3>3. 1 \in 1..Len(new) => d[1].part = new[1].part
            BY <3>2 DEF HostUnit
        <3> QED BY <1>4, <3>1, <3>3 DEF Whole
    <2>10. Orderly(history', Received, Coming \o d)
        <3> HIDE DEF d
        <3>1. \A i, j \in 1..Len(d) : ~AtOdds(history', d[i].frame, d[j].frame)
            BY <2>7 DEF AtOdds
        <3>2. Chained(d) /\ Undamaged(d) /\ d \in Seq(LineUnit)
            BY <1>4, <2>1 DEF Whole
        <3> QED BY <1>2, <2>5, <2>8, <2>9, <3>1, <3>2, OrderlySend
    <2> QED BY <2>2, <2>3, <2>10
<1>14. EndsRequest'
    BY DEF CliIInv, EndsRequest, Reading
<1>15. \A rev \in Nat : rev + 1 \in 1..Len(history) =>
            rev + 1 \in 1..Len(history') /\ history'[rev + 1] = history[rev + 1]
    <2>1. CASE history' = history
        BY <2>1
    <2>2. CASE history' = Append(history, values')
        <3>1. Len(history') = Len(history) + 1 /\ Len(history) \in Nat
              /\ \A i \in 1..Len(history) : history'[i] = history[i]
            BY <1>1, <2>2, AppendProperties, LenProperties
        <3> QED BY <3>1
    <2> QED BY <2>1, <2>2
<1>16. OneIsPrinted'
    <2> SUFFICES ASSUME pc = "print", intact', NEW i \in 1..Len(out), NEW j \in 1..Len(out),
                        Mismatch(history', out[i], out[j])
                 PROVE  FALSE
        BY DEF OneIsPrinted
    <2>1. out[i] \in InPlay /\ out[i] \in ServerFrame
        BY <1>2 DEF InPlay, Items
    <2>2. ~Mismatch(history, out[i], out[j])
        BY DEF CliIInv, OneIsPrinted
    <2>3. ToldBy(history, out[i]) /\ out[i].revision \in Nat \union {NoValue}
        BY <2>1 DEF CliIInv, AllTold, ServerFrame
    <2> QED BY <1>15, <2>2, <2>3 DEF Mismatch, ToldBy
<1>17. ReportTrue'
    <2> SUFFICES ASSUME report.revision # NoValue, report.cmd.name = "state" => report.apart
                 PROVE  /\ report.revision + 1 \in 1..Len(history')
                        /\ \A p \in report.printed : p.param \in Param =>
                              p.value = history'[report.revision + 1][p.param]
        BY DEF ReportTrue
    <2>1. /\ report.revision + 1 \in 1..Len(history)
          /\ \A p \in report.printed : p.param \in Param =>
                p.value = history[report.revision + 1][p.param]
        BY DEF CliIInv, ReportTrue
    <2> QED BY <1>15, <2>1
<1> QED BY <1>5, <1>11, <1>12, <1>13, <1>14, <1>16, <1>17

LEMMA HandleFramePops ==
    ASSUME HandleFrame
    PROVE  parsed # <<>> /\ parsed' = Tail(parsed)
<1>1. ASSUME NEW frame, NEW types, Dispatch(frame, types)
      PROVE  parsed' = Tail(parsed)
    BY <1>1 DEF Dispatch, PopFrame
<1> QED
    BY <1>1 DEF HandleFrame, RejectDuplicate, PopFrame, HandleHello,
        HandleHeartbeat, HandleCapsRequest, HandleGetState, HandleGetParam,
        RejectSetParam, SetParamQueueFull, AcceptSetParam, HandleUnsupported,
        HandleIgnored, HandleUnknown

LEMMA P4HandleSteps ==
    ASSUME CliIInv, P4Handle
    PROVE  CliIInv'
<1>1. /\ CliTypeOK /\ SessionTypeOK /\ HandleFrame /\ HistoryOK
      /\ parsed \in Seq(ClientFrame) /\ revision \in Nat /\ values \in [Param -> Value]
      /\ history \in Seq([Param -> Value]) /\ Len(history) = revision + 1
      /\ history[revision + 1] = values
    BY DEF P4Handle, CliIInv, CliTypeOK, SessionTypeOK, HistoryOK
<1>2. /\ UNCHANGED <<up, line, pc, cmd, seq, buf, batch, expired, out, report, fresh>>
      /\ history' = IF revision' = revision THEN history ELSE Append(history, values')
      /\ intact' = (intact /\ (Head(parsed).type = "GET_STATE" => SnapshotEnds(tx')))
    BY DEF P4Handle, lineVars, readVars
<1>3. SessionTypeOK'
    BY <1>1, HandleFrameTypes
<1>4. \/ values' = values /\ revision' = revision
      \/ Head(parsed).type = "SET_PARAM" /\ revision' = revision + 1
    BY <1>1, HandleFrameCounts
<1>5. /\ parsed' \in Seq(ClientFrame) /\ Items(parsed') \subseteq Items(parsed)
      /\ Head(parsed) \in Items(parsed)
    BY <1>1, HandleFramePops, OneInFront
<1>6. CliTypeOK'
    BY <1>1, <1>2, <1>3 DEF CliTypeOK, Reading
<1>7. revision' \in Nat /\ values' \in [Param -> Value]
    BY <1>3 DEF SessionTypeOK
<1>8. \/ UNCHANGED <<history, values, revision>>
      \/ history' = Append(history, values') /\ revision' = revision + 1
    BY <1>1, <1>2, <1>4
<1>9. HistoryOK'
    <2>1. CASE UNCHANGED <<history, values, revision>>
        BY <1>1, <2>1 DEF HistoryOK
    <2>2. CASE history' = Append(history, values') /\ revision' = revision + 1
        BY <1>1, <1>7, <2>2, AppendProperties DEF HistoryOK
    <2> QED BY <1>8, <2>1, <2>2
<1>10. fresh /\ Busy /\ cmd.name = "state" => UNCHANGED <<values, revision>>
    <2> SUFFICES ASSUME fresh, Busy, cmd.name = "state"
                 PROVE  UNCHANGED <<values, revision>>
        OBVIOUS
    <2>1. Head(parsed).type = "GET_STATE"
        BY <1>5 DEF CliIInv, OneSnapshot, Reading, Busy
    <2> QED BY <1>4, <2>1
<1>11. CASE UNCHANGED <<tx, stale, values, revision, inflight>>
    <2>1. InPlay' = InPlay /\ history' = history /\ (intact' => intact)
        BY <1>2, <1>11 DEF InPlay
    <2>2. AllTold' /\ OneSnapshot' /\ ReportTrue'
        BY <1>2, <1>5, <1>11, <2>1, NothingNew, NothingReported DEF Busy
    <2>3. Received' = Received /\ Coming' = Coming /\ (Reading' <=> Reading)
        BY <1>2, <1>11 DEF Received, Coming, Reading
    <2>4. Chained(tx') /\ SnapshotsApart' /\ EndsRequest' /\ OneIsPrinted'
        BY <1>2, <1>11, <2>1, <2>3
        DEF CliIInv, SnapshotsApart, EndsRequest, OneIsPrinted, Reading
    <2> QED BY <1>6, <1>9, <2>2, <2>4 DEF CliIInv
<1>12. ASSUME NEW frames, Sends(frames), AnswersOnce(Head(parsed), frames)
       PROVE  CliIInv'
    <2>1. \A n \in 1..Len(frames) :
            frames[n].type \in SnapshotType => (intact' => SnapshotEnds(tx'))
        BY <1>2, <1>12 DEF AnswersOnce
    <2>2. \/ UNCHANGED <<history, values, revision>>
          \/ history' = Append(history, values') /\ values' \in [Param -> Value]
        BY <1>7, <1>8
    <2>3. /\ AllTold' /\ OneSnapshot' /\ Chained(tx') /\ SnapshotsApart'
          /\ EndsRequest' /\ OneIsPrinted' /\ ReportTrue'
        BY <1>2, <1>5, <1>7, <1>9, <1>10, <1>12, <2>1, <2>2, SendKeeps
    <2> QED BY <1>6, <1>9, <2>3 DEF CliIInv
<1> QED BY <1>1, <1>11, <1>12, HandleFrameSends

LEMMA P4TickSteps ==
    ASSUME CliIInv, P4Tick
    PROVE  CliIInv'
<1>1. /\ CliTypeOK /\ SessionTypeOK /\ Tick(HeartbeatInterval) /\ HistoryOK
      /\ HeartbeatInterval \in Nat /\ revision \in Nat /\ parsed \in Seq(ClientFrame)
    BY SessionAssumption DEF P4Tick, CliIInv, CliTypeOK, SessionTypeOK
<1>2. /\ UNCHANGED <<up, line, pc, cmd, seq, buf, batch, expired, out, report, history,
                     fresh, intact>>
      /\ UNCHANGED <<parsed, values, revision>>
    BY DEF P4Tick, Tick, lineVars, readVars, ghostVars, stateVars
<1>3. CliTypeOK'
    <2>1. SessionTypeOK'
        BY <1>1, TickTypes
    <2> QED BY <1>1, <1>2, <2>1 DEF CliTypeOK, Reading
<1>4. HistoryOK'
    BY <1>1, <1>2 DEF HistoryOK
<1>5. PICK frames : Sends(frames) /\ \A n \in 1..Len(frames) : frames[n].type = "HEARTBEAT"
    BY <1>1, TickSends
<1>6. /\ AllTold' /\ OneSnapshot' /\ Chained(tx') /\ SnapshotsApart'
      /\ EndsRequest' /\ OneIsPrinted' /\ ReportTrue'
    <2>1. \A n \in 1..Len(frames) :
            frames[n].type \in SnapshotType => (intact' => SnapshotEnds(tx'))
        BY <1>5 DEF SnapshotType
    <2> QED BY <1>1, <1>2, <1>4, <1>5, <2>1, SendKeeps
<1> QED BY <1>3, <1>4, <1>6 DEF CliIInv

-----------------------------------------------------------------------------
(* The client's steps *)

(* A command ends: what it has read and not read is forgotten.              *)
LEMMA BackToIdle ==
    ASSUME CliIInv, pc' = "idle", ReportTrue',
           UNCHANGED <<sessionVars, up, line, seq, readVars, history, fresh, intact>>
    PROVE  CliIInv'
<1>1. CliTypeOK /\ SessionTypeOK
    BY DEF CliIInv, CliTypeOK
<1>2. CliTypeOK'
    <2>1. SessionTypeOK'
        BY <1>1 DEF SessionTypeOK, sessionVars
    <2> QED BY <1>1, <2>1 DEF CliTypeOK, Reading, readVars
<1>3. HistoryOK' /\ AllTold' /\ OneSnapshot'
    <2>1. InPlay' = InPlay
        BY DEF InPlay, readVars, sessionVars
    <2> QED BY <2>1, NothingNew DEF Busy, sessionVars
<1>4. SnapshotsApart'
    <2> SUFFICES ASSUME intact PROVE Orderly(history, Received', Coming')
        BY DEF SnapshotsApart
    <2>1. Received' = <<>> /\ Coming' = OnWire(tx)
        BY DEF Received, Coming, Reading, sessionVars
    <2> QED BY <2>1, RingOrderly
<1>5. Chained(tx') /\ EndsRequest' /\ OneIsPrinted'
    BY DEF CliIInv, EndsRequest, OneIsPrinted, Reading, sessionVars
<1> QED BY <1>2, <1>3, <1>4, <1>5 DEF CliIInv

LEMMA KillSteps ==
    ASSUME CliIInv, Kill
    PROVE  CliIInv'
<1>1. /\ UNCHANGED <<sessionVars, up, line, seq, readVars, history, fresh, intact>>
      /\ report' = Silence /\ pc' = "idle"
    BY DEF Kill, lineVars
<1>2. ReportTrue'
    BY <1>1, NothingReported
<1> QED BY <1>1, <1>2, BackToIdle

LEMMA RequestTypes ==
    ASSUME NEW command \in Command
    PROVE  /\ Request(command, 1) \in ClientFrame
           /\ command.name = "state" => Request(command, 1).type = "GET_STATE"
<1>1. 1 \in Seq8 /\ command.name \in {"hello", "caps", "state", "get", "set", "stress"}
      /\ (command.name \in {"get", "set"} => command.param \in Param)
      /\ (command.name = "set" => command.value \in Value \union RejectCode)
    BY CliAssumption
<1>2. CASE command.name \in {"hello", "stress"}
    BY <1>1, <1>2 DEF Request, Client, ClientFrame
<1>3. CASE command.name = "caps"
    BY <1>1, <1>3 DEF Request, Client, ClientFrame
<1>4. CASE command.name = "state"
    BY <1>1, <1>4 DEF Request, Client, ClientFrame
<1>5. CASE command.name = "get"
    BY <1>1, <1>5 DEF Request, Client, ClientFrame
<1>6. CASE command.name = "set"
    BY <1>1, <1>6 DEF Request, Client, ClientFrame
<1> QED BY <1>1, <1>2, <1>3, <1>4, <1>5, <1>6

LEMMA StartSteps ==
    ASSUME CliIInv, NEW command \in Command, Start(command)
    PROVE  CliIInv'
<1>1. /\ CliTypeOK /\ SessionTypeOK /\ up \in Seq(ClientFrame) /\ tx \in Seq(Unit)
      /\ fresh \in BOOLEAN /\ intact \in BOOLEAN
    BY DEF CliIInv, CliTypeOK, SessionTypeOK
<1> DEFINE request == Request(command, 1)
<1>2. request \in ClientFrame /\ (command.name = "state" => request.type = "GET_STATE")
    BY RequestTypes
<1>3. /\ cmd' = command /\ seq' = 1 /\ up' = Append(up, request)
      /\ line' = <<>> /\ buf' = <<>> /\ batch' = <<>> /\ out' = <<>>
      /\ fresh' = P4Quiet /\ intact' = (intact \/ P4Quiet)
      /\ pc' = IF command.name = "stress" THEN "stress" ELSE "read"
      /\ UNCHANGED <<sessionVars, report, history>>
    BY DEF Start
<1> HIDE DEF request
<1>4. up' \in Seq(ClientFrame) /\ Items(up') = Items(up) \union {request}
    <2>1. up' = up \o <<request>> /\ <<request>> \in Seq(ClientFrame)
        BY <1>1, <1>2, <1>3, AppendIsConcat
    <2>2. Items(<<request>>) = {request}
        BY DEF Items
    <2> DEFINE one == <<request>>
    <2>3. up \in Seq(ClientFrame) /\ one \in Seq(ClientFrame) /\ up' = up \o one
        BY <1>1, <2>1
    <2> HIDE DEF one
    <2>4. up \o one \in Seq(ClientFrame) /\ Items(up \o one) = Items(up) \union Items(one)
        BY <2>3, Joined, FramesInJoined
    <2> QED BY <2>2, <2>3, <2>4 DEF one
<1>5. CliTypeOK'
    <2>1. SessionTypeOK'
        BY <1>1, <1>3 DEF SessionTypeOK, sessionVars
    <2>2. seq' \in 0..(StressSends + 1)
        BY <1>3, CliAssumption
    <2>3. fresh' \in BOOLEAN /\ intact' \in BOOLEAN
        BY <1>1, <1>3 DEF P4Quiet
    <2>4. <<>> \in Seq(LineUnit) /\ <<>> \in Seq(ServerFrame)
        OBVIOUS
    <2> QED BY <1>3, <1>4, <2>1, <2>2, <2>3, <2>4 DEF CliTypeOK, Reading
<1>6. InPlay' = FramesIn(tx)
    BY <1>3 DEF InPlay, FramesIn, Items, sessionVars
<1>7. HistoryOK' /\ AllTold' /\ ReportTrue' /\ Chained(tx')
    BY <1>3, <1>6 DEF CliIInv, HistoryOK, AllTold, ReportTrue, InPlay, sessionVars
<1>8. OneSnapshot'
    <2> SUFFICES ASSUME P4Quiet, command.name = "state"
                 PROVE  /\ \A r \in Items(up') \union Items(parsed') : r.type = "GET_STATE"
                        /\ InPlay' = {}
        BY <1>3 DEF OneSnapshot
    <2>1. Items(up) = {} /\ Items(parsed') = {} /\ FramesIn(tx) = {}
        BY <1>3 DEF P4Quiet, Items, FramesIn, sessionVars
    <2> QED BY <1>2, <1>4, <1>6, <2>1
<1>9. SnapshotsApart'
    <2> SUFFICES ASSUME intact \/ P4Quiet PROVE Orderly(history, Received', Coming')
        BY <1>3 DEF SnapshotsApart
    <2>1. Received' = <<>>
        BY <1>3 DEF Received
    <2>2. Coming' = OnWire(tx)
        <3> DEFINE w == OnWire(tx)
        <3>1. w \in Seq(LineUnit) /\ tx' = tx
            BY <1>1, <1>3, OnWireUnits DEF sessionVars
        <3> HIDE DEF w
        <3>2. <<>> \o w = w
            BY <3>1, ConcatEmptySeq
        <3>3. <<>> \o (<<>> \o w) = w
            BY <3>2
        <3> QED BY <1>3, <3>1, <3>3 DEF Coming, w
    <2>3. CASE intact
        BY <2>1, <2>2, <2>3, RingOrderly
    <2>4. CASE P4Quiet
        <3>1. OnWire(tx) = <<>>
            BY <1>1, <2>4, OnWireUnits, EmptySeq DEF P4Quiet
        <3>2. FramesOf(<<>>) = <<>>
            BY DEF FramesOf
        <3>3. Orderly(history, <<>>, <<>>)
            <4>1. <<>> \o <<>> = <<>>
                BY ConcatEmptySeq
            <4> QED BY <3>2, <4>1 DEF Orderly, Chained, Undamaged, Apart, Closed
        <3> QED BY <2>1, <2>2, <3>1, <3>3
    <2> QED BY <2>3, <2>4
<1>10. EndsRequest' /\ OneIsPrinted'
    BY <1>3 DEF EndsRequest, OneIsPrinted
<1> QED BY <1>5, <1>7, <1>8, <1>9, <1>10 DEF CliIInv

LEMMA ReadSteps ==
    ASSUME CliIInv, NEW n \in 0..Len(line), Read(n)
    PROVE  CliIInv'
<1>1. /\ CliTypeOK /\ SessionTypeOK /\ line \in Seq(LineUnit) /\ buf \in Seq(LineUnit)
      /\ OnWire(tx) \in Seq(LineUnit) /\ out \in Seq(ServerFrame)
    BY InPlayTypes DEF CliIInv, CliTypeOK
<1> DEFINE a == SubSeq(line, 1, n)
           b == SubSeq(line, n + 1, Len(line))
           w == OnWire(tx)
<1>2. a \in Seq(LineUnit) /\ b \in Seq(LineUnit) /\ line = a \o b
    BY <1>1, SplitAt
<1>3. /\ buf' = buf \o a /\ line' = b /\ batch' = <<>> /\ pc = "read" /\ pc' = "feed"
      /\ UNCHANGED <<sessionVars, up, cmd, seq, out, ghostVars>>
    BY DEF Read
<1>4. w \in Seq(LineUnit)
    BY <1>1
<1> HIDE DEF a, b, w
<1>5. /\ buf' \in Seq(LineUnit) /\ line' \in Seq(LineUnit)
      /\ FramesIn(buf') = FramesIn(buf) \union FramesIn(a)
      /\ FramesIn(line) = FramesIn(a) \union FramesIn(line')
    BY <1>1, <1>2, <1>3, Joined, FramesInJoined
<1>6. CliTypeOK'
    <2>1. SessionTypeOK'
        BY <1>1, <1>3 DEF SessionTypeOK, sessionVars
    <2>2. <<>> \in Seq(ServerFrame)
        OBVIOUS
    <2> QED BY <1>1, <1>3, <1>5, <2>1, <2>2 DEF CliTypeOK, Reading, ghostVars
<1>7. HistoryOK' /\ AllTold' /\ OneSnapshot' /\ ReportTrue'
    <2>1. Items(<<>>) = {}
        BY DEF Items
    <2>2. InPlay' \subseteq InPlay
        BY <1>3, <1>5, <2>1 DEF InPlay, sessionVars
    <2>3. UNCHANGED <<values, revision, history, report, cmd, fresh, up, parsed>>
        BY <1>3 DEF sessionVars, ghostVars
    <2> QED BY <1>3, <2>2, <2>3, NothingNew, NothingReported DEF Busy
<1>8. Received' = Received /\ Coming' = Coming
    <2>1. Received' = out \o <<>> /\ Received = out
        BY <1>3 DEF Received
    <2>2. b \o w \in Seq(LineUnit)
        BY <1>2, <1>4, Joined
    <2> DEFINE bw == b \o w
    <2>3. (a \o b) \o w = a \o bw
        BY ONLY <1>2, <1>4, ConcatAssociative
    <2>4. (buf \o a) \o bw = buf \o (a \o bw)
        <3>1. buf \in Seq(LineUnit) /\ a \in Seq(LineUnit) /\ bw \in Seq(LineUnit)
            BY <1>1, <1>2, <2>2
        <3> HIDE DEF bw
        <3> QED BY ONLY <3>1, ConcatAssociative
    <2>5. Coming = buf \o ((a \o b) \o w)
        BY <1>2, <1>3 DEF Coming, Reading, w
    <2>6. Coming' = (buf \o a) \o bw
        BY <1>3 DEF Coming, Reading, w, sessionVars
    <2> QED BY <1>1, <2>1, <2>3, <2>4, <2>5, <2>6, ConcatEmptySeq
<1>9. Chained(tx') /\ SnapshotsApart' /\ EndsRequest' /\ OneIsPrinted'
    BY <1>3, <1>8 DEF CliIInv, SnapshotsApart, EndsRequest, OneIsPrinted, Reading,
        sessionVars, ghostVars
<1> QED BY <1>6, <1>7, <1>9 DEF CliIInv

(* The buffer from its first SOF on, before what is still to be read.       *)
LEMMA FrontOfBuffer ==
    ASSUME CliIInv, pc = "feed"
    PROVE  LET front == Synced(buf)
               rest  == line \o OnWire(tx) IN
           /\ front \in Seq(LineUnit) /\ rest \in Seq(LineUnit)
           /\ FramesIn(front) \subseteq FramesIn(buf)
           /\ front # <<>> => HasSof(front[1])
           /\ out \o batch \in Seq(ServerFrame)
           /\ intact => Orderly(history, out \o batch, front \o rest)
<1> DEFINE front == Synced(buf)
           rest == line \o OnWire(tx)
           got == out \o batch
<1>1. CliTypeOK /\ buf \in Seq(LineUnit) /\ line \in Seq(LineUnit)
    BY DEF CliIInv, CliTypeOK
<1>2. OnWire(tx) \in Seq(LineUnit) /\ Received \in Seq(ServerFrame)
      /\ Received = got /\ Coming = buf \o rest
    BY <1>1, InPlayTypes DEF Received, Coming, Reading
<1>3. rest \in Seq(LineUnit)
    BY <1>1, <1>2, Joined
<1>4. PICK skipped \in Seq(LineUnit) :
        /\ front \in Seq(LineUnit) /\ buf = skipped \o front
        /\ \A i \in 1..Len(skipped) : ~HasSof(buf[i])
        /\ front # <<>> => HasSof(front[1])
    BY <1>1, SyncedSkips
<1> HIDE DEF front, rest, got
<1>5. FramesIn(front) \subseteq FramesIn(buf)
    BY <1>4, FramesInJoined
<1>6. ASSUME intact PROVE Orderly(history, got, front \o rest)
    <2>1. Orderly(history, got, buf \o rest)
        BY <1>2, <1>6 DEF CliIInv, SnapshotsApart
    <2>2. buf \o rest = skipped \o (front \o rest)
        <3>1. (skipped \o front) \o rest = skipped \o (front \o rest)
            BY ONLY <1>3, <1>4, ConcatAssociative
        <3> QED BY <1>4, <3>1
    <2>3. got # <<>> => skipped = <<>>
        <3> SUFFICES ASSUME got # <<>>, skipped # <<>> PROVE FALSE
            OBVIOUS
        <3>1. 1 \in 1..Len(skipped) /\ Len(skipped) \in Nat
            BY LenProperties, EmptySeq
        <3>2. buf[1] = skipped[1] /\ 1 \in 1..Len(buf)
            BY <1>4, <3>1, Joined
        <3>3. (buf \o rest)[1] = buf[1] /\ 1 \in 1..Len(buf \o rest)
            BY <1>1, <1>3, <3>2, Joined
        <3>4. buf \o rest # <<>>
            BY <3>3, EmptySeq
        <3>5. (buf \o rest)[1].part = 1 /\ (buf \o rest)[1].damage = "none"
            BY <2>1, <3>3, <3>4 DEF Orderly, Undamaged
        <3>6. HasSof(buf[1])
            BY <3>3, <3>5 DEF HasSof
        <3> QED BY <1>4, <3>1, <3>6
    <2>4. front \o rest \in Seq(LineUnit)
        BY <1>3, <1>4, Joined
    <2>5. Orderly(history, got, skipped \o (front \o rest))
        BY <2>1, <2>2
    <2>6. got \in Seq(ServerFrame)
        BY <1>2
    <2> QED BY <2>3, <2>4, <2>5, <2>6, OrderlySkip
<1> QED BY <1>2, <1>3, <1>4, <1>5, <1>6 DEF front, rest, got

(* A frame that is there as a whole is its units, from the first on.        *)
LEMMA WholeInFront ==
    ASSUME NEW front \in Seq(LineUnit), front # <<>>, ~Incomplete(front), ~BadHeader(front)
    PROVE  /\ front[1] \in LineUnit /\ front[1].frame \in ServerFrame
           /\ front[1].frame \in FramesIn(front)
           /\ Total(front) \in 1..Len(front)
           /\ CrcMatches(front) => Total(front) = Size(front[1].frame.type)
<1>1. 1 \in 1..Len(front) /\ Len(front) \in Nat
    BY LenProperties, EmptySeq
<1>2. front[1] \in LineUnit
    BY <1>1, ElementOfSeq
<1>3. front[1].frame \in ServerFrame
    BY <1>2 DEF LineUnit
<1>4. Size(front[1].frame.type) \in Nat \ {0}
    BY <1>3, UnitsOfFrame
<1>5. Total(front) \in Nat \ {0} /\ ~(Len(front) < Total(front))
    BY <1>4 DEF Total, Incomplete
<1>6. Total(front) \in 1..Len(front) /\ 1 \in 1..Total(front)
    BY <1>1, <1>5
<1>7. ASSUME CrcMatches(front) PROVE Total(front) = Size(front[1].frame.type)
    <2>1. front[1] = HostUnit(front[1].frame, 1, "none")
        BY <1>6, <1>7 DEF CrcMatches
    <2>2. front[1].damage = "none"
        BY <2>1 DEF HostUnit
    <2> QED BY <1>4, <2>2 DEF Total
<1> QED BY <1>1, <1>2, <1>3, <1>6, <1>7 DEF FramesIn

LEMMA TryParseSteps ==
    ASSUME CliIInv, TryParse
    PROVE  CliIInv'
<1> DEFINE front == Synced(buf)
           rest == line \o OnWire(tx)
           k == Total(front)
           f == front[1].frame
           body == SubSeq(front, 1, k)
           left == SubSeq(front, k + 1, Len(front))
<1>1. /\ pc = "feed" /\ pc' = "feed"
      /\ ~BadHeader(front) /\ ~Incomplete(front) /\ CrcMatches(front)
      /\ batch' = Append(batch, f) /\ buf' = left
      /\ UNCHANGED <<sessionVars, up, line, cmd, seq, expired, out, ghostVars>>
    BY DEF TryParse, lineVars
<1>2. /\ front \in Seq(LineUnit) /\ rest \in Seq(LineUnit)
      /\ FramesIn(front) \subseteq FramesIn(buf)
      /\ intact => Orderly(history, out \o batch, front \o rest)
    BY <1>1, FrontOfBuffer
<1>3. CliTypeOK /\ SessionTypeOK /\ out \in Seq(ServerFrame) /\ batch \in Seq(ServerFrame)
      /\ (Reading <=> TRUE)
    BY <1>1 DEF CliIInv, CliTypeOK, Reading
<1> HIDE DEF front, rest
<1>4. front # <<>> /\ f \in ServerFrame /\ f \in FramesIn(front) /\ k \in 1..Len(front)
      /\ k = Size(f.type)
    <2>1. front # <<>>
        BY <1>1 DEF Incomplete
    <2> QED BY <1>1, <1>2, <2>1, WholeInFront
<1>5. \A i \in 1..k : front[i] = HostUnit(f, i, "none")
    BY <1>1 DEF CrcMatches
<1> HIDE DEF k, f
<1>6. /\ body \in Seq(LineUnit) /\ left \in Seq(LineUnit) /\ front = body \o left
      /\ Len(body) = k /\ \A i \in 1..k : body[i] = front[i]
    <2>1. k \in 0..Len(front)
        BY <1>4
    <2> QED BY <1>2, <2>1, SplitAt
<1> HIDE DEF body, left
<1>7. /\ buf' \in Seq(LineUnit) /\ FramesIn(buf') \subseteq FramesIn(buf)
      /\ batch' \in Seq(ServerFrame) /\ Items(batch') \subseteq Items(batch) \union FramesIn(buf)
      /\ (out \o batch) \o <<f>> = out \o batch' /\ out \o batch \in Seq(ServerFrame)
    <2> DEFINE one == <<f>>
    <2>1. /\ one \in Seq(ServerFrame) /\ batch' = batch \o one /\ Items(one) = {f}
        BY <1>1, <1>3, <1>4, AppendIsConcat DEF Items
    <2> HIDE DEF one
    <2>2. batch \o one \in Seq(ServerFrame) /\ Items(batch \o one) = Items(batch) \union Items(one)
        BY <1>3, <2>1, Joined, FramesInJoined
    <2>3. (out \o batch) \o one = out \o (batch \o one)
        BY <1>3, <2>1, ConcatAssociative
    <2>4. FramesIn(front) = FramesIn(body) \union FramesIn(left)
        BY <1>6, FramesInJoined
    <2>5. out \o batch \in Seq(ServerFrame)
        BY <1>3, Joined
    <2> QED BY <1>1, <1>2, <1>4, <1>6, <2>1, <2>2, <2>3, <2>4, <2>5 DEF one
<1>8. CliTypeOK'
    <2>1. SessionTypeOK'
        BY <1>1, <1>3 DEF SessionTypeOK, sessionVars
    <2> QED BY <1>1, <1>3, <1>7, <2>1 DEF CliTypeOK, Reading, ghostVars
<1>9. HistoryOK' /\ AllTold' /\ OneSnapshot' /\ ReportTrue'
    <2>1. InPlay' \subseteq InPlay
        BY <1>1, <1>7 DEF InPlay, sessionVars
    <2>2. UNCHANGED <<values, revision, history, report, cmd, fresh, up, parsed, pc>>
        BY <1>1 DEF sessionVars, ghostVars
    <2> QED BY <2>1, <2>2, NothingNew, NothingReported DEF Busy
<1>10. SnapshotsApart'
    <2> SUFFICES ASSUME intact
                 PROVE  Orderly(history, (out \o batch) \o <<f>>, left \o rest)
        BY <1>1, <1>7 DEF SnapshotsApart, Received, Coming, Reading, sessionVars, ghostVars,
            rest
    <2>1. front \o rest = body \o (left \o rest)
        <3>1. (body \o left) \o rest = body \o (left \o rest)
            BY ONLY SMTT(30), <1>2, <1>6, ConcatAssociative
        <3> QED BY <1>6, <3>1
    <2>2. \A i \in 1..Len(body) : body[i].frame = f /\ body[i].part = i
        <3>1. \A i \in 1..Len(body) : body[i] = HostUnit(f, i, "none")
            BY <1>5, <1>6
        <3>2. \A i : HostUnit(f, i, "none").frame = f /\ HostUnit(f, i, "none").part = i
            BY DEF HostUnit
        <3> QED BY <3>1, <3>2
    <2>3. body # <<>> /\ Complete(body[Len(body)])
        <3>1. k \in 1..k
            BY <1>4, LenProperties
        <3> QED BY <1>4, <1>6, <2>2, <3>1, EmptySeq DEF Complete
    <2>4. left \o rest \in Seq(LineUnit)
        BY <1>2, <1>6, Joined
    <2> DEFINE lr == left \o rest
               got == out \o batch
    <2>5. lr \in Seq(LineUnit) /\ got \in Seq(ServerFrame) /\ Orderly(history, got, body \o lr)
        BY <1>2, <1>7, <2>1, <2>4
    <2> HIDE DEF lr, got
    <2>6. Orderly(history, got \o <<f>>, lr)
        BY <1>4, <1>6, <2>2, <2>3, <2>5, OrderlyParse
    <2> QED BY <2>6 DEF lr, got
<1>11. Chained(tx') /\ EndsRequest' /\ OneIsPrinted'
    BY <1>1 DEF CliIInv, EndsRequest, OneIsPrinted, Reading, sessionVars, ghostVars
<1> QED BY <1>8, <1>9, <1>10, <1>11 DEF CliIInv

LEMMA TryParseNoneSteps ==
    ASSUME CliIInv, TryParseNone
    PROVE  CliIInv'
<1> DEFINE front == Synced(buf)
           rest == line \o OnWire(tx)
           got == out \o batch
<1>1. /\ pc = "feed" /\ pc' = "filter"
      /\ UNCHANGED <<sessionVars, up, line, cmd, seq, batch, expired, out, ghostVars>>
      /\ \/ Incomplete(front) /\ buf' = front
         \/ BadHeader(front) /\ buf' = Tail(front)
         \/ /\ ~BadHeader(front) /\ ~Incomplete(front) /\ ~CrcMatches(front)
            /\ buf' = SubSeq(front, Total(front) + 1, Len(front))
    BY DEF TryParseNone, lineVars
<1>2. /\ front \in Seq(LineUnit) /\ rest \in Seq(LineUnit)
      /\ FramesIn(front) \subseteq FramesIn(buf)
      /\ front # <<>> => HasSof(front[1])
      /\ got \in Seq(ServerFrame)
      /\ intact => Orderly(history, got, front \o rest)
    BY <1>1, FrontOfBuffer
<1>3. CliTypeOK /\ SessionTypeOK
    BY DEF CliIInv, CliTypeOK
<1> HIDE DEF front, rest, got
<1>4. ASSUME intact, front # <<>>
      PROVE  /\ front[1].part = 1 /\ front[1].damage = "none"
             /\ \A i \in 1..Len(front) : i <= Size(front[1].frame.type) =>
                    front[i] = HostUnit(front[1].frame, i, "none")
    <2> DEFINE all == front \o rest
    <2>1. /\ 1 \in 1..Len(front) /\ Len(front) \in Nat /\ Len(rest) \in Nat
        BY <1>2, <1>4, LenProperties, EmptySeq
    <2>2. /\ all \in Seq(LineUnit) /\ Len(all) = Len(front) + Len(rest)
          /\ \A i \in 1..Len(front) : all[i] = front[i]
        BY <1>2, Joined
    <2>3. Chained(all) /\ Undamaged(all)
        BY <1>2, <1>4 DEF Orderly
    <2> HIDE DEF all
    <2>4. all # <<>> /\ 1 \in 1..Len(all) /\ all[1] = front[1]
        BY <2>1, <2>2, EmptySeq
    <2>5. front[1].part = 1 /\ front[1].damage = "none"
        BY <1>2, <1>4, <2>3, <2>4 DEF HasSof, Undamaged
    <2>6. \A i \in 1..Len(all) : i <= Size(all[1].frame.type) =>
                all[i] = HostUnit(all[1].frame, i, "none")
        BY <2>2, <2>3, <2>4, <2>5, ChainBegins
    <2>7. \A i \in 1..Len(front) : i \in 1..Len(all)
        BY <2>1, <2>2
    <2> QED BY <2>2, <2>4, <2>5, <2>6, <2>7
<1>5. ASSUME intact PROVE buf' = front
    <2>1. ASSUME BadHeader(front) PROVE FALSE
        BY <1>4, <1>5, <2>1 DEF BadHeader
    <2>2. ASSUME ~BadHeader(front), ~Incomplete(front) PROVE CrcMatches(front)
        <3>1. front # <<>>
            BY <2>2 DEF Incomplete
        <3>2. Total(front) \in 1..Len(front) /\ front[1].frame \in ServerFrame
            BY <1>2, <2>2, <3>1, WholeInFront
        <3>3. Total(front) = Size(front[1].frame.type)
            <4>1. Size(front[1].frame.type) \in Nat \ {0}
                BY <3>2, UnitsOfFrame
            <4> QED BY <1>4, <1>5, <3>1, <4>1 DEF Total
        <3>4. \A i \in 1..Total(front) :
                i \in 1..Len(front) /\ i <= Size(front[1].frame.type)
            BY <3>2, <3>3
        <3> QED BY <1>4, <1>5, <3>1, <3>4 DEF CrcMatches
    <2> QED BY <1>1, <2>1, <2>2
<1>6. buf' \in Seq(LineUnit) /\ FramesIn(buf') \subseteq FramesIn(buf)
    <2>1. CASE buf' = front
        BY <1>2, <2>1
    <2>2. CASE BadHeader(front) /\ buf' = Tail(front)
        BY <1>2, <2>2, OneInFront DEF BadHeader
    <2>3. CASE ~BadHeader(front) /\ ~Incomplete(front)
               /\ buf' = SubSeq(front, Total(front) + 1, Len(front))
        <3>1. front # <<>>
            BY <2>3 DEF Incomplete
        <3>2. Total(front) \in 0..Len(front)
            BY <1>2, <2>3, <3>1, WholeInFront
        <3> DEFINE a == SubSeq(front, 1, Total(front))
                   b == SubSeq(front, Total(front) + 1, Len(front))
        <3>3. a \in Seq(LineUnit) /\ b \in Seq(LineUnit) /\ front = a \o b
            BY <1>2, <3>2, SplitAt
        <3> HIDE DEF a, b
        <3>4. FramesIn(front) = FramesIn(a) \union FramesIn(b)
            BY <3>3, FramesInJoined
        <3> QED BY <1>2, <2>3, <3>3, <3>4 DEF b
    <2> QED BY <1>1, <2>1, <2>2, <2>3
<1>7. CliTypeOK'
    <2>1. SessionTypeOK'
        BY <1>1, <1>3 DEF SessionTypeOK, sessionVars
    <2> QED BY <1>1, <1>3, <1>6, <2>1 DEF CliTypeOK, Reading, ghostVars
<1>8. HistoryOK' /\ AllTold' /\ OneSnapshot' /\ ReportTrue'
    <2>1. InPlay' \subseteq InPlay
        BY <1>1, <1>6 DEF InPlay, sessionVars
    <2>2. UNCHANGED <<values, revision, history, report, cmd, fresh, up, parsed>>
        BY <1>1 DEF sessionVars, ghostVars
    <2> QED BY <1>1, <2>1, <2>2, NothingNew, NothingReported DEF Busy
<1>9. SnapshotsApart'
    <2> SUFFICES ASSUME intact PROVE Orderly(history, got, front \o rest)
        BY <1>1, <1>5 DEF SnapshotsApart, Received, Coming, Reading, sessionVars, ghostVars,
            rest, got
    <2> QED BY <1>2
<1>10. Chained(tx') /\ EndsRequest' /\ OneIsPrinted'
    BY <1>1 DEF CliIInv, EndsRequest, OneIsPrinted, Reading, sessionVars, ghostVars
<1> QED BY <1>7, <1>8, <1>9, <1>10 DEF CliIInv

(* What request() keeps of a batch: its beginning, and only the last frame  *)
(* of it may end the request.                                               *)
LEMMA UpToEndIs ==
    ASSUME NEW frames \in Seq(ServerFrame)
    PROVE  \E kept, rest \in Seq(ServerFrame) :
              /\ UpToEnd(frames) = kept /\ frames = kept \o rest
              /\ \A i \in 1..Len(kept) : i < Len(kept) => ~Ends(kept[i])
              /\ (\E i \in 1..Len(frames) : Ends(frames[i])) =>
                    kept # <<>> /\ Ends(kept[Len(kept)])
              /\ (~\E i \in 1..Len(frames) : Ends(frames[i])) =>
                    kept = frames /\ \A i \in 1..Len(kept) : ~Ends(kept[i])
<1> DEFINE ends == {i \in 1..Len(frames) : Ends(frames[i])}
           n == Min(ends)
           N == Len(frames)
<1>1. N \in Nat
    BY LenProperties
<1>2. CASE ends = {}
    <2>1. UpToEnd(frames) = frames
        BY <1>2 DEF UpToEnd
    <2>2. \A i \in 1..N : ~Ends(frames[i])
        BY <1>2
    <2>3. <<>> \in Seq(ServerFrame) /\ frames = frames \o <<>>
        BY ConcatEmptySeq
    <2> QED BY <2>1, <2>2, <2>3
<1>3. CASE ends # {}
    <2>1. n \in ends /\ \A j \in ends : n <= j
        <3> HIDE DEF N
        <3>1. ends \subseteq 1..N
            BY DEF N
        <3> HIDE DEF ends
        <3> QED BY <1>1, <1>3, <3>1, MinIsLeast
    <2>2. UpToEnd(frames) = SubSeq(frames, 1, n)
        BY <1>3 DEF UpToEnd
    <2>3. n \in 1..N /\ Ends(frames[n]) /\ n \in 0..N
        BY <1>1, <2>1
    <2>4. \A i \in 1..N : i < n => ~Ends(frames[i])
        <3> SUFFICES ASSUME NEW i \in 1..N, i < n, Ends(frames[i]) PROVE FALSE
            OBVIOUS
        <3>1. i \in ends
            OBVIOUS
        <3> HIDE DEF ends
        <3> QED BY <2>1, <2>3, <3>1
    <2> HIDE DEF n, ends
    <2> DEFINE kept == SubSeq(frames, 1, n)
               rest == SubSeq(frames, n + 1, Len(frames))
    <2>5. /\ kept \in Seq(ServerFrame) /\ rest \in Seq(ServerFrame) /\ frames = kept \o rest
          /\ Len(kept) = n /\ \A i \in 1..n : kept[i] = frames[i]
        BY <2>3, SplitAt
    <2> HIDE DEF kept, rest
    <2>6. \A i \in 1..Len(kept) : i < Len(kept) => ~Ends(kept[i])
        BY <1>1, <2>3, <2>4, <2>5
    <2>7. \E i \in 1..Len(frames) : Ends(frames[i])
        BY <2>3
    <2>8. kept # <<>> /\ Ends(kept[Len(kept)])
        <3>1. n \in 1..n /\ Len(kept) # 0
            BY <1>1, <2>3, <2>5
        <3> QED BY <2>3, <2>5, <3>1, EmptySeq
    <2> QED BY <2>2, <2>5, <2>6, <2>7, <2>8 DEF kept
<1> QED BY <1>2, <1>3

(* Of the frames that request() returns no two are of different snapshots   *)
(* that disagree: the first one to end ends the request.                    *)
LEMMA OneIsReturned ==
    ASSUME NEW past, NEW a \in Seq(ServerFrame), NEW b \in Seq(ServerFrame),
           Apart(past, a \o b),
           \A i \in 1..Len(a) : i < Len(a) => a[i].type # "STATE_END"
    PROVE  \A i, j \in 1..Len(a) : ~Mismatch(past, a[i], a[j])
<1> DEFINE all == a \o b
           m == Len(a)
<1>1. /\ m \in Nat /\ Len(b) \in Nat /\ Len(all) = m + Len(b)
      /\ \A i \in 1..m : all[i] = a[i]
    BY Joined
<1>2. Apart(past, all)
    OBVIOUS
<1> HIDE DEF all, m
<1>3. ASSUME NEW i \in 1..m, NEW j \in 1..m, i < j PROVE ~AtOdds(past, a[i], a[j])
    <2> SUFFICES ASSUME AtOdds(past, a[i], a[j]) PROVE FALSE
        OBVIOUS
    <2>1. i \in 1..Len(all) /\ j \in 1..Len(all) /\ all[i] = a[i] /\ all[j] = a[j]
        BY <1>1
    <2>2. EndIn(all, i, j)
        BY <1>2, <1>3, <2>1 DEF Apart
    <2>3. PICK k \in i..j : all[k].type = "STATE_END"
        BY <2>2 DEF EndIn
    <2>4. k \in 1..m /\ (k < m \/ k = j)
        BY <1>1, <1>3, <2>3
    <2>5. a[k].type = "STATE_END"
        BY <1>1, <2>3, <2>4
    <2>6. a[j].type \in {"STATE_BEGIN", "STATE_PARAM"}
        BY DEF AtOdds, Mismatch
    <2> QED BY <2>4, <2>5, <2>6 DEF m
<1>4. ASSUME NEW i \in 1..m, NEW j \in 1..m, Mismatch(past, a[i], a[j]) PROVE FALSE
    <2>1. i # j
        BY <1>4 DEF Mismatch
    <2>2. CASE i < j
        BY <1>3, <1>4, <2>2 DEF AtOdds
    <2>3. CASE j < i
        BY <1>3, <1>4, <2>3 DEF AtOdds
    <2> QED BY <1>1, <2>1, <2>2, <2>3
<1> QED BY <1>4 DEF m

LEMMA FilterSteps ==
    ASSUME CliIInv, Filter
    PROVE  CliIInv'
<1> DEFINE got == out \o batch
           ended == \E i \in 1..Len(batch) : Ends(batch[i])
<1>1. /\ pc = "filter" /\ out' = out \o UpToEnd(batch)
      /\ pc' = IF ended \/ expired THEN "print" ELSE "read"
      /\ UNCHANGED <<sessionVars, up, line, cmd, seq, buf, batch, expired, ghostVars>>
    BY DEF Filter, lineVars
<1>2. /\ CliTypeOK /\ SessionTypeOK /\ out \in Seq(ServerFrame) /\ batch \in Seq(ServerFrame)
      /\ Coming \in Seq(LineUnit)
    BY InPlayTypes DEF CliIInv, CliTypeOK
<1>3. PICK kept \in Seq(ServerFrame), rest \in Seq(ServerFrame) :
        /\ UpToEnd(batch) = kept /\ batch = kept \o rest
        /\ \A i \in 1..Len(kept) : i < Len(kept) => ~Ends(kept[i])
        /\ ~ended => kept = batch /\ \A i \in 1..Len(kept) : ~Ends(kept[i])
    BY <1>2, UpToEndIs
<1> HIDE DEF ended
<1>4. /\ out' = out \o kept /\ out' \in Seq(ServerFrame)
      /\ Items(out') = Items(out) \union Items(kept)
      /\ Len(out) \in Nat /\ Len(kept) \in Nat /\ Len(out') = Len(out) + Len(kept)
      /\ \A i \in 1..Len(out) : out'[i] = out[i]
      /\ \A i \in 1..Len(kept) : out'[Len(out) + i] = kept[i]
    BY <1>1, <1>2, <1>3, Joined, FramesInJoined
<1>5. Items(batch) = Items(kept) \union Items(rest)
    BY <1>3, FramesInJoined
<1>6. CliTypeOK'
    <2>1. SessionTypeOK'
        BY <1>1, <1>2 DEF SessionTypeOK, sessionVars
    <2> QED BY <1>1, <1>2, <1>4, <2>1 DEF CliTypeOK, Reading, ghostVars
<1>7. HistoryOK' /\ AllTold' /\ OneSnapshot' /\ ReportTrue' /\ Chained(tx')
    <2>1. InPlay' \subseteq InPlay
        BY <1>1, <1>4, <1>5 DEF InPlay, sessionVars
    <2>2. UNCHANGED <<values, revision, history, report, cmd, fresh, up, parsed, tx>>
        BY <1>1 DEF sessionVars, ghostVars
    <2> QED BY <1>1, <2>1, <2>2, NothingNew, NothingReported DEF Busy, CliIInv
<1>8. \A i \in 1..Len(out') : i < Len(out') \/ ~ended => out'[i].type # "STATE_END"
    <2> SUFFICES ASSUME NEW i \in 1..(Len(out) + Len(kept)),
                        i < Len(out) + Len(kept) \/ ~ended
                 PROVE  out'[i].type # "STATE_END"
        BY <1>4
    <2>1. CASE i \in 1..Len(out)
        <3>1. out[i].type # "STATE_END"
            BY <1>1, <2>1 DEF CliIInv, EndsRequest, Reading
        <3> QED BY <1>4, <2>1, <3>1
    <2>2. CASE i > Len(out)
        <3>1. i - Len(out) \in 1..Len(kept) /\ i = Len(out) + (i - Len(out))
              /\ (i < Len(out) + Len(kept) => i - Len(out) < Len(kept))
            BY <1>4, <2>2
        <3>2. ~Ends(kept[i - Len(out)])
            BY <1>3, <3>1
        <3>3. out'[i] = kept[i - Len(out)]
            BY <1>4, <3>1
        <3> QED BY <3>2, <3>3 DEF Ends
    <2> QED BY <1>4, <2>1, <2>2
<1>9. EndsRequest'
    <2> SUFFICES ASSUME ~ended PROVE \A i \in 1..Len(out') : out'[i].type # "STATE_END"
        BY <1>1 DEF EndsRequest, Reading
    <2> QED BY <1>8
<1>10. OneIsPrinted'
    <2> SUFFICES ASSUME intact
                 PROVE  \A i, j \in 1..Len(out') : ~Mismatch(history, out'[i], out'[j])
        BY <1>1 DEF OneIsPrinted, ghostVars
    <2> DEFINE c == FramesOf(Coming)
    <2>1. Apart(history, (out \o batch) \o c) /\ c \in Seq(ServerFrame)
        BY <1>1, <1>2, FramesOfUnits DEF CliIInv, SnapshotsApart, Orderly, Received
    <2> HIDE DEF c
    <2>2. rest \o c \in Seq(ServerFrame) /\ (out \o batch) \o c = out' \o (rest \o c)
        <3>1. out \o batch = out' \o rest
            <4>1. (out \o kept) \o rest = out \o (kept \o rest)
                BY ONLY SMTT(30), <1>2, <1>3, ConcatAssociative
            <4> QED BY <1>3, <1>4, <4>1
        <3>2. rest \o c \in Seq(ServerFrame)
            BY <1>3, <2>1, Joined
        <3> DEFINE o == out'
        <3>3. o \in Seq(ServerFrame)
            BY <1>4
        <3> HIDE DEF o
        <3>4. (o \o rest) \o c = o \o (rest \o c)
            BY SMTT(30), <1>3, <2>1, <3>3, ConcatAssociative
        <3> QED BY <3>1, <3>2, <3>4 DEF o
    <2>3. Apart(history, out' \o (rest \o c))
        BY <2>1, <2>2
    <2>4. \A i \in 1..Len(out') : i < Len(out') => out'[i].type # "STATE_END"
        BY <1>8
    <2> QED BY <1>4, <2>2, <2>3, <2>4, OneIsReturned
<1>11. SnapshotsApart'
    <2> SUFFICES ASSUME intact PROVE Orderly(history, Received', Coming')
        BY <1>1 DEF SnapshotsApart, ghostVars
    <2>1. CASE ended \/ expired
        <3>1. Received' = <<>> /\ Coming' = OnWire(tx)
            BY <1>1, <2>1 DEF Received, Coming, Reading, sessionVars
        <3> QED BY <3>1, RingOrderly
    <2>2. CASE ~(ended \/ expired)
        <3>1. Received' = Received /\ Coming' = Coming
            BY <1>1, <1>3, <2>2 DEF Received, Coming, Reading, sessionVars
        <3> QED BY <3>1 DEF CliIInv, SnapshotsApart
    <2> QED BY <2>1, <2>2
<1> QED BY <1>6, <1>7, <1>9, <1>10, <1>11 DEF CliIInv

(* A command prints a value of the revision it prints.                      *)
TrueAnswer(answer) ==
    answer.revision # NoValue =>
        /\ answer.revision + 1 \in 1..Len(history)
        /\ \A p \in answer.printed : p.param \in Param =>
              p.value = history[answer.revision + 1][p.param]

LEMMA FirstAnswerTrue ==
    ASSUME CliIInv, NEW type
    PROVE  TrueAnswer(FirstAnswer(type))
<1> DEFINE answers == Places({type, "NACK", "ERROR"})
           first == out[Min(answers)]
<1>1. CASE answers = {} \/ first.type # type
    <2>1. FirstAnswer(type) = [exit |-> 1, printed |-> {}, revision |-> NoValue]
        BY <1>1 DEF FirstAnswer
    <2> QED BY <2>1 DEF TrueAnswer
<1>2. CASE answers # {} /\ first.type = type
    <2>1. out \in Seq(ServerFrame) /\ Len(out) \in Nat /\ answers \subseteq 1..Len(out)
        BY LenProperties DEF CliIInv, CliTypeOK, Places
    <2>2. FirstAnswer(type) =
            [exit |-> 0, printed |-> {Printed(first)}, revision |-> first.revision]
        BY <1>2 DEF FirstAnswer
    <2> HIDE DEF answers
    <2>3. Min(answers) \in 1..Len(out)
        BY <1>2, <2>1, MinIsLeast
    <2>4. ToldBy(history, first)
        BY <2>3 DEF CliIInv, AllTold, InPlay, Items
    <2> HIDE DEF first
    <2> QED BY <2>2, <2>4 DEF TrueAnswer, ToldBy, Printed
<1> QED BY <1>1, <1>2

(* The snapshot that state prints is one snapshot: of a P4 that had nothing *)
(* else to do, or kept apart from the others.                               *)
LEMMA StateAnswerTrue ==
    ASSUME CliIInv, pc = "print", cmd.name = "state", fresh \/ intact
    PROVE  TrueAnswer(StateAnswer)
<1> DEFINE begins == Places({"STATE_BEGIN"})
           begin == out[Max(begins)]
           params == Places({"STATE_PARAM"})
<1>1. CASE begins = {}
    <2>1. StateAnswer.revision = NoValue
        BY <1>1 DEF StateAnswer
    <2> QED BY <2>1 DEF TrueAnswer
<1>2. CASE begins # {}
    <2>1. /\ out \in Seq(ServerFrame) /\ Len(out) \in Nat /\ begins \subseteq 1..Len(out)
          /\ params \subseteq 1..Len(out)
          /\ \A i \in begins : out[i].type = "STATE_BEGIN"
          /\ \A i \in params : out[i].type = "STATE_PARAM"
        BY LenProperties DEF CliIInv, CliTypeOK, Places
    <2>2. /\ StateAnswer.printed = {Printed(out[i]) : i \in params}
          /\ StateAnswer.revision = begin.revision
        BY <1>2 DEF StateAnswer
    <2> HIDE DEF begins, params
    <2>3. Max(begins) \in begins
        BY <1>2, <2>1, MaxIsGreatest
    <2>4. begin.type = "STATE_BEGIN" /\ begin \in InPlay /\ ToldBy(history, begin)
        BY <2>1, <2>3 DEF CliIInv, AllTold, InPlay, Items
    <2> SUFFICES ASSUME begin.revision # NoValue
                 PROVE  /\ begin.revision + 1 \in 1..Len(history)
                        /\ \A i \in params : out[i].param \in Param =>
                              out[i].value = history[begin.revision + 1][out[i].param]
        BY <2>2 DEF TrueAnswer, Printed
    <2>5. begin.revision + 1 \in 1..Len(history)
        BY <2>4 DEF ToldBy
    <2>6. ASSUME NEW i \in params, out[i].param \in Param
          PROVE  out[i].value = history[begin.revision + 1][out[i].param]
        <3>1. i \in 1..Len(out) /\ out[i].type = "STATE_PARAM" /\ out[i] \in InPlay
            BY <2>1 DEF InPlay, Items
        <3>2. CASE intact
            <4>1. ~Mismatch(history, begin, out[i])
                BY <2>1, <2>3, <3>1, <3>2 DEF CliIInv, OneIsPrinted
            <4> HIDE DEF begin
            <4> QED BY <2>4, <2>6, <3>1, <4>1 DEF Mismatch
        <3>3. CASE fresh
            <4>1. begin.revision \in {NoValue, revision} /\ out[i].value = values[out[i].param]
                BY <2>4, <2>6, <3>1, <3>3 DEF CliIInv, OneSnapshot
            <4>2. begin.revision = revision
                BY <4>1
            <4>3. history[revision + 1] = values
                BY DEF CliIInv, HistoryOK
            <4> QED BY <4>1, <4>2, <4>3
        <3> QED BY <3>2, <3>3
    <2> QED BY <2>5, <2>6
<1> QED BY <1>1, <1>2

LEMMA PrintAnswerSteps ==
    ASSUME CliIInv, PrintAnswer
    PROVE  CliIInv'
<1>1. /\ pc = "print" /\ pc' = "idle"
      /\ UNCHANGED <<sessionVars, up, line, seq, readVars, history, fresh, intact>>
      /\ report'.cmd = cmd /\ report'.printed = Answer.printed
      /\ report'.revision = Answer.revision /\ report'.apart = (fresh \/ intact)
    BY DEF PrintAnswer, Finish
<1>2. cmd.name \in {"hello", "get", "set", "caps", "state"}
    <2>1. cmd \in Command /\ cmd.name # "stress"
        BY <1>1 DEF CliIInv, CliTypeOK
    <2> QED BY <2>1, CliAssumption
<1>3. (cmd.name = "state" => fresh \/ intact) => TrueAnswer(Answer)
    <2>1. CASE cmd.name = "hello"
        BY <2>1, FirstAnswerTrue DEF Answer
    <2>2. CASE cmd.name = "get"
        BY <2>2, FirstAnswerTrue DEF Answer
    <2>3. CASE cmd.name = "set"
        BY <2>3, FirstAnswerTrue DEF Answer
    <2>4. CASE cmd.name = "caps"
        <3>1. CapsAnswer.revision = NoValue
            BY DEF CapsAnswer
        <3> QED BY <2>4, <3>1 DEF Answer, TrueAnswer
    <2>5. CASE cmd.name = "state"
        BY <1>1, <2>5, StateAnswerTrue DEF Answer
    <2> QED BY <1>2, <2>1, <2>2, <2>3, <2>4, <2>5
<1>4. ReportTrue'
    <2> SUFFICES ASSUME report'.revision # NoValue,
                        report'.cmd.name = "state" => report'.apart
                 PROVE  /\ report'.revision + 1 \in 1..Len(history')
                        /\ \A p \in report'.printed : p.param \in Param =>
                              p.value = history'[report'.revision + 1][p.param]
        BY DEF ReportTrue
    <2>1. TrueAnswer(Answer) /\ history' = history
        BY <1>1, <1>3
    <2> QED BY <1>1, <2>1 DEF TrueAnswer
<1> QED BY <1>1, <1>4, BackToIdle

LEMMA StressSteps ==
    ASSUME CliIInv, StressSend \/ StressEnd
    PROVE  CliIInv'
<1>1. CASE StressEnd
    <2>1. /\ pc' = "idle"
          /\ UNCHANGED <<sessionVars, up, line, seq, readVars, history, fresh, intact>>
          /\ report'.revision = NoValue
        BY <1>1 DEF StressEnd, Finish
    <2> QED BY <2>1, BackToIdle DEF ReportTrue
<1>2. CASE StressSend
    <2>1. /\ CliTypeOK /\ SessionTypeOK /\ up \in Seq(ClientFrame)
          /\ seq \in 0..(StressSends + 1) /\ StressSends \in Nat
        BY CliAssumption DEF CliIInv, CliTypeOK
    <2>2. PICK v \in Value : up' = Append(up, Client("SET_PARAM", seq + 1, Head(Registry), v))
        BY <1>2 DEF StressSend
    <2>3. /\ pc = "stress" /\ seq <= StressSends /\ seq' = seq + 1
          /\ UNCHANGED <<sessionVars, line, pc, cmd, readVars, ghostVars>>
        BY <1>2 DEF StressSend
    <2>4. seq + 1 \in 0..(StressSends + 1)
        BY <2>1, <2>3
    <2>5. Client("SET_PARAM", seq + 1, Head(Registry), v) \in ClientFrame
        <3>1. seq + 1 \in Seq8
            BY <2>4, CliAssumption
        <3>2. Head(Registry) \in Param
            BY CliAssumption, SessionAssumption
        <3> QED BY <3>1, <3>2 DEF ClientFrame
    <2>6. up' \in Seq(ClientFrame)
        BY <2>1, <2>2, <2>5, AppendProperties
    <2>7. CliTypeOK'
        <3>1. SessionTypeOK'
            BY <2>1, <2>3 DEF SessionTypeOK, sessionVars
        <3> QED BY <2>1, <2>3, <2>4, <2>6, <3>1 DEF CliTypeOK, Reading, readVars, ghostVars
    <2>8. HistoryOK' /\ AllTold' /\ Chained(tx') /\ ReportTrue' /\ OneSnapshot'
        <3>1. InPlay' = InPlay
            BY <2>3 DEF InPlay, readVars, sessionVars
        <3> QED BY <2>3, <3>1 DEF CliIInv, HistoryOK, AllTold, ReportTrue, OneSnapshot,
                Reading, sessionVars, ghostVars
    <2>9. SnapshotsApart' /\ EndsRequest' /\ OneIsPrinted'
        <3>1. Received' = Received /\ Coming' = Coming
            BY <2>3 DEF Received, Coming, Reading, readVars, sessionVars
        <3> QED BY <2>3, <3>1 DEF CliIInv, SnapshotsApart, EndsRequest, OneIsPrinted,
                Reading, readVars, ghostVars
    <2> QED BY <2>7, <2>8, <2>9 DEF CliIInv
<1> QED BY <1>1, <1>2

LEMMA CliInitHolds ==
    ASSUME CliInit
    PROVE  CliIInv
<1> USE DEF CliInit, InitSession
<1>1. SessionTypeOK
    <2>1. <<>> \in Seq(ClientFrame) /\ <<>> \in Seq(Unit) /\ Default \in [Param -> Value]
        BY SessionAssumption
    <2> QED BY <2>1 DEF SessionTypeOK
<1>2. CliTypeOK
    <2>1. /\ <<>> \in Seq(ClientFrame) /\ <<>> \in Seq(LineUnit) /\ <<>> \in Seq(ServerFrame)
          /\ 0 \in 0..(StressSends + 1)
        BY CliAssumption
    <2> QED BY <1>1, <2>1 DEF CliTypeOK, Reading
<1>3. HistoryOK
    <2>1. Default \in [Param -> Value]
        BY SessionAssumption
    <2> QED BY <2>1 DEF HistoryOK
<1>4. InPlay = {}
    BY DEF InPlay, FramesIn, Items
<1>5. Chained(tx) /\ AllTold /\ OneSnapshot /\ EndsRequest /\ OneIsPrinted
    BY <1>4 DEF Chained, AllTold, OneSnapshot, EndsRequest, OneIsPrinted, Reading
<1>6. SnapshotsApart
    <2>1. Received = <<>> /\ Coming = <<>>
        BY DEF Received, Coming, Reading, OnWire
    <2>2. FramesOf(<<>>) = <<>> /\ <<>> \o <<>> = <<>>
        BY ConcatEmptySeq DEF FramesOf
    <2> QED BY <2>1, <2>2 DEF SnapshotsApart, Orderly, Chained, Undamaged, Apart, Closed
<1>7. ReportTrue
    BY DEF ReportTrue, Silence
<1> QED BY <1>2, <1>3, <1>5, <1>6, <1>7 DEF CliIInv

-----------------------------------------------------------------------------
(* Theorems *)

LEMMA CliNextKeeps ==
    ASSUME CliIInv, [CliNext]_cliVars
    PROVE  CliIInv'
<1>1. CASE P4Read \/ LoseRequest
    BY <1>1, RequestSteps
<1>2. CASE P4Handle
    BY <1>2, P4HandleSteps
<1>3. CASE Transmit
    BY <1>3, TransmitSteps
<1>4. CASE TransmitFaulty
    BY <1>4, TransmitFaultySteps
<1>5. CASE P4Tick
    BY <1>5, P4TickSteps
<1>6. CASE Kill
    BY <1>6, KillSteps
<1>7. CASE \E command \in Command : Start(command)
    BY <1>7, StartSteps
<1>8. CASE ReadFull \/ ReadTimeout
    <2>1. Len(line) \in Nat /\ Chunk \in Nat
        BY CliAssumption, LenProperties DEF CliIInv, CliTypeOK
    <2>2. CASE ReadFull
        <3>1. Chunk \in 0..Len(line) /\ Read(Chunk)
            BY <2>1, <2>2 DEF ReadFull
        <3> QED BY <3>1, ReadSteps
    <2>3. CASE ReadTimeout
        <3>1. Len(line) \in 0..Len(line) /\ Read(Len(line))
            BY <2>1, <2>3 DEF ReadTimeout
        <3> QED BY <3>1, ReadSteps
    <2> QED BY <1>8, <2>2, <2>3
<1>9. CASE TryParse
    BY <1>9, TryParseSteps
<1>10. CASE TryParseNone
    BY <1>10, TryParseNoneSteps
<1>11. CASE Filter
    BY <1>11, FilterSteps
<1>12. CASE PrintAnswer
    BY <1>12, PrintAnswerSteps
<1>13. CASE StressSend \/ StressEnd
    BY <1>13, StressSteps
<1>14. CASE UNCHANGED cliVars
    <2>1. UNCHANGED <<parsed, inflight, connection, values, revision, submitted, tx, stale,
                      rxAge, heartbeatAge, haveTick, up, line, pc, cmd, seq, buf, batch,
                      out, report, history, fresh, intact>>
        BY <1>14 DEF cliVars, sessionVars, lineVars, readVars, ghostVars
    <2>2. CliTypeOK' /\ HistoryOK' /\ Chained(tx')
        BY <2>1 DEF CliIInv, CliTypeOK, SessionTypeOK, HistoryOK, Reading
    <2>3. InPlay' = InPlay /\ Received' = Received /\ Coming' = Coming
        BY <2>1 DEF InPlay, Received, Coming, Reading
    <2>4. AllTold' /\ OneSnapshot' /\ ReportTrue'
        BY <2>1, <2>3 DEF CliIInv, AllTold, OneSnapshot, ReportTrue, Reading
    <2>5. SnapshotsApart' /\ EndsRequest' /\ OneIsPrinted'
        BY <2>1, <2>3 DEF CliIInv, SnapshotsApart, EndsRequest, OneIsPrinted, Reading
    <2> QED BY <2>2, <2>4, <2>5 DEF CliIInv
<1> QED BY <1>1, <1>2, <1>3, <1>4, <1>5, <1>6, <1>7, <1>8, <1>9, <1>10, <1>11, <1>12,
           <1>13, <1>14 DEF CliNext, P4Step, ClientStep, Environment

(* Whatever is damaged, lost or left over from a command before: every     *)
(* frame that the client may still be given tells the P4's value at its    *)
(* revision, and as long as nothing is missing, two snapshots are kept     *)
(* apart by the end of the first one.                                      *)
THEOREM CliInductive == CliSpec => []CliIInv
<1>1. CliInit => CliIInv
    BY CliInitHolds
<1>2. CliIInv /\ [CliNext]_cliVars => CliIInv'
    BY CliNextKeeps
<1> QED BY <1>1, <1>2, PTL DEF CliSpec

(* What the client prints under a revision is the P4's value at it.        *)
THEOREM PrintsTrue == CliSpec => []PrintedIsTrue
<1>1. CliIInv => PrintedIsTrue
    BY DEF CliIInv, ReportTrue, PrintedIsTrue, At
<1> QED BY <1>1, CliInductive, PTL

-----------------------------------------------------------------------------
(* What a caps, state or get asked of a quiet P4 is given: its whole        *)
(* answer, heartbeats, and nothing else.                                    *)

Item == {"CAPS_PARAM", "STATE_PARAM", "PARAM_VALUE"}
Closing == {"CAPS_END", "STATE_END"}

\* No parameter after the frame that ends the answer.
Before(a, b) == (\E f \in a : f.type \in Closing) => \A g \in b : g.type \notin Item
ItemsFirst(frames) ==
    \A i, j \in 1..Len(frames) :
        i < j /\ frames[i].type \in Closing => frames[j].type \notin Item

Query == clean /\ cmd.name \in {"caps", "state", "get"}
AskedBy(command) == IF command.name = "get" THEN {command.param} ELSE Param
AnswerTo(command) ==
    IF command.name = "caps" THEN {"CAPS_BEGIN", "CAPS_PARAM", "CAPS_END"}
    ELSE IF command.name = "state" THEN {"STATE_BEGIN", "STATE_PARAM", "STATE_END"}
    ELSE {"PARAM_VALUE"}

OnlyBeats(frames) == \A f \in frames : f.type = "HEARTBEAT"
Expected(command, frames) ==
    \A f \in frames :
        \/ f.type = "HEARTBEAT"
        \/ f.type \in AnswerTo(command) /\ (f.type \in Item => f.param \in AskedBy(command))
HasAll(command, frames) ==
    \A p \in AskedBy(command) : \E f \in frames : f.type \in Item /\ f.param = p

Given == Items(Received) \union FramesIn(Coming)

Waiting ==
    /\ \/ up = <<Request(cmd, 1)>> /\ parsed = <<>>
       \/ up = <<>> /\ parsed = <<Request(cmd, 1)>> /\ inflight = {}
    /\ ~expired
    /\ OnlyBeats(Given)
    /\ Len(tx) <= beats * Size("HEARTBEAT")

Answered ==
    /\ up = <<>> /\ parsed = <<>>
    /\ HasAll(cmd, Given)
    /\ ItemsFirst(Received \o FramesOf(Coming))
    /\ expired =>
        /\ pc = "feed" => Whole(buf)
        /\ pc = "filter" => buf = <<>>
        /\ OnlyBeats(FramesIn(line) \union FramesIn(tx))

QueryOK ==
    Reading /\ Query =>
        /\ Whole(Coming) /\ Undamaged(Coming) /\ Expected(cmd, Given)
        /\ Waiting \/ Answered

PrintOK == pc = "print" /\ Query => Expected(cmd, Items(out)) /\ HasAll(cmd, Items(out))

WholeIInv ==
    /\ QueryOK /\ PrintOK /\ CleanAnswersWhole
    /\ beats \in 0..MaxBeats /\ (pc = "stress" => cmd.name = "stress")

-----------------------------------------------------------------------------
LEMMA ItemsFirstJoined ==
    ASSUME NEW S, NEW a \in Seq(S), NEW b \in Seq(S)
    PROVE  ItemsFirst(a \o b) <=>
              ItemsFirst(a) /\ ItemsFirst(b) /\ Before(Items(a), Items(b))
<1> DEFINE all == a \o b
           m == Len(a)
           n == Len(b)
<1>1. /\ m \in Nat /\ n \in Nat /\ Len(all) = m + n
      /\ \A i \in 1..m : all[i] = a[i]
      /\ \A i \in 1..n : all[m + i] = b[i]
    BY Joined
<1> HIDE DEF all, m, n
<1>2. ASSUME ItemsFirst(all)
      PROVE  ItemsFirst(a) /\ ItemsFirst(b) /\ Before(Items(a), Items(b))
    <2>1. ItemsFirst(a)
        <3> SUFFICES ASSUME NEW i \in 1..m, NEW j \in 1..m, i < j, a[i].type \in Closing
                     PROVE  a[j].type \notin Item
            BY DEF ItemsFirst, m
        <3>1. i \in 1..(m + n) /\ j \in 1..(m + n)
            BY <1>1
        <3> QED BY <1>1, <1>2, <3>1 DEF ItemsFirst
    <2>2. ItemsFirst(b)
        <3> SUFFICES ASSUME NEW i \in 1..n, NEW j \in 1..n, i < j, b[i].type \in Closing
                     PROVE  b[j].type \notin Item
            BY DEF ItemsFirst, n
        <3>1. m + i \in 1..(m + n) /\ m + j \in 1..(m + n) /\ m + i < m + j
            BY <1>1
        <3> QED BY <1>1, <1>2, <3>1 DEF ItemsFirst
    <2>3. Before(Items(a), Items(b))
        <3> SUFFICES ASSUME NEW i \in 1..m, NEW j \in 1..n, a[i].type \in Closing
                     PROVE  b[j].type \notin Item
            BY DEF Before, Items, m, n
        <3>1. i \in 1..(m + n) /\ m + j \in 1..(m + n) /\ i < m + j
            BY <1>1
        <3> QED BY <1>1, <1>2, <3>1 DEF ItemsFirst
    <2> QED BY <2>1, <2>2, <2>3
<1>3. ASSUME ItemsFirst(a), ItemsFirst(b), Before(Items(a), Items(b))
      PROVE  ItemsFirst(all)
    <2> SUFFICES ASSUME NEW i \in 1..(m + n), NEW j \in 1..(m + n), i < j,
                        all[i].type \in Closing
                 PROVE  all[j].type \notin Item
        BY <1>1 DEF ItemsFirst
    <2>1. CASE j \in 1..m
        <3>1. i \in 1..m
            BY <1>1, <2>1
        <3> QED BY <1>1, <1>3, <2>1, <3>1 DEF ItemsFirst, m
    <2>2. CASE i \in 1..m /\ j > m
        <3>1. j - m \in 1..n /\ j = m + (j - m)
            BY <1>1, <2>2
        <3>2. a[i] \in Items(a) /\ b[j - m] \in Items(b)
            BY <2>2, <3>1 DEF Items, m, n
        <3> QED BY <1>1, <1>3, <2>2, <3>1, <3>2 DEF Before
    <2>3. CASE i > m /\ j > m
        <3>1. /\ j - m \in 1..n /\ j = m + (j - m)
              /\ i - m \in 1..n /\ i = m + (i - m) /\ i - m < j - m
            BY <1>1, <2>3
        <3> QED BY <1>1, <1>3, <3>1 DEF ItemsFirst, n
    <2> QED BY <1>1, <2>1, <2>2, <2>3
<1> QED BY <1>2, <1>3 DEF all

(* A unit of a frame for each place of it.                                  *)
LEMMA FramesAreItems ==
    ASSUME NEW units \in Seq(LineUnit)
    PROVE  Items(FramesOf(units)) = FramesIn(units)
BY FramesOfUnits DEF Items, FramesIn

(* Of units that are all of one frame none can come before another.        *)
LEMMA OneIsFirst ==
    ASSUME NEW frames, \A f, g \in Items(frames) : f.type = g.type
    PROVE  ItemsFirst(frames)
BY DEF ItemsFirst, Items, Closing, Item

(* What the ring has room for it takes: each frame, in their order.         *)
LEMMA EnqueueFits ==
    ASSUME tx \in Seq(Unit), stale \subseteq Param \union {NoValue},
           NEW frames \in Seq(ServerFrame), Enqueue(frames), ItemsFirst(frames),
           \A n \in 1..Len(frames) : Critical(frames[n]),
           NEW level, \A n \in 0..Len(frames) : level[n] \in Nat,
           level[0] = Len(tx),
           \A n \in 1..Len(frames) :
                level[n] = level[n - 1] + Size(frames[n].type) /\ level[n] < TxCapacity
    PROVE  \E new \in Seq(Unit) :
              /\ tx' = tx \o new /\ Whole(new)
              /\ FramesIn(OnWire(new)) = Items(frames) /\ ItemsFirst(FramesOf(OnWire(new)))
<1> DEFINE N == Len(frames)
           First(n) == {frames[i] : i \in 1..n}
           Taken(new, n) == /\ Whole(new) /\ FramesIn(OnWire(new)) = First(n)
                            /\ ItemsFirst(FramesOf(OnWire(new)))
<1>1. PICK ring \in [0..N -> Ring] :
         /\ ring[0] = [tx |-> tx, stale |-> stale]
         /\ \A n \in 1..N : ring[n] = EnqueueOne(ring[n - 1], frames[n])
         /\ tx' = ring[N].tx
    BY EnqueueRings
<1> DEFINE Good == {n \in 0..N : Len(ring[n].tx) = level[n]
                        /\ \E new \in Seq(Unit) : ring[n].tx = tx \o new /\ Taken(new, n)}
<1>2. N \in Nat
    BY LenProperties
<1>3. 0 \in Good
    <2>1. <<>> \in Seq(Unit) /\ ring[0].tx = tx \o <<>> /\ Len(ring[0].tx) = level[0]
        BY <1>1, ConcatEmptySeq, EmptySeq
    <2>2. OnWire(<<>>) = <<>> /\ FramesOf(<<>>) = <<>>
        BY DEF OnWire, FramesOf
    <2>3. Whole(<<>>) /\ FramesIn(<<>>) = {} /\ ItemsFirst(<<>>) /\ First(0) = {}
        BY DEF Whole, Chained, FramesIn, ItemsFirst
    <2>4. Taken(<<>>, 0)
        BY <2>2, <2>3
    <2> HIDE DEF Taken
    <2>5. \E new \in Seq(Unit) : ring[0].tx = tx \o new /\ Taken(new, 0)
        BY <2>1, <2>4
    <2>6. 0 \in 0..N
        BY <1>2
    <2> HIDE DEF N
    <2> QED BY Zenon, <2>1, <2>5, <2>6
<1>4. ASSUME NEW n \in 1..N, n - 1 \in Good
      PROVE  n \in Good
    <2> DEFINE f == frames[n]
               r == ring[n - 1]
    <2>1. PICK new \in Seq(Unit) : r.tx = tx \o new /\ Taken(new, n - 1)
        BY <1>4
    <2>2. f \in ServerFrame /\ n - 1 \in 0..N /\ n \in 0..N /\ Len(r.tx) = level[n - 1]
        BY <1>2, <1>4, ElementOfSeq
    <2>3. r \in Ring /\ ring[n] = EnqueueOne(r, f)
        BY <1>1, <2>2
    <2>4. Len(r.tx) + Size(f.type) = level[n] /\ level[n] < TxCapacity /\ Critical(f)
          /\ level[n] \in Nat
        BY <2>2
    <2> HIDE DEF f, r, Taken
    <2>5. ring[n].tx = r.tx \o Units(f)
        <3>1. ~(Len(r.tx) + Size(f.type) > Limit(f))
            BY <2>4, SessionAssumption DEF Limit
        <3> QED BY <2>3, <3>1 DEF EnqueueOne
    <2> DEFINE u == Units(f)
    <2>6. u \in Seq(Unit) /\ Whole(u) /\ FramesIn(u) = {f} /\ Len(u) = Size(f.type)
        BY <2>2, WholeFrame, UnitsOfFrame
    <2>7. ring[n].tx = r.tx \o u
        BY <2>5
    <2> HIDE DEF u
    <2>8. /\ new \o u \in Seq(Unit) /\ Whole(new \o u)
          /\ OnWire(new \o u) = OnWire(new) \o OnWire(u)
        BY <2>1, <2>6, Joined, WholeJoined, OnWireJoined DEF Taken
    <2>9. ring[n].tx = tx \o (new \o u)
        <3>1. tx \in Seq(Unit) /\ new \in Seq(Unit) /\ u \in Seq(Unit)
            BY <2>1, <2>6
        <3>2. (tx \o new) \o u = tx \o (new \o u)
            BY ONLY SMTT(30), <3>1, ConcatAssociative
        <3> QED BY <2>1, <2>7, <3>2
    <2>10. Len(ring[n].tx) = level[n]
        <3>1. r.tx \in Seq(Unit)
            BY <2>3 DEF Ring
        <3>2. Len(r.tx \o u) = Len(r.tx) + Len(u)
            BY ONLY ZenonT(30), <2>6, <3>1, Joined
        <3> QED BY <2>4, <2>6, <2>7, <3>2
    <2> DEFINE x == OnWire(new)
               y == OnWire(u)
    <2>11. /\ x \in Seq(LineUnit) /\ y \in Seq(LineUnit) /\ FramesIn(y) = {f}
           /\ FramesIn(x) = First(n - 1) /\ ItemsFirst(FramesOf(x))
        BY <2>1, <2>6, OnWireUnits, FramesOnWire DEF Taken
    <2>12. First(n) = First(n - 1) \union {f}
        BY <1>2 DEF f
    <2> HIDE DEF x, y
    <2>13. FramesIn(x \o y) = First(n)
        <3>1. FramesIn(x \o y) = FramesIn(x) \union FramesIn(y)
            BY ONLY <2>11, FramesInJoined
        <3> QED BY <2>11, <2>12, <3>1
    <2>14. ItemsFirst(FramesOf(x \o y))
        <3> DEFINE a == FramesOf(x)
                   b == FramesOf(y)
        <3>1. /\ a \in Seq(ServerFrame) /\ b \in Seq(ServerFrame)
              /\ Items(a) = First(n - 1) /\ Items(b) = {f} /\ ItemsFirst(a)
              /\ FramesOf(x \o y) = a \o b
            BY <2>11, FramesOfUnits, FramesAreItems, FramesOfJoined
        <3> HIDE DEF a, b
        <3>2. ItemsFirst(b)
            BY <3>1, OneIsFirst
        <3>3. Before(First(n - 1), {f})
            <4> SUFFICES ASSUME NEW i \in 1..(n - 1), frames[i].type \in Closing
                         PROVE  f.type \notin Item
                BY DEF Before
            <4>1. i \in 1..N /\ n \in 1..N /\ i < n
                BY <1>2
            <4> QED BY <4>1 DEF ItemsFirst, f
        <3>4. Before(Items(a), Items(b))
            BY <3>1, <3>3
        <3> QED BY <3>1, <3>2, <3>4, ItemsFirstJoined
    <2>15. Taken(new \o u, n)
        BY <2>8, <2>13, <2>14 DEF Taken, x, y
    <2> QED BY <2>2, <2>8, <2>9, <2>10, <2>15
<1>5. \A n \in 0..N : n \in Good
    <2> HIDE DEF Good, N
    <2> QED BY <1>2, <1>3, <1>4, UpTo
<1>6. N \in Good
    <2>1. N \in 0..N
        BY <1>2
    <2> HIDE DEF Good, N
    <2> QED BY <1>5, <2>1
<1>7. First(N) = Items(frames)
    BY DEF Items
<1>8. PICK new \in Seq(Unit) : ring[N].tx = tx \o new /\ Taken(new, N)
    BY <1>6
<1> QED BY <1>1, <1>7, <1>8

(* n rounds of p are at most m rounds of p.                                 *)
LEMMA FewerRounds ==
    ASSUME NEW n \in Nat, NEW m \in Nat, NEW p \in Nat, n <= m
    PROVE  n * p <= m * p /\ n * p \in Nat /\ (n + 1) * p = n * p + p
OBVIOUS

(* A whole answer: a frame that begins it, one for each parameter, a frame  *)
(* that ends it.                                                            *)
LEMMA AnswerFits ==
    ASSUME tx \in Seq(Unit), stale \subseteq Param \union {NoValue},
           NEW first \in ServerFrame, NEW last \in ServerFrame, NEW each \in Seq(ServerFrame),
           NEW type \in {"CAPS_PARAM", "STATE_PARAM"},
           \A n \in 1..Len(each) : each[n].type = type,
           first.type \in {"CAPS_BEGIN", "STATE_BEGIN"}, last.type \in Closing,
           Enqueue(<<first>> \o each \o <<last>>),
           Len(tx) + (Size(first.type) + Len(each) * Size(type) + Size(last.type)) < TxCapacity
    PROVE  \E new \in Seq(Unit) :
              /\ tx' = tx \o new /\ Whole(new)
              /\ FramesIn(OnWire(new)) = {first, last} \union Items(each)
              /\ ItemsFirst(FramesOf(OnWire(new)))
<1> DEFINE frames == <<first>> \o each \o <<last>>
           N == Len(each)
           L == Len(tx)
           B == Size(first.type)
           P == Size(type)
           E == Size(last.type)
<1>1. /\ frames \in Seq(ServerFrame) /\ Len(frames) = N + 2
      /\ frames[1] = first /\ frames[N + 2] = last
      /\ \A n \in 2..(N + 1) : frames[n] = each[n - 1]
    BY SnapshotFrames
<1>2. /\ N \in Nat /\ L \in Nat /\ B \in Nat /\ P \in Nat /\ E \in Nat
      /\ TxCapacity \in Nat /\ N * P \in Nat /\ L + B + N * P + E < TxCapacity
    <2>1. N \in Nat /\ L \in Nat
        BY LenProperties
    <2>2. B \in Nat /\ P \in Nat /\ E \in Nat /\ TxCapacity \in Nat
        BY SessionAssumption DEF ServerFrame, ServerType
    <2>3. L + (B + N * P + E) < TxCapacity
        OBVIOUS
    <2> HIDE DEF N, L, B, P, E
    <2>4. N * P \in Nat
        BY <2>1, <2>2, FewerRounds
    <2> QED BY <2>1, <2>2, <2>3, <2>4
<1>3. Enqueue(frames)
    OBVIOUS
<1> HIDE DEF frames
<1>4. \A n \in 1..Len(frames) :
        \/ n = 1 /\ frames[n] = first
        \/ n = N + 2 /\ frames[n] = last
        \/ n \in 2..(N + 1) /\ n - 1 \in 1..N /\ frames[n] = each[n - 1]
    BY SMTT(60), <1>1, <1>2
<1>5. Items(frames) = {first, last} \union Items(each)
    <2>1. Items(frames) \subseteq {first, last} \union Items(each)
        BY <1>4 DEF Items
    <2>2. first \in Items(frames) /\ last \in Items(frames)
        <3>1. 1 \in 1..(N + 2) /\ N + 2 \in 1..(N + 2)
            BY <1>2
        <3> QED BY <1>1, <3>1 DEF Items
    <2>3. Items(each) \subseteq Items(frames)
        <3> SUFFICES ASSUME NEW i \in 1..N PROVE each[i] \in Items(frames)
            BY DEF Items
        <3>1. i + 1 \in 2..(N + 1) /\ (i + 1) - 1 = i /\ i + 1 \in 1..(N + 2)
            BY <1>2
        <3>2. frames[i + 1] = each[i]
            BY <1>1, <3>1
        <3> QED BY <1>1, <3>1, <3>2 DEF Items
    <2> QED BY <2>1, <2>2, <2>3
<1>6. ItemsFirst(frames)
    <2> SUFFICES ASSUME NEW i \in 1..Len(frames), NEW j \in 1..Len(frames), i < j,
                        frames[i].type \in Closing
                 PROVE  FALSE
        BY DEF ItemsFirst
    <2>1. frames[i].type \notin {"CAPS_BEGIN", "STATE_BEGIN", "CAPS_PARAM", "STATE_PARAM"}
        BY DEF Closing
    <2>2. i = N + 2
        BY <1>4, <2>1
    <2> QED BY <1>1, <1>2, <2>2
<1>7. \A n \in 1..Len(frames) : Critical(frames[n])
    BY <1>4 DEF Critical, Closing
<1> DEFINE level == [n \in 0..(N + 2) |->
                        IF n = 0 THEN L
                        ELSE IF n = N + 2 THEN L + B + N * P + E
                        ELSE L + B + (n - 1) * P]
<1>8. level[0] = Len(tx)
    BY <1>2
<1>9. ASSUME NEW n \in 0..(N + 2) PROVE level[n] \in Nat /\ level[n] < TxCapacity
    <2> HIDE DEF N, L, B, P, E
    <2>1. CASE n \in {0, N + 2}
        BY <1>2, <2>1
    <2>2. CASE n \in 1..(N + 1)
        <3>1. n - 1 \in Nat /\ n - 1 <= N /\ n # 0 /\ n # N + 2
            BY <1>2, <2>2
        <3>2. (n - 1) * P <= N * P /\ (n - 1) * P \in Nat
            BY <1>2, <3>1, FewerRounds
        <3>3. level[n] = L + B + (n - 1) * P
            BY <3>1
        <3> HIDE DEF level
        <3> DEFINE x == (n - 1) * P
                   y == N * P
        <3>4. x \in Nat /\ y \in Nat /\ x <= y /\ L + B + y + E < TxCapacity
              /\ level[n] = L + B + x
            BY <1>2, <3>2, <3>3
        <3>5. L \in Nat /\ B \in Nat /\ E \in Nat /\ TxCapacity \in Nat
            BY <1>2, SessionAssumption
        <3> HIDE DEF x, y
        <3> QED BY ONLY <3>4, <3>5
    <2> QED BY <1>2, <2>1, <2>2
<1>10. ASSUME NEW n \in 1..Len(frames)
       PROVE  level[n] = level[n - 1] + Size(frames[n].type)
    <2>1. CASE n = 1
        <3>1. 1 \in 0..(N + 2) /\ 0 \in 0..(N + 2) /\ 1 # N + 2 /\ 1 - 1 = 0
            <4>1. N \in Nat
                BY <1>2
            <4> HIDE DEF N
            <4> QED BY ONLY <4>1
        <3>2. level[1] = L + B + 0 * P /\ level[0] = L
            BY <3>1
        <3>3. level[1] = L + B
            <4>1. L \in Nat /\ B \in Nat /\ P \in Nat
                BY <1>2
            <4> HIDE DEF level, L, B, P
            <4> QED BY ONLY <3>2, <4>1
        <3>4. Size(frames[1].type) = B
            BY <1>1
        <3> HIDE DEF level, L, B
        <3> QED BY ONLY <2>1, <3>1, <3>2, <3>3, <3>4
    <2>2. CASE n = N + 2
        <3>1. n - 1 # 0 /\ n - 1 # N + 2 /\ (n - 1) - 1 = N /\ n - 1 \in 0..(N + 2) /\ n # 0
              /\ n \in 0..(N + 2)
            <4>1. N \in Nat
                BY <1>2
            <4> HIDE DEF N
            <4> QED BY ONLY <2>2, <4>1
        <3>2. level[n] = L + B + N * P + E /\ level[n - 1] = L + B + N * P
            BY <2>2, <3>1
        <3> QED BY <1>1, <1>2, <2>2, <3>2
    <2>3. CASE n \in 2..(N + 1)
        <3>1. /\ n \in 0..(N + 2) /\ n # 0 /\ n # N + 2
              /\ n - 1 \in 0..(N + 2) /\ n - 1 # 0 /\ n - 1 # N + 2
              /\ (n - 1) - 1 \in Nat /\ ((n - 1) - 1) + 1 = n - 1 /\ n - 1 \in 1..N
            <4>1. N \in Nat /\ n \in 2..(N + 1)
                BY <1>2, <2>3
            <4> HIDE DEF N
            <4> QED BY ONLY <4>1
        <3>2. level[n] = L + B + (n - 1) * P /\ level[n - 1] = L + B + ((n - 1) - 1) * P
            BY <3>1
        <3> HIDE DEF level
        <3> DEFINE k == (n - 1) - 1
        <3>3. k \in Nat /\ k + 1 = n - 1
            BY <3>1
        <3>4. (k + 1) * P = k * P + P /\ k * P \in Nat
            <4> HIDE DEF k, P
            <4> QED BY <1>2, <3>3, FewerRounds
        <3>5. Size(frames[n].type) = P
            BY <1>1, <2>3, <3>1
        <3>6. level[n] = L + B + (k + 1) * P /\ level[n - 1] = L + B + k * P
            BY <3>2, <3>3
        <3> DEFINE x == k * P
                   y == (k + 1) * P
        <3>7. x \in Nat /\ y = x + P /\ level[n] = L + B + y /\ level[n - 1] = L + B + x
            BY <3>4, <3>6
        <3>8. L \in Nat /\ B \in Nat /\ P \in Nat
            BY <1>2
        <3> HIDE DEF x, y, k, L, B, P
        <3> QED BY ONLY <3>5, <3>7, <3>8
    <2>4. n = 1 \/ n = N + 2 \/ n \in 2..(N + 1)
        <3>1. N \in Nat /\ n \in 1..(N + 2)
            BY <1>1, <1>2
        <3> HIDE DEF N
        <3> QED BY ONLY <3>1
    <2> QED BY ONLY <2>1, <2>2, <2>3, <2>4
<1>11. /\ \A n \in 0..Len(frames) : level[n] \in Nat
       /\ \A n \in 1..Len(frames) :
            level[n] = level[n - 1] + Size(frames[n].type) /\ level[n] < TxCapacity
    <2>1. 0..Len(frames) = 0..(N + 2) /\ \A n \in 1..Len(frames) : n \in 0..(N + 2)
        BY <1>1, <1>2
    <2> HIDE DEF level, N
    <2> QED BY <1>9, <1>10, <2>1
<1> HIDE DEF level
<1> QED BY <1>1, <1>3, <1>5, <1>6, <1>7, <1>8, <1>11, EnqueueFits

-----------------------------------------------------------------------------
(* What each step does to what a command is given *)

Stream == Received \o FramesOf(Coming)

LEMMA StreamTypes ==
    ASSUME CliTypeOK
    PROVE  /\ Received \in Seq(ServerFrame) /\ Coming \in Seq(LineUnit)
           /\ FramesOf(Coming) \in Seq(ServerFrame) /\ Stream \in Seq(ServerFrame)
           /\ Items(Stream) = Given
<1>1. Received \in Seq(ServerFrame) /\ Coming \in Seq(LineUnit)
    BY InPlayTypes
<1> DEFINE r == Received
           c == FramesOf(Coming)
<1>2. r \in Seq(ServerFrame) /\ c \in Seq(ServerFrame) /\ Items(c) = FramesIn(Coming)
    BY <1>1, FramesOfUnits, FramesAreItems
<1> HIDE DEF r, c
<1>3. r \o c \in Seq(ServerFrame) /\ Items(r \o c) = Items(r) \union Items(c)
    BY <1>2, Joined, FramesInJoined
<1> QED BY <1>1, <1>2, <1>3 DEF Stream, Given, r, c

(* The P4 sends: it comes after all that is coming.                         *)
LEMMA SendMoves ==
    ASSUME CliTypeOK, CliTypeOK', NEW new \in Seq(Unit), tx' = tx \o new, Whole(new),
           UNCHANGED <<pc, line, buf, batch, out>>, Whole(Coming), Undamaged(Coming)
    PROVE  LET wire == OnWire(new) IN
           /\ wire \in Seq(LineUnit) /\ FramesOf(wire) \in Seq(ServerFrame)
           /\ Whole(Coming') /\ Undamaged(Coming')
           /\ Received' = Received /\ Given' = Given \union FramesIn(wire)
           /\ Stream' = Stream \o FramesOf(wire)
<1> DEFINE w == OnWire(tx)
           d == OnWire(new)
           c == Coming
           r == Received
<1>1. /\ tx \in Seq(Unit) /\ line \in Seq(LineUnit) /\ buf \in Seq(LineUnit)
    BY DEF CliTypeOK, SessionTypeOK
<1>2. /\ d \in Seq(LineUnit) /\ Len(d) = Len(new) /\ Undamaged(d)
      /\ \A i \in 1..Len(new) : d[i].part = new[i].part
      /\ (Chained(new) => Chained(d))
      /\ w \in Seq(LineUnit) /\ OnWire(tx') = w \o d
    <2>1. /\ d \in Seq(LineUnit) /\ Len(d) = Len(new) /\ Undamaged(d)
          /\ \A i \in 1..Len(new) : d[i] = HostUnit(new[i].frame, new[i].part, "none")
          /\ (Chained(new) => Chained(d))
          /\ w \in Seq(LineUnit) /\ OnWire(tx') = w \o d
        BY <1>1, OnWireUnits, FramesOnWire, OnWireJoined
    <2>2. \A frame, part : HostUnit(frame, part, "none").part = part
        BY DEF HostUnit
    <2> HIDE DEF d, w
    <2> QED BY <2>1, <2>2
<1>3. r \in Seq(ServerFrame) /\ c \in Seq(LineUnit)
    BY InPlayTypes
<1>4. Whole(d)
    <2>1. d # <<>> => 1 \in 1..Len(new) /\ new # <<>>
        BY <1>2, LenProperties, EmptySeq
    <2> QED BY <1>2, <2>1 DEF Whole
<1> HIDE DEF d, w
<1>5. Coming' = c \o d
    <2>1. CASE Reading
        <3>1. (line \o w) \o d = line \o (w \o d) /\ line \o w \in Seq(LineUnit)
            BY ONLY SMTT(30), <1>1, <1>2, SeqParts
        <3> DEFINE lw == line \o w
        <3>2. lw \in Seq(LineUnit)
            BY <3>1
        <3> HIDE DEF lw
        <3>3. (buf \o lw) \o d = buf \o (lw \o d)
            BY ONLY SMTT(30), <1>1, <1>2, <3>2, ConcatAssociative
        <3> QED BY <1>2, <2>1, <3>1, <3>3 DEF Coming, Reading, lw, w
    <2>2. CASE ~Reading
        BY <1>2, <2>2 DEF Coming, Reading, w
    <2> QED BY <2>1, <2>2
<1>6. Received' = r
    BY DEF Received
<1>7. Whole(c) /\ Undamaged(c)
    OBVIOUS
<1> HIDE DEF c, r
<1>8. Whole(Coming') /\ Undamaged(Coming')
    BY <1>2, <1>3, <1>4, <1>5, <1>7, WholeJoined, UndamagedParts
<1>9. Given' = Given \union FramesIn(d)
    <2>1. FramesIn(c \o d) = FramesIn(c) \union FramesIn(d)
        BY <1>2, <1>3, FramesInJoined
    <2> QED BY <1>5, <1>6, <2>1 DEF Given, c, r
<1>10. Stream' = Stream \o FramesOf(d) /\ FramesOf(d) \in Seq(ServerFrame)
    <2> DEFINE fc == FramesOf(c)
               fd == FramesOf(d)
    <2>1. FramesOf(c \o d) = fc \o fd /\ fc \in Seq(ServerFrame) /\ fd \in Seq(ServerFrame)
        BY <1>2, <1>3, FramesOfJoined, FramesOfUnits
    <2> HIDE DEF fc, fd
    <2>2. (r \o fc) \o fd = r \o (fc \o fd)
        BY ONLY SMTT(30), <1>3, <2>1, ConcatAssociative
    <2> QED BY <1>5, <1>6, <2>1, <2>2 DEF Stream, c, r, fc, fd
<1> QED BY <1>2, <1>6, <1>8, <1>9, <1>10 DEF d, r

(* A unit goes from the ring to the host.                                   *)
LEMMA TransmitMoves ==
    ASSUME CliTypeOK, Transmit, Reading
    PROVE  /\ Received' = Received /\ Coming' = Coming /\ Len(tx') <= Len(tx)
           /\ FramesIn(line') \union FramesIn(tx') \subseteq FramesIn(line) \union FramesIn(tx)
<1> DEFINE u == HostUnit(Head(tx).frame, Head(tx).part, "none")
           rest == OnWire(Tail(tx))
           one == <<u>>
<1>1. /\ tx \in Seq(Unit) /\ tx # <<>> /\ tx' = Tail(tx)
      /\ line \in Seq(LineUnit) /\ buf \in Seq(LineUnit)
    BY DEF Transmit, TakeTx, CliTypeOK, SessionTypeOK
<1>2. /\ u \in LineUnit /\ Tail(tx) \in Seq(Unit) /\ OnWire(tx) = <<u>> \o rest
      /\ rest \in Seq(LineUnit)
    BY <1>1, OnWireHead, OnWireUnits
<1>3. FramesIn(Tail(tx)) \subseteq FramesIn(tx) /\ u.frame \in FramesIn(tx)
      /\ Len(Tail(tx)) <= Len(tx)
    <2>1. Len(Tail(tx)) = Len(tx) - 1 /\ Len(tx) \in Nat
        BY <1>1, EmptySeq, LenProperties
    <2>2. FramesIn(Tail(tx)) \subseteq FramesIn(tx) /\ u.frame \in FramesIn(tx)
        BY <1>1, OneInFront DEF HostUnit
    <2> QED BY <2>1, <2>2
<1>4. line' = Append(line, u)
    BY DEF Transmit
<1>5. UNCHANGED <<pc, buf, batch, out>>
    BY DEF Transmit, readVars
<1> HIDE DEF u, rest
<1>6. /\ line' = line \o one /\ line' \in Seq(LineUnit) /\ one \in Seq(LineUnit)
      /\ FramesIn(line') = FramesIn(line) \union {u.frame}
    BY <1>1, <1>2, <1>4, OneMore
<1> HIDE DEF one
<1>7. line' \o rest = line \o (one \o rest)
    <2>1. (line \o one) \o rest = line \o (one \o rest)
        BY ONLY SMTT(30), <1>1, <1>2, <1>6, ConcatAssociative
    <2> QED BY <1>6, <2>1
<1>8. Coming' = Coming /\ Received' = Received
    BY <1>1, <1>2, <1>5, <1>7 DEF Coming, Received, Reading, rest, one
<1> QED BY <1>1, <1>3, <1>6, <1>8

(* A read takes the host's units into the buffer.                           *)
LEMMA ReadMoves ==
    ASSUME CliTypeOK, NEW n \in 0..Len(line), Read(n)
    PROVE  Received' = Received /\ Coming' = Coming
<1> DEFINE a == SubSeq(line, 1, n)
           b == SubSeq(line, n + 1, Len(line))
           w == OnWire(tx)
           bw == b \o w
<1>1. /\ line \in Seq(LineUnit) /\ buf \in Seq(LineUnit) /\ w \in Seq(LineUnit)
      /\ out \in Seq(ServerFrame)
    BY InPlayTypes DEF CliTypeOK
<1>2. a \in Seq(LineUnit) /\ b \in Seq(LineUnit) /\ line = a \o b
    BY <1>1, SplitAt
<1>3. /\ buf' = buf \o a /\ line' = b /\ batch' = <<>> /\ pc = "read" /\ pc' = "feed"
      /\ UNCHANGED <<sessionVars, out>>
    BY DEF Read
<1> HIDE DEF a, b, w
<1>4. bw \in Seq(LineUnit) /\ (a \o b) \o w = a \o bw
    BY ONLY SMTT(30), <1>1, <1>2, SeqParts DEF bw
<1> HIDE DEF bw
<1>5. (buf \o a) \o bw = buf \o (a \o bw)
    BY ONLY SMTT(30), <1>1, <1>2, <1>4, ConcatAssociative
<1>6. Coming = buf \o ((a \o b) \o w) /\ Coming' = (buf \o a) \o bw
    BY <1>2, <1>3 DEF Coming, Reading, w, bw, sessionVars
<1>7. Received' = out \o <<>> /\ Received = out
    BY <1>3 DEF Received
<1> QED BY <1>1, <1>4, <1>5, <1>6, <1>7, ConcatEmptySeq

(* On a clean line the buffer begins with a frame, and nothing is dropped.  *)
LEMMA CleanFront ==
    ASSUME CliTypeOK, pc = "feed", Whole(Coming), Undamaged(Coming)
    PROVE  /\ Synced(buf) = buf /\ ~BadHeader(buf) /\ (~Incomplete(buf) => CrcMatches(buf))
           /\ \A i \in 1..Len(buf) : i <= Size(buf[1].frame.type) =>
                 buf[i] = HostUnit(buf[1].frame, i, "none")
<1> DEFINE rest == line \o OnWire(tx)
           all == buf \o rest
           T == Size(buf[1].frame.type)
<1>1. buf \in Seq(LineUnit) /\ line \in Seq(LineUnit) /\ OnWire(tx) \in Seq(LineUnit)
    BY InPlayTypes DEF CliTypeOK
<1>2. rest \in Seq(LineUnit) /\ Coming = all
    BY <1>1, Joined DEF Coming, Reading
<1> HIDE DEF rest
<1>3. CASE buf = <<>>
    <2>1. \A i \in 1..Len(buf) : FALSE
        BY <1>3
    <2>2. {i \in 1..Len(buf) : HasSof(buf[i])} = {}
        BY <2>1
    <2>3. Synced(buf) = buf
        BY <1>3, <2>2 DEF Synced
    <2>4. ~BadHeader(buf) /\ Incomplete(buf)
        BY <1>3 DEF BadHeader, Incomplete
    <2> QED BY <2>1, <2>3, <2>4
<1>4. CASE buf # <<>>
    <2>1. /\ 1 \in 1..Len(buf) /\ Len(buf) \in Nat /\ Len(rest) \in Nat
        BY <1>1, <1>2, <1>4, LenProperties, EmptySeq
    <2>2. /\ all \in Seq(LineUnit) /\ Len(all) = Len(buf) + Len(rest)
          /\ \A i \in 1..Len(buf) : all[i] = buf[i]
        BY <1>1, <1>2, Joined
    <2>3. Chained(all) /\ Undamaged(all) /\ (all # <<>> => all[1].part = 1)
        BY <1>2 DEF Whole
    <2> HIDE DEF all
    <2>4. all # <<>> /\ 1 \in 1..Len(all) /\ all[1] = buf[1]
        BY <2>1, <2>2, EmptySeq
    <2>5. buf[1].part = 1 /\ buf[1].damage = "none"
        BY <2>3, <2>4 DEF Undamaged
    <2>6. \A i \in 1..Len(all) : i <= Size(all[1].frame.type) =>
                all[i] = HostUnit(all[1].frame, i, "none")
        BY <2>2, <2>3, <2>4, <2>5, ChainBegins
    <2>7. \A i \in 1..Len(buf) : i \in 1..Len(all)
        BY <2>1, <2>2
    <2>8. \A i \in 1..Len(buf) : i <= T => buf[i] = HostUnit(buf[1].frame, i, "none")
        BY <2>2, <2>4, <2>6, <2>7
    <2>9. PICK skipped \in Seq(LineUnit) :
            /\ Synced(buf) \in Seq(LineUnit) /\ buf = skipped \o Synced(buf)
            /\ \A i \in 1..Len(skipped) : ~HasSof(buf[i])
        BY <1>1, SyncedSkips
    <2>10. skipped = <<>>
        <3>1. HasSof(buf[1])
            BY <2>5 DEF HasSof
        <3>2. skipped # <<>> => 1 \in 1..Len(skipped)
            BY <2>9, LenProperties, EmptySeq
        <3> QED BY <2>9, <3>1, <3>2
    <2>11. Synced(buf) = buf
        BY <2>9, <2>10, ConcatEmptySeq
    <2>12. ~BadHeader(buf)
        BY <2>5 DEF BadHeader
    <2>13. ASSUME ~Incomplete(buf) PROVE CrcMatches(buf)
        <3>1. Total(buf) \in 1..Len(buf) /\ buf[1].frame \in ServerFrame
            BY <1>1, <1>4, <2>12, <2>13, WholeInFront
        <3>2. T \in Nat \ {0}
            BY <3>1, UnitsOfFrame
        <3>3. Total(buf) = T
            BY <2>5, <3>2 DEF Total
        <3>4. \A i \in 1..Total(buf) : i \in 1..Len(buf) /\ i <= T
            BY <3>1, <3>3
        <3> QED BY <2>8, <3>4 DEF CrcMatches
    <2> QED BY <2>8, <2>11, <2>12, <2>13
<1> QED BY <1>3, <1>4

LEMMA WholeRest ==
    ASSUME NEW S, NEW a \in Seq(S), NEW b \in Seq(S), Whole(a \o b),
           a # <<>>, Complete(a[Len(a)])
    PROVE  Whole(b)
BY ChainedPart DEF Whole

(* A frame that is parsed goes from what is coming to what is received.     *)
LEMMA ParseMoves ==
    ASSUME CliTypeOK, CliTypeOK', Whole(Coming), Undamaged(Coming), TryParse
    PROVE  /\ Whole(Coming') /\ Undamaged(Coming') /\ Given' = Given
           /\ ItemsFirst(Stream) => ItemsFirst(Stream')
           /\ Whole(buf) => Whole(buf')
<1> DEFINE rest == line \o OnWire(tx)
           k == Total(buf)
           f == buf[1].frame
           one == <<f>>
           body == SubSeq(buf, 1, k)
           left == SubSeq(buf, k + 1, Len(buf))
           c == left \o rest
           r == Received
<1>1. /\ pc = "feed" /\ pc' = "feed"
      /\ ~BadHeader(buf) /\ ~Incomplete(buf) /\ CrcMatches(buf)
      /\ batch' = Append(batch, f) /\ buf' = left
      /\ UNCHANGED <<sessionVars, line, out>>
    <2>1. pc = "feed"
        BY DEF TryParse
    <2>2. Synced(buf) = buf
        BY <2>1, CleanFront
    <2> QED BY <2>2 DEF TryParse, lineVars
<1>2. /\ buf \in Seq(LineUnit) /\ line \in Seq(LineUnit) /\ OnWire(tx) \in Seq(LineUnit)
      /\ out \in Seq(ServerFrame) /\ batch \in Seq(ServerFrame) /\ r \in Seq(ServerFrame)
      /\ r = out \o batch
    BY <1>1, InPlayTypes DEF CliTypeOK, Received
<1>3. rest \in Seq(LineUnit) /\ Coming = buf \o rest
    BY <1>1, <1>2, Joined DEF Coming, Reading
<1>4. buf # <<>> /\ f \in ServerFrame /\ k \in 1..Len(buf) /\ k = Size(f.type)
    <2>1. buf # <<>>
        BY <1>1 DEF Incomplete
    <2> QED BY <1>1, <1>2, <2>1, WholeInFront
<1>5. \A i \in 1..k : buf[i] = HostUnit(f, i, "none")
    BY <1>1 DEF CrcMatches
<1> HIDE DEF rest, k, f, r
<1>6. /\ body \in Seq(LineUnit) /\ left \in Seq(LineUnit) /\ buf = body \o left
      /\ Len(body) = k /\ \A i \in 1..k : body[i] = buf[i]
    <2>1. k \in 0..Len(buf)
        BY <1>4
    <2> QED BY <1>2, <2>1, SplitAt
<1> HIDE DEF body, left
<1>7. \A i \in 1..Len(body) : body[i].frame = f /\ body[i].part = i
    <2>1. \A i \in 1..Len(body) : body[i] = HostUnit(f, i, "none")
        BY <1>5, <1>6
    <2>2. \A i : HostUnit(f, i, "none").frame = f /\ HostUnit(f, i, "none").part = i
        BY DEF HostUnit
    <2> QED BY <2>1, <2>2
<1>8. body # <<>> /\ Complete(body[Len(body)]) /\ FramesIn(body) = {f}
    <2>1. k \in 1..k
        BY <1>4, LenProperties
    <2> QED BY <1>4, <1>6, <1>7, <2>1, EmptySeq DEF Complete, FramesIn
<1>9. c \in Seq(LineUnit) /\ Coming = body \o c
    <2>1. left \o rest \in Seq(LineUnit) /\ (body \o left) \o rest = body \o (left \o rest)
        BY ONLY SMTT(30), <1>3, <1>6, SeqParts
    <2> QED BY <1>3, <1>6, <2>1
<1>10. Coming' = c
    BY <1>1 DEF Coming, Reading, sessionVars, rest
<1>11. /\ one \in Seq(ServerFrame) /\ Items(one) = {f} /\ batch' = batch \o one
    BY <1>1, <1>2, <1>4, AppendIsConcat DEF Items
<1> HIDE DEF c, one
<1>12. r \in Seq(ServerFrame) /\ one \in Seq(ServerFrame)
    BY <1>2, <1>11
<1>13. r \o one \in Seq(ServerFrame) /\ Items(r \o one) = Items(r) \union {f}
    <2>1. r \o one \in Seq(ServerFrame) /\ Items(r \o one) = Items(r) \union Items(one)
        BY ONLY <1>12, Joined, FramesInJoined
    <2> QED BY <1>11, <2>1
<1>14. Received' = r \o one
    <2>1. (out \o batch) \o one = out \o (batch \o one)
        BY ONLY SMTT(30), <1>2, <1>11, ConcatAssociative
    <2>2. Received' = out \o batch'
        BY <1>1 DEF Received
    <2> QED BY <1>2, <1>11, <2>1, <2>2
<1>15. Whole(c) /\ Undamaged(c)
    BY <1>6, <1>8, <1>9, WholeRest, UndamagedParts
<1>16. Given' = Given
    <2>1. FramesIn(body \o c) = {f} \union FramesIn(c)
        BY <1>6, <1>8, <1>9, FramesInJoined
    <2> QED BY <1>9, <1>10, <1>14, <1>13, <2>1 DEF Given, r
<1>17. ASSUME ItemsFirst(Stream) PROVE ItemsFirst(Stream')
    <2> DEFINE fb == FramesOf(body)
               fc == FramesOf(c)
    <2>1. /\ fb \in Seq(ServerFrame) /\ fc \in Seq(ServerFrame) /\ Items(fb) = {f}
          /\ FramesOf(body \o c) = fb \o fc
        BY <1>6, <1>8, <1>9, FramesOfUnits, FramesAreItems, FramesOfJoined
    <2> HIDE DEF fb, fc
    <2> DEFINE bc == fb \o fc
    <2>2. bc \in Seq(ServerFrame) /\ Items(bc) = {f} \union Items(fc)
        <3>1. fb \o fc \in Seq(ServerFrame) /\ Items(fb \o fc) = Items(fb) \union Items(fc)
            BY ONLY SMTT(30), <2>1, Joined, FramesInJoined
        <3> QED BY <2>1, <3>1
    <2>3. ItemsFirst(bc) => Before({f}, Items(fc)) /\ ItemsFirst(fc)
        <3>1. ItemsFirst(fb \o fc) => Before(Items(fb), Items(fc)) /\ ItemsFirst(fc)
            BY ONLY <2>1, ItemsFirstJoined
        <3> QED BY <2>1, <3>1
    <2> HIDE DEF bc
    <2>4. Stream = r \o bc
        BY <1>9, <2>1 DEF Stream, r, bc
    <2>5. ItemsFirst(r) /\ ItemsFirst(bc) /\ Before(Items(r), Items(bc))
        BY <1>2, <1>17, <2>2, <2>4, ItemsFirstJoined
    <2> DEFINE ro == r \o one
    <2>6. ro \in Seq(ServerFrame) /\ Items(ro) = Items(r) \union {f}
        BY <1>13
    <2>7. ItemsFirst(one)
        BY <1>11, OneIsFirst
    <2>8. Before(Items(r), Items(one))
        BY <1>11, <2>2, <2>5 DEF Before
    <2>9. ItemsFirst(ro)
        BY <1>2, <1>11, <2>5, <2>7, <2>8, ItemsFirstJoined
    <2> HIDE DEF ro
    <2>10. Before(Items(ro), Items(fc))
        BY <2>2, <2>3, <2>5, <2>6 DEF Before
    <2>11. ItemsFirst(ro \o fc)
        BY <2>1, <2>3, <2>5, <2>6, <2>9, <2>10, ItemsFirstJoined
    <2> QED BY <1>10, <1>14, <2>11 DEF Stream, ro, fc
<1>18. Whole(buf) => Whole(buf')
    BY <1>1, <1>6, <1>8, WholeRest
<1> QED BY <1>10, <1>15, <1>16, <1>17, <1>18

(* What is not complete stays, and of whole frames nothing is incomplete.   *)
LEMMA ParseNoneMoves ==
    ASSUME CliTypeOK, Whole(Coming), Undamaged(Coming), TryParseNone
    PROVE  /\ Received' = Received /\ Coming' = Coming
           /\ Whole(buf) => buf' = <<>>
<1>1. /\ pc = "feed" /\ pc' = "filter" /\ Incomplete(buf) /\ buf' = buf
      /\ UNCHANGED <<sessionVars, line, out, batch>>
    <2>1. pc = "feed"
        BY DEF TryParseNone
    <2>2. Synced(buf) = buf /\ ~BadHeader(buf) /\ (~Incomplete(buf) => CrcMatches(buf))
        BY <2>1, CleanFront
    <2> QED BY <2>2 DEF TryParseNone, lineVars
<1>2. Received' = Received /\ Coming' = Coming
    BY <1>1 DEF Received, Coming, Reading, sessionVars
<1>3. ASSUME Whole(buf), buf # <<>> PROVE FALSE
    <2> DEFINE T == Size(buf[1].frame.type)
               n == Len(buf)
    <2>1. n \in Nat /\ 1 \in 1..n /\ n \in 1..n
        <3>1. buf \in Seq(LineUnit)
            BY DEF CliTypeOK
        <3> QED BY <1>3, <3>1, LenProperties, EmptySeq
    <2>2. \A i \in 1..n : i <= T => buf[i] = HostUnit(buf[1].frame, i, "none")
        BY <1>1, CleanFront
    <2>3. T \in Nat \ {0}
        <3>1. buf[1] \in LineUnit
            BY <2>1, ElementOfSeq DEF CliTypeOK
        <3> QED BY <3>1, UnitsOfFrame DEF LineUnit
    <2>4. buf[1].damage = "none"
        <3>1. buf[1] = HostUnit(buf[1].frame, 1, "none")
            BY <2>1, <2>2, <2>3
        <3>2. \A frame : HostUnit(frame, 1, "none").damage = "none"
            BY DEF HostUnit
        <3> HIDE DEF T, n
        <3> QED BY <3>1, <3>2
    <2>5. n < T
        BY <1>1, <1>3, <2>4, <2>3 DEF Incomplete, Total
    <2>6. buf[n] = HostUnit(buf[1].frame, n, "none")
        BY <2>1, <2>2, <2>3, <2>5
    <2>7. buf[n].part = n /\ buf[n].frame = buf[1].frame
        BY <2>6 DEF HostUnit
    <2>8. buf[n].part = Size(buf[n].frame.type)
        BY <1>3 DEF Whole, Chained, Complete
    <2> QED BY <2>1, <2>3, <2>5, <2>7, <2>8
<1> QED BY <1>1, <1>2, <1>3

-----------------------------------------------------------------------------
(* What the P4 sends a query *)

(* The P4 answers the only request it has, as a whole.                      *)
LEMMA AnswerSent ==
    ASSUME CliTypeOK, cmd \in Command, cmd.name \in {"caps", "state", "get"},
           parsed = <<Request(cmd, 1)>>, inflight = {}, HandleFrame,
           beats \in 0..MaxBeats, Len(tx) <= beats * Size("HEARTBEAT")
    PROVE  /\ parsed' = <<>>
           /\ \E new \in Seq(Unit) :
                 /\ tx' = tx \o new /\ Whole(new) /\ ItemsFirst(FramesOf(OnWire(new)))
                 /\ Expected(cmd, FramesIn(OnWire(new))) /\ HasAll(cmd, FramesIn(OnWire(new)))
<1> DEFINE request == Request(cmd, 1)
           L == Len(tx)
           Sent(frames) == \E new \in Seq(Unit) :
                              /\ tx' = tx \o new /\ Whole(new)
                              /\ ItemsFirst(FramesOf(OnWire(new)))
                              /\ FramesIn(OnWire(new)) = frames
<1>1. /\ SessionTypeOK /\ tx \in Seq(Unit) /\ stale \subseteq Param \union {NoValue}
      /\ values \in [Param -> Value] /\ revision \in Nat /\ L \in Nat
    BY LenProperties DEF CliTypeOK, SessionTypeOK
<1>2. /\ request \in ClientFrame /\ Head(parsed) = request /\ Tail(parsed) = <<>>
      /\ cmd.name = "caps" => request.type = "CAPS_REQUEST"
      /\ cmd.name = "state" => request.type = "GET_STATE"
      /\ cmd.name = "get" => /\ request.type = "GET_PARAM" /\ request.param = cmd.param
                             /\ request.value = NoValue /\ cmd.param \in Param
    BY RequestTypes, CliAssumption DEF Request, Client
<1> HIDE DEF request
<1>3. parsed' = <<>>
    BY <1>2, HandleFramePops
<1>4. \/ cmd.name = "caps" /\ HandleCapsRequest(request)
      \/ cmd.name = "state" /\ HandleGetState(request)
      \/ cmd.name = "get" /\ HandleGetParam(request)
    <2>1. ~Duplicate(request)
        BY DEF Duplicate
    <2>2. ASSUME NEW types, Dispatch(request, types) PROVE request.type \in types
        BY <2>2 DEF Dispatch
    <2> QED BY <1>2, <2>1, <2>2 DEF HandleFrame, RejectDuplicate, HandleHello,
            HandleHeartbeat, HandleCapsRequest, HandleGetState, HandleGetParam,
            RejectSetParam, SetParamQueueFull, AcceptSetParam, HandleUnsupported,
            HandleIgnored, HandleUnknown
<1>5. /\ L + (Size("CAPS_BEGIN") + Len(Registry) * Size("CAPS_PARAM") + Size("CAPS_END"))
            < TxCapacity
      /\ L + (Size("STATE_BEGIN") + Len(Registry) * Size("STATE_PARAM") + Size("STATE_END"))
            < TxCapacity
      /\ L + Size("PARAM_VALUE") < TxCapacity
    <2> DEFINE h == Size("HEARTBEAT")
               x == beats * h
               y == MaxBeats * h
               c == Size("CAPS_BEGIN") + Len(Registry) * Size("CAPS_PARAM") + Size("CAPS_END")
               s == Size("STATE_BEGIN") + Len(Registry) * Size("STATE_PARAM")
                        + Size("STATE_END")
               v == Size("PARAM_VALUE")
    <2>1. /\ y + c < TxCapacity /\ y + s < TxCapacity /\ y + v < TxCapacity
          /\ MaxBeats \in Nat
        BY RoomAssumption
    <2>2. h \in Nat /\ beats \in Nat /\ beats <= MaxBeats
        BY <2>1, SessionAssumption DEF ServerType
    <2> HIDE DEF h
    <2>3. x <= y /\ x \in Nat /\ y \in Nat
        BY <2>1, <2>2, FewerRounds
    <2>4. L <= x
        BY DEF h
    <2>5. c \in Nat /\ s \in Nat /\ v \in Nat /\ TxCapacity \in Nat
        <3>1. /\ Size("CAPS_BEGIN") \in Nat /\ Size("CAPS_PARAM") \in Nat
              /\ Size("CAPS_END") \in Nat /\ Size("STATE_BEGIN") \in Nat
              /\ Size("STATE_PARAM") \in Nat /\ Size("STATE_END") \in Nat /\ v \in Nat
              /\ TxCapacity \in Nat
            BY SessionAssumption DEF ServerType
        <3>2. Len(Registry) \in Nat
            BY SessionAssumption, LenProperties
        <3> DEFINE i == Len(Registry) * Size("CAPS_PARAM")
                   j == Len(Registry) * Size("STATE_PARAM")
        <3>3. i \in Nat /\ j \in Nat
            BY <3>1, <3>2, FewerRounds
        <3>4. c = Size("CAPS_BEGIN") + i + Size("CAPS_END")
              /\ s = Size("STATE_BEGIN") + j + Size("STATE_END")
            OBVIOUS
        <3> HIDE DEF i, j, c, s, v
        <3> QED BY SMTT(30), <3>1, <3>3, <3>4
    <2> HIDE DEF x, y, c, s, v, L
    <2>6. L + c < TxCapacity /\ L + s < TxCapacity /\ L + v < TxCapacity
        BY <1>1, <2>1, <2>3, <2>4, <2>5
    <2> QED BY <2>6 DEF c, s, v
<1> HIDE DEF L
<1>6. ASSUME NEW type \in {"CAPS_PARAM", "STATE_PARAM"}
      PROVE  LET each == ForEachParam(type, request) IN
             /\ each \in Seq(ServerFrame) /\ Len(each) = Len(Registry)
             /\ \A n \in 1..Len(each) : each[n].type = type
             /\ \A f \in Items(each) : f.type = type /\ f.param \in Param
             /\ \A p \in Param : \E f \in Items(each) : f.type = type /\ f.param = p
    <2> DEFINE each == ForEachParam(type, request)
    <2>1. /\ each \in Seq(ServerFrame) /\ Len(each) = Len(Registry)
          /\ \A n \in 1..Len(each) :
                each[n].type = type /\ each[n].param = Registry[n] /\ each[n].param \in Param
        <3>1. type \in ServerType
            BY DEF ServerType
        <3> QED BY <1>1, <1>2, <3>1, EachParam
    <2> HIDE DEF each
    <2>2. ASSUME NEW p \in Param PROVE \E f \in Items(each) : f.type = type /\ f.param = p
        <3>1. PICK n \in 1..Len(Registry) : p = Registry[n]
            BY SessionAssumption DEF Param, ToSet
        <3>2. each[n] \in Items(each) /\ each[n].type = type /\ each[n].param = p
            BY <2>1, <3>1 DEF Items
        <3> QED BY <3>2
    <2> QED BY <2>1, <2>2 DEF Items, each
<1>7. ASSUME cmd.name = "caps", HandleCapsRequest(request)
      PROVE  \E frames : Sent(frames) /\ Expected(cmd, frames) /\ HasAll(cmd, frames)
    <2> DEFINE first == Reply("CAPS_BEGIN", request)
               last == Reply("CAPS_END", request)
               each == ForEachParam("CAPS_PARAM", request)
    <2>1. /\ first \in ServerFrame /\ last \in ServerFrame
          /\ first.type = "CAPS_BEGIN" /\ last.type = "CAPS_END"
        BY <1>2 DEF Reply, Server, ServerFrame, ServerType, FrameValue
    <2>2. Enqueue(<<first>> \o each \o <<last>>)
        BY <1>7 DEF HandleCapsRequest
    <2>3. /\ each \in Seq(ServerFrame) /\ Len(each) = Len(Registry)
          /\ \A n \in 1..Len(each) : each[n].type = "CAPS_PARAM"
          /\ \A f \in Items(each) : f.type = "CAPS_PARAM" /\ f.param \in Param
          /\ \A p \in Param : \E f \in Items(each) : f.type = "CAPS_PARAM" /\ f.param = p
        BY <1>6
    <2> HIDE DEF first, last, each
    <2>4. Sent({first, last} \union Items(each))
        <3>1. Len(tx) + (Size(first.type) + Len(each) * Size("CAPS_PARAM") + Size(last.type))
                < TxCapacity
            BY <1>5, <2>1, <2>3 DEF L
        <3>2. /\ "CAPS_PARAM" \in {"CAPS_PARAM", "STATE_PARAM"}
              /\ first.type \in {"CAPS_BEGIN", "STATE_BEGIN"} /\ last.type \in Closing
            BY <2>1 DEF Closing
        <3> HIDE DEF Sent
        <3>3. \E new \in Seq(Unit) :
                /\ tx' = tx \o new /\ Whole(new)
                /\ FramesIn(OnWire(new)) = {first, last} \union Items(each)
                /\ ItemsFirst(FramesOf(OnWire(new)))
            BY <1>1, <2>1, <2>2, <2>3, <3>1, <3>2, AnswerFits
        <3> QED BY <3>3 DEF Sent
    <2>5. Expected(cmd, {first, last} \union Items(each))
        BY <1>7, <2>1, <2>3 DEF Expected, AnswerTo, AskedBy, Item
    <2>6. HasAll(cmd, {first, last} \union Items(each))
        BY <1>7, <2>3 DEF HasAll, AskedBy, Item
    <2> QED BY <2>4, <2>5, <2>6
<1>8. ASSUME cmd.name = "state", HandleGetState(request)
      PROVE  \E frames : Sent(frames) /\ Expected(cmd, frames) /\ HasAll(cmd, frames)
    <2> DEFINE first == Server("STATE_BEGIN", request, NoValue, NoValue, revision)
               last == Server("STATE_END", request, NoValue, NoValue, revision)
               each == ForEachParam("STATE_PARAM", request)
    <2>1. /\ first \in ServerFrame /\ last \in ServerFrame
          /\ first.type = "STATE_BEGIN" /\ last.type = "STATE_END"
        BY <1>1, <1>2 DEF Server, ServerFrame, ServerType, FrameValue
    <2>2. Enqueue(<<first>> \o each \o <<last>>)
        BY <1>8 DEF HandleGetState
    <2>3. /\ each \in Seq(ServerFrame) /\ Len(each) = Len(Registry)
          /\ \A n \in 1..Len(each) : each[n].type = "STATE_PARAM"
          /\ \A f \in Items(each) : f.type = "STATE_PARAM" /\ f.param \in Param
          /\ \A p \in Param : \E f \in Items(each) : f.type = "STATE_PARAM" /\ f.param = p
        BY <1>6
    <2> HIDE DEF first, last, each
    <2>4. Sent({first, last} \union Items(each))
        <3>1. Len(tx) + (Size(first.type) + Len(each) * Size("STATE_PARAM") + Size(last.type))
                < TxCapacity
            BY <1>5, <2>1, <2>3 DEF L
        <3>2. /\ "STATE_PARAM" \in {"CAPS_PARAM", "STATE_PARAM"}
              /\ first.type \in {"CAPS_BEGIN", "STATE_BEGIN"} /\ last.type \in Closing
            BY <2>1 DEF Closing
        <3> HIDE DEF Sent
        <3>3. \E new \in Seq(Unit) :
                /\ tx' = tx \o new /\ Whole(new)
                /\ FramesIn(OnWire(new)) = {first, last} \union Items(each)
                /\ ItemsFirst(FramesOf(OnWire(new)))
            BY <1>1, <2>1, <2>2, <2>3, <3>1, <3>2, AnswerFits
        <3> QED BY <3>3 DEF Sent
    <2>5. Expected(cmd, {first, last} \union Items(each))
        BY <1>8, <2>1, <2>3 DEF Expected, AnswerTo, AskedBy, Item
    <2>6. HasAll(cmd, {first, last} \union Items(each))
        BY <1>8, <2>3 DEF HasAll, AskedBy, Item
    <2> QED BY <2>4, <2>5, <2>6
<1>9. ASSUME cmd.name = "get", HandleGetParam(request)
      PROVE  \E frames : Sent(frames) /\ Expected(cmd, frames) /\ HasAll(cmd, frames)
    <2> DEFINE f == Server("PARAM_VALUE", request, cmd.param, values[cmd.param], revision)
               one == <<f>>
               level == [n \in 0..1 |-> IF n = 0 THEN L ELSE L + Size("PARAM_VALUE")]
    <2>1. f \in ServerFrame /\ f.type = "PARAM_VALUE" /\ f.param = cmd.param
        <3>1. cmd.param \in Param /\ values[cmd.param] \in Value
            BY <1>1, <1>2, <1>9
        <3> QED BY <1>1, <1>2, <3>1 DEF Server, ServerFrame, ServerType, FrameValue
    <2>2. Enqueue(one)
        <3>1. request.value \notin RejectCode /\ request.param = cmd.param
            BY <1>2, <1>9, SessionAssumption
        <3> QED BY <1>9, <3>1 DEF HandleGetParam
    <2> HIDE DEF f
    <2>3. /\ one \in Seq(ServerFrame) /\ Len(one) = 1 /\ Items(one) = {f}
          /\ \A n \in 1..1 : one[n] = f
        BY <2>1 DEF Items
    <2> HIDE DEF one
    <2>4. ItemsFirst(one) /\ \A n \in 1..1 : Critical(one[n])
        BY <2>1, <2>3, OneIsFirst DEF Critical
    <2>5. /\ \A n \in 0..1 : level[n] \in Nat
          /\ level[0] = L /\ level[1] = L + Size("PARAM_VALUE")
        BY SMTT(60), <1>1, SessionAssumption DEF ServerType
    <2>6. \A n \in 1..1 : level[n] = level[n - 1] + Size(one[n].type) /\ level[n] < TxCapacity
        BY <1>5, <2>1, <2>3, <2>5
    <2> HIDE DEF level
    <2>7. Sent({f})
        BY <1>1, <2>2, <2>3, <2>4, <2>5, <2>6, EnqueueFits DEF L
    <2>8. Expected(cmd, {f}) /\ HasAll(cmd, {f})
        BY <1>9, <2>1 DEF Expected, HasAll, AnswerTo, AskedBy, Item
    <2> QED BY <2>7, <2>8
<1>10. \E frames : Sent(frames) /\ Expected(cmd, frames) /\ HasAll(cmd, frames)
    BY <1>4, <1>7, <1>8, <1>9
<1> QED BY <1>3, <1>10

(* A heartbeat, or none: its limit may be reached, or its time not.         *)
LEMMA BeatSent ==
    ASSUME CliTypeOK, NEW ms, Tick(ms)
    PROVE  \E new \in Seq(Unit) :
              /\ tx' = tx \o new /\ Whole(new) /\ Len(new) <= Size("HEARTBEAT")
              /\ FramesIn(OnWire(new)) \subseteq {Notification("HEARTBEAT")}
<1> DEFINE x == Notification("HEARTBEAT")
           one == <<x>>
<1>1. tx \in Seq(Unit) /\ stale \subseteq Param \union {NoValue}
    BY DEF CliTypeOK, SessionTypeOK
<1>2. x \in ServerFrame /\ x.type = "HEARTBEAT"
    BY DEF Notification, Reply, Server, ServerFrame, ServerType, FrameValue
<1>3. Enqueue(<<>>) \/ Enqueue(one)
    BY DEF Tick
<1> HIDE DEF x
<1>4. tx' = tx \/ tx' = tx \o Units(x)
    <2>1. ASSUME Enqueue(<<>>) PROVE tx' = tx
        <3>1. <<>> \in Seq(ServerFrame) /\ Len(<<>>) = 0
            BY EmptySeq
        <3>2. PICK ring \in [0..Len(<<>>) -> Ring] :
                ring[0] = [tx |-> tx, stale |-> stale] /\ tx' = ring[Len(<<>>)].tx
            BY <1>1, <2>1, <3>1, EnqueueRings
        <3> QED BY <3>1, <3>2
    <2>2. ASSUME Enqueue(one) PROVE tx' = tx \/ tx' = tx \o Units(x)
        <3>1. one \in Seq(ServerFrame) /\ Len(one) = 1 /\ one[1] = x
            BY <1>2
        <3> HIDE DEF one
        <3>2. PICK ring \in [0..1 -> Ring] :
                /\ ring[0] = [tx |-> tx, stale |-> stale]
                /\ \A n \in 1..1 : ring[n] = EnqueueOne(ring[n - 1], one[n])
                /\ tx' = ring[1].tx
            BY <1>1, <2>2, <3>1, EnqueueRings
        <3>3. ring[0] \in Ring /\ ring[1] = EnqueueOne(ring[0], x)
            BY <3>1, <3>2
        <3>4. ring[1].tx = ring[0].tx \/ ring[1].tx = ring[0].tx \o Units(x)
            BY <1>2, <3>3, EnqueueOneCases
        <3> QED BY <3>2, <3>4
    <2> QED BY <1>3, <2>1, <2>2
<1>5. Size("HEARTBEAT") \in Nat
    BY SessionAssumption DEF ServerType
<1>6. CASE tx' = tx
    <2>1. <<>> \in Seq(Unit) /\ tx' = tx \o <<>> /\ Len(<<>>) = 0
        BY <1>1, <1>6, ConcatEmptySeq, EmptySeq
    <2>2. Whole(<<>>)
        BY DEF Whole, Chained
    <2>3. FramesIn(OnWire(<<>>)) \subseteq {Notification("HEARTBEAT")}
        BY DEF FramesIn, OnWire
    <2>4. Len(<<>>) <= Size("HEARTBEAT")
        BY <1>5, <2>1
    <2> QED BY Zenon, <2>1, <2>2, <2>3, <2>4
<1>7. CASE tx' = tx \o Units(x)
    <2> DEFINE u == Units(x)
    <2>1. /\ u \in Seq(Unit) /\ Whole(u) /\ FramesIn(u) = {x} /\ Len(u) = Size("HEARTBEAT")
          /\ tx' = tx \o u
        BY <1>2, <1>7, WholeFrame, UnitsOfFrame
    <2> HIDE DEF u
    <2>2. FramesIn(OnWire(u)) = {x}
        BY <2>1, FramesOnWire
    <2> QED BY <1>5, <2>1, <2>2 DEF x
<1> QED BY <1>4, <1>6, <1>7

-----------------------------------------------------------------------------
(* Every step keeps it *)

LEMMA RestStays ==
    ASSUME WholeIInv, QueryOK', UNCHANGED <<pc, cmd, out, report>>, clean' => clean,
           beats' \in 0..MaxBeats
    PROVE  WholeIInv'
<1>1. PrintOK'
    BY DEF WholeIInv, PrintOK, Query
<1>2. CleanAnswersWhole'
    BY DEF WholeIInv, CleanAnswersWhole
<1> QED BY <1>1, <1>2 DEF WholeIInv

LEMMA CleanRequest ==
    ASSUME WholeIInv, P4Read
    PROVE  WholeIInv'
<1>1. /\ up # <<>> /\ parsed = <<>> /\ parsed' = <<Head(up)>> /\ up' = Tail(up)
      /\ inflight' = {}
      /\ UNCHANGED <<tx, line, pc, cmd, seq, buf, batch, expired, out, clean, report, beats>>
    BY DEF P4Read, readVars, ghostVars, boundVars
<1>2. QueryOK'
    <2> SUFFICES ASSUME Reading', Query'
                 PROVE  /\ Whole(Coming') /\ Undamaged(Coming') /\ Expected(cmd', Given')
                        /\ Waiting'
        BY DEF QueryOK
    <2>1. Received' = Received /\ Coming' = Coming /\ Reading /\ Query
        BY <1>1 DEF Received, Coming, Reading, Query
    <2>2. Given' = Given
        BY <2>1 DEF Given
    <2>3. Whole(Coming) /\ Undamaged(Coming) /\ Expected(cmd, Given) /\ (Waiting \/ Answered)
        BY <2>1 DEF WholeIInv, QueryOK
    <2>4. Waiting /\ up = <<Request(cmd, 1)>>
        BY <1>1, <2>3 DEF Waiting, Answered
    <2>5. parsed' = <<Request(cmd, 1)>> /\ up' = <<>>
        BY <1>1, <2>4
    <2>6. Waiting'
        BY <1>1, <2>2, <2>4, <2>5 DEF Waiting
    <2> QED BY <1>1, <2>1, <2>2, <2>3, <2>6
<1>3. beats' \in 0..MaxBeats
    BY <1>1 DEF WholeIInv
<1> QED BY <1>1, <1>2, <1>3, RestStays

LEMMA CleanFault ==
    ASSUME WholeIInv, LoseRequest \/ TransmitFaulty
    PROVE  WholeIInv'
<1>1. ~clean' /\ UNCHANGED <<pc, cmd, out, report, beats>>
    BY DEF LoseRequest, TransmitFaulty, readVars
<1>2. QueryOK'
    BY <1>1 DEF QueryOK, Query
<1>3. beats' \in 0..MaxBeats
    BY <1>1 DEF WholeIInv
<1> QED BY <1>1, <1>2, <1>3, RestStays

(* What comes last comes after nothing that ends an answer, or is a beat.   *)
LEMMA StreamGrows ==
    ASSUME CliTypeOK, NEW more \in Seq(ServerFrame), ItemsFirst(Stream), ItemsFirst(more),
           OnlyBeats(Given) \/ OnlyBeats(Items(more))
    PROVE  ItemsFirst(Stream \o more)
<1>1. Stream \in Seq(ServerFrame) /\ Items(Stream) = Given
    BY StreamTypes
<1>2. Before(Given, Items(more))
    BY DEF Before, OnlyBeats, Closing, Item
<1> QED BY <1>1, <1>2, ItemsFirstJoined

LEMMA CleanHandle ==
    ASSUME CliTypeOK, CliTypeOK', WholeIInv, P4Handle
    PROVE  WholeIInv'
<1>1. /\ HandleFrame /\ parsed # <<>>
      /\ UNCHANGED <<up, line, pc, cmd, seq, buf, batch, expired, out, clean, report, beats>>
    BY HandleFramePops DEF P4Handle, lineVars, readVars, boundVars
<1>2. QueryOK'
    <2> SUFFICES ASSUME Reading', Query'
                 PROVE  /\ Whole(Coming') /\ Undamaged(Coming') /\ Expected(cmd', Given')
                        /\ Answered'
        BY DEF QueryOK
    <2>1. Reading /\ Query /\ cmd \in Command
        BY <1>1 DEF Reading, Query, CliTypeOK
    <2>2. Whole(Coming) /\ Undamaged(Coming) /\ Expected(cmd, Given) /\ (Waiting \/ Answered)
        BY <2>1 DEF WholeIInv, QueryOK
    <2>3. /\ up = <<>> /\ parsed = <<Request(cmd, 1)>> /\ inflight = {} /\ ~expired
          /\ OnlyBeats(Given) /\ Len(tx) <= beats * Size("HEARTBEAT")
        BY <1>1, <2>2 DEF Waiting, Answered
    <2>4. PICK new \in Seq(Unit) :
            /\ tx' = tx \o new /\ Whole(new) /\ ItemsFirst(FramesOf(OnWire(new)))
            /\ Expected(cmd, FramesIn(OnWire(new))) /\ HasAll(cmd, FramesIn(OnWire(new)))
        BY <1>1, <2>1, <2>3, AnswerSent DEF WholeIInv, Query
    <2>5. parsed' = <<>>
        BY <1>1, <2>1, <2>3, AnswerSent DEF WholeIInv, Query
    <2> DEFINE d == OnWire(new)
    <2>6. /\ FramesOf(d) \in Seq(ServerFrame) /\ Whole(Coming') /\ Undamaged(Coming')
          /\ Given' = Given \union FramesIn(d) /\ Stream' = Stream \o FramesOf(d)
        BY <1>1, <2>2, <2>4, SendMoves
    <2> HIDE DEF d
    <2>7. Expected(cmd, Given') /\ HasAll(cmd, Given')
        BY <2>2, <2>4, <2>6 DEF Expected, HasAll, d
    <2>8. ItemsFirst(Stream')
        <3>1. Stream \in Seq(ServerFrame) /\ Items(Stream) = Given
            BY StreamTypes
        <3>2. ItemsFirst(Stream)
            BY <2>3, <3>1, OneIsFirst DEF OnlyBeats
        <3> QED BY <2>3, <2>4, <2>6, <3>2, StreamGrows DEF d
    <2>9. Answered'
        BY <1>1, <2>3, <2>5, <2>7, <2>8 DEF Answered, Stream
    <2> QED BY <1>1, <2>6, <2>7, <2>9
<1>3. beats' \in 0..MaxBeats
    BY <1>1 DEF WholeIInv
<1> QED BY <1>1, <1>2, <1>3, RestStays

LEMMA CleanTransmit ==
    ASSUME CliTypeOK, CliTypeOK', WholeIInv, Transmit
    PROVE  WholeIInv'
<1>1. UNCHANGED <<up, parsed, inflight, pc, cmd, seq, buf, batch, expired, out, clean,
                  report, beats>>
    BY DEF Transmit, TakeTx, readVars, ghostVars, boundVars
<1>2. QueryOK'
    <2> SUFFICES ASSUME Reading', Query'
                 PROVE  /\ Whole(Coming') /\ Undamaged(Coming') /\ Expected(cmd', Given')
                        /\ Waiting' \/ Answered'
        BY DEF QueryOK
    <2>1. Reading /\ Query
        BY <1>1 DEF Reading, Query
    <2>2. Whole(Coming) /\ Undamaged(Coming) /\ Expected(cmd, Given) /\ (Waiting \/ Answered)
        BY <2>1 DEF WholeIInv, QueryOK
    <2>3. /\ Received' = Received /\ Coming' = Coming /\ Len(tx') <= Len(tx)
          /\ FramesIn(line') \union FramesIn(tx') \subseteq FramesIn(line) \union FramesIn(tx)
        BY <2>1, TransmitMoves
    <2>4. Given' = Given
        BY <2>3 DEF Given
    <2>5. ASSUME Waiting PROVE Waiting'
        <3>1. Len(tx') <= beats' * Size("HEARTBEAT")
            <4> DEFINE x == beats * Size("HEARTBEAT")
            <4>1. Len(tx) \in Nat /\ Len(tx') \in Nat /\ x \in Nat
                <5>1. beats \in Nat /\ Size("HEARTBEAT") \in Nat
                    BY SessionAssumption, RoomAssumption DEF WholeIInv, ServerType
                <5>2. tx \in Seq(Unit) /\ tx' \in Seq(Unit)
                    BY DEF CliTypeOK, SessionTypeOK
                <5>3. x \in Nat
                    BY <5>1, FewerRounds
                <5> QED BY <5>2, <5>3, LenProperties
            <4>2. Len(tx) <= x
                BY <2>5 DEF Waiting
            <4> HIDE DEF x
            <4>3. Len(tx') <= x
                BY <2>3, <4>1, <4>2
            <4> QED BY <1>1, <4>3 DEF x
        <3> QED BY <1>1, <2>4, <2>5, <3>1 DEF Waiting
    <2>6. ASSUME Answered PROVE Answered'
        BY <1>1, <2>3, <2>4, <2>6 DEF Answered, OnlyBeats
    <2> QED BY <1>1, <2>2, <2>3, <2>4, <2>5, <2>6
<1>3. beats' \in 0..MaxBeats
    BY <1>1 DEF WholeIInv
<1> QED BY <1>1, <1>2, <1>3, RestStays

LEMMA CleanTick ==
    ASSUME CliTypeOK, CliTypeOK', WholeIInv, P4Tick
    PROVE  WholeIInv'
<1>1. /\ Tick(HeartbeatInterval) /\ beats < MaxBeats /\ beats' = beats + 1 /\ parsed = <<>>
      /\ UNCHANGED <<up, line, parsed, inflight, pc, cmd, seq, buf, batch, expired, out,
                     clean, report>>
    BY DEF P4Tick, Tick, lineVars, readVars, ghostVars
<1>2. beats \in Nat /\ beats' \in 0..MaxBeats
    BY <1>1, RoomAssumption DEF WholeIInv
<1>3. QueryOK'
    <2> SUFFICES ASSUME Reading', Query'
                 PROVE  /\ Whole(Coming') /\ Undamaged(Coming') /\ Expected(cmd', Given')
                        /\ Waiting' \/ Answered'
        BY DEF QueryOK
    <2>1. Reading /\ Query
        BY <1>1 DEF Reading, Query
    <2>2. Whole(Coming) /\ Undamaged(Coming) /\ Expected(cmd, Given) /\ (Waiting \/ Answered)
        BY <2>1 DEF WholeIInv, QueryOK
    <2>3. PICK new \in Seq(Unit) :
            /\ tx' = tx \o new /\ Whole(new) /\ Len(new) <= Size("HEARTBEAT")
            /\ FramesIn(OnWire(new)) \subseteq {Notification("HEARTBEAT")}
        BY <1>1, BeatSent
    <2> DEFINE d == OnWire(new)
    <2>4. /\ d \in Seq(LineUnit) /\ FramesOf(d) \in Seq(ServerFrame)
          /\ Whole(Coming') /\ Undamaged(Coming')
          /\ Received' = Received
          /\ Given' = Given \union FramesIn(d) /\ Stream' = Stream \o FramesOf(d)
        BY <1>1, <2>2, <2>3, SendMoves
    <2>5. \A f \in FramesIn(d) : f.type = "HEARTBEAT"
        BY <2>3 DEF Notification, Reply, Server
    <2>6. FramesIn(tx') = FramesIn(tx) \union FramesIn(d)
        <3>1. tx \in Seq(Unit) /\ FramesIn(d) = FramesIn(new)
            BY FramesOnWire DEF CliTypeOK, SessionTypeOK
        <3> HIDE DEF d
        <3> QED BY <2>3, <3>1, FramesInJoined
    <2> HIDE DEF d
    <2>7. Expected(cmd, Given')
        BY <2>2, <2>4, <2>5 DEF Expected
    <2>8. ASSUME Waiting PROVE Waiting'
        <3>1. Len(tx') <= beats' * Size("HEARTBEAT")
            <4> DEFINE h == Size("HEARTBEAT")
                       x == beats * h
            <4>1. h \in Nat
                BY SessionAssumption DEF ServerType
            <4>2. Len(tx) <= x /\ Len(new) <= h
                BY <2>3, <2>8 DEF Waiting
            <4>3. tx \in Seq(Unit)
                BY DEF CliTypeOK, SessionTypeOK
            <4>4. Len(tx) \in Nat /\ Len(new) \in Nat /\ Len(tx') = Len(tx) + Len(new)
                BY <2>3, <4>3, Joined
            <4> HIDE DEF h
            <4>5. x \in Nat /\ (beats + 1) * h = x + h
                BY <1>2, <4>1, FewerRounds
            <4> HIDE DEF x
            <4>6. Len(tx') <= x + h
                BY <4>1, <4>2, <4>4, <4>5
            <4> QED BY <1>1, <4>5, <4>6 DEF h
        <3> QED BY <1>1, <2>4, <2>5, <2>8, <3>1 DEF Waiting, OnlyBeats
    <2>9. ASSUME Answered PROVE Answered'
        <3>1. ItemsFirst(Stream')
            <4>1. Items(FramesOf(d)) = FramesIn(d)
                BY <2>4, FramesAreItems
            <4>2. ItemsFirst(FramesOf(d)) /\ OnlyBeats(Items(FramesOf(d)))
                BY <2>5, <4>1, OneIsFirst DEF OnlyBeats
            <4>3. ItemsFirst(Stream)
                BY <2>9 DEF Answered, Stream
            <4> QED BY <2>4, <4>2, <4>3, StreamGrows
        <3>2. HasAll(cmd, Given')
            BY <2>4, <2>9 DEF Answered, HasAll
        <3> QED BY <1>1, <2>5, <2>6, <2>9, <3>1, <3>2 DEF Answered, OnlyBeats, Stream
    <2> QED BY <1>1, <2>2, <2>4, <2>7, <2>8, <2>9
<1> QED BY <1>1, <1>2, <1>3, RestStays

LEMMA CleanRead ==
    ASSUME CliTypeOK, WholeIInv, ReadFull \/ ReadTimeout
    PROVE  WholeIInv'
<1>1. \E n \in 0..Len(line) : Read(n) /\ (ReadTimeout => n = Len(line))
    <2>1. Len(line) \in Nat /\ Chunk \in Nat
        BY CliAssumption, LenProperties DEF CliTypeOK
    <2>2. CASE ReadTimeout
        <3>1. Len(line) \in 0..Len(line) /\ Read(Len(line))
            BY <2>1, <2>2 DEF ReadTimeout
        <3> QED BY <3>1
    <2>3. CASE ReadFull /\ ~ReadTimeout
        <3>1. Chunk \in 0..Len(line) /\ Read(Chunk)
            BY <2>1, <2>3 DEF ReadFull
        <3> QED BY <2>3, <3>1
    <2> QED BY <2>2, <2>3
<1>2. PICK n \in 0..Len(line) : Read(n) /\ (ReadTimeout => n = Len(line))
    BY <1>1
<1>3. /\ pc = "read" /\ pc' = "feed"
      /\ buf' = buf \o SubSeq(line, 1, n) /\ line' = SubSeq(line, n + 1, Len(line))
      /\ UNCHANGED <<sessionVars, up, cmd, seq, out, clean, report, beats>>
    BY <1>2 DEF Read, ghostVars, boundVars
<1>4. Received' = Received /\ Coming' = Coming
    BY <1>2, ReadMoves
<1>5. QueryOK'
    <2> SUFFICES ASSUME Reading', Query'
                 PROVE  /\ Whole(Coming') /\ Undamaged(Coming') /\ Expected(cmd', Given')
                        /\ Waiting' \/ Answered'
        BY DEF QueryOK
    <2>1. Reading /\ Query
        BY <1>3 DEF Reading, Query
    <2>2. Whole(Coming) /\ Undamaged(Coming) /\ Expected(cmd, Given) /\ (Waiting \/ Answered)
        BY <2>1 DEF WholeIInv, QueryOK
    <2>3. Given' = Given
        BY <1>4 DEF Given
    <2>4. CASE ReadFull
        <3>1. ~expired'
            BY <2>4 DEF ReadFull
        <3>2. Waiting => Waiting'
            BY <1>3, <2>3, <3>1 DEF Waiting, sessionVars
        <3>3. Answered => Answered'
            BY <1>3, <1>4, <2>3, <3>1 DEF Answered, sessionVars
        <3> QED BY <1>3, <1>4, <2>2, <2>3, <3>2, <3>3
    <2>5. CASE ReadTimeout
        <3>1. up = <<>> /\ parsed = <<>> /\ tx = <<>>
            BY <2>5 DEF ReadTimeout, P4Quiet
        <3>2. Answered
            BY <2>2, <3>1 DEF Waiting
        <3>3. line' = <<>> /\ FramesIn(line') = {} /\ FramesIn(tx') = {}
            <4>1. Len(line) \in Nat /\ line' = SubSeq(line, Len(line) + 1, Len(line))
                BY <1>2, <1>3, <2>5, LenProperties DEF CliTypeOK
            <4>2. line' = <<>>
                BY <4>1, SubSeqEmpty
            <4>3. tx' = <<>>
                BY <1>3, <3>1 DEF sessionVars
            <4>4. FramesIn(<<>>) = {}
                BY DEF FramesIn
            <4> QED BY ONLY <4>2, <4>3, <4>4
        <3>4. Coming' = buf'
            <4>1. OnWire(tx') = <<>>
                BY <1>3, <3>1 DEF OnWire, sessionVars
            <4>2. Coming' = buf' \o (<<>> \o <<>>)
                BY <1>3, <3>3, <4>1 DEF Coming, Reading
            <4>3. buf' \in Seq(LineUnit)
                BY <1>2, <1>3, SplitAt, Joined DEF CliTypeOK
            <4>4. \A s \in Seq(LineUnit) : s \o (<<>> \o <<>>) = s
                BY ConcatEmptySeq
            <4> QED BY <4>2, <4>3, <4>4
        <3>5. Whole(buf')
            BY <1>4, <2>2, <3>4
        <3>6. Answered'
            BY <1>3, <1>4, <2>3, <3>2, <3>3, <3>5 DEF Answered, OnlyBeats, sessionVars
        <3> QED BY <1>3, <1>4, <2>2, <2>3, <3>6
    <2> QED BY <2>4, <2>5
<1> QED BY <1>3, <1>5 DEF WholeIInv, PrintOK, CleanAnswersWhole

LEMMA CleanParse ==
    ASSUME CliTypeOK, CliTypeOK', WholeIInv, TryParse
    PROVE  WholeIInv'
<1>1. /\ pc = "feed" /\ pc' = "feed"
      /\ UNCHANGED <<sessionVars, up, line, pc, cmd, seq, expired, out, clean, report, beats>>
    BY DEF TryParse, lineVars, ghostVars, boundVars
<1>2. QueryOK'
    <2> SUFFICES ASSUME Reading', Query'
                 PROVE  /\ Whole(Coming') /\ Undamaged(Coming') /\ Expected(cmd', Given')
                        /\ Waiting' \/ Answered'
        BY DEF QueryOK
    <2>1. Reading /\ Query
        BY <1>1 DEF Reading, Query
    <2>2. Whole(Coming) /\ Undamaged(Coming) /\ Expected(cmd, Given) /\ (Waiting \/ Answered)
        BY <2>1 DEF WholeIInv, QueryOK
    <2>3. /\ Whole(Coming') /\ Undamaged(Coming') /\ Given' = Given
          /\ ItemsFirst(Stream) => ItemsFirst(Stream')
          /\ Whole(buf) => Whole(buf')
        BY <2>2, ParseMoves
    <2>4. Waiting => Waiting'
        BY <1>1, <2>3 DEF Waiting, sessionVars
    <2>5. Answered => Answered'
        BY <1>1, <2>3 DEF Answered, Stream, sessionVars
    <2> QED BY <1>1, <2>2, <2>3, <2>4, <2>5
<1>3. beats' \in 0..MaxBeats
    BY <1>1 DEF WholeIInv
<1> QED BY <1>1, <1>2, <1>3, RestStays

LEMMA CleanParseNone ==
    ASSUME CliTypeOK, WholeIInv, TryParseNone
    PROVE  WholeIInv'
<1>1. /\ pc = "feed" /\ pc' = "filter"
      /\ UNCHANGED <<sessionVars, up, line, cmd, seq, expired, out, clean, report, beats>>
    BY DEF TryParseNone, lineVars, ghostVars, boundVars
<1>2. QueryOK'
    <2> SUFFICES ASSUME Reading', Query'
                 PROVE  /\ Whole(Coming') /\ Undamaged(Coming') /\ Expected(cmd', Given')
                        /\ Waiting' \/ Answered'
        BY DEF QueryOK
    <2>1. Reading /\ Query
        BY <1>1 DEF Reading, Query
    <2>2. Whole(Coming) /\ Undamaged(Coming) /\ Expected(cmd, Given) /\ (Waiting \/ Answered)
        BY <2>1 DEF WholeIInv, QueryOK
    <2>3. Received' = Received /\ Coming' = Coming /\ (Whole(buf) => buf' = <<>>)
        BY <2>2, ParseNoneMoves
    <2>4. Given' = Given
        BY <2>3 DEF Given
    <2>5. Waiting => Waiting'
        BY <1>1, <2>4 DEF Waiting, sessionVars
    <2>6. Answered => Answered'
        BY <1>1, <2>3, <2>4 DEF Answered, sessionVars
    <2> QED BY <1>1, <2>2, <2>3, <2>4, <2>5, <2>6
<1> QED BY <1>1, <1>2 DEF WholeIInv, PrintOK, CleanAnswersWhole

(* Nothing that was asked for comes after the frame that ends the answer,  *)
(* or, when a read has timed out, is still to come.                         *)
LEMMA CleanFilter ==
    ASSUME CliTypeOK, WholeIInv, Filter
    PROVE  WholeIInv'
<1> DEFINE ended == \E i \in 1..Len(batch) : Ends(batch[i])
           c == Coming
<1>1. /\ pc = "filter" /\ out' = out \o UpToEnd(batch)
      /\ pc' = IF ended \/ expired THEN "print" ELSE "read"
      /\ UNCHANGED <<sessionVars, up, line, cmd, seq, buf, batch, expired, clean, report,
                     beats>>
    BY DEF Filter, lineVars, ghostVars, boundVars
<1>2. /\ out \in Seq(ServerFrame) /\ batch \in Seq(ServerFrame) /\ c \in Seq(LineUnit)
      /\ Received = out \o batch
    BY <1>1, InPlayTypes DEF CliTypeOK, Received
<1>3. PICK kept \in Seq(ServerFrame), rest \in Seq(ServerFrame) :
        /\ UpToEnd(batch) = kept /\ batch = kept \o rest
        /\ ended => kept # <<>> /\ Ends(kept[Len(kept)])
        /\ ~ended => kept = batch
    BY <1>2, UpToEndIs
<1> HIDE DEF ended
<1>4. /\ out' = out \o kept /\ out' \in Seq(ServerFrame)
      /\ Items(out') = Items(out) \union Items(kept)
      /\ Items(batch) = Items(kept) \union Items(rest)
      /\ Items(Received) = Items(out) \union Items(batch)
    <2>1. out' = out \o kept
        BY <1>1, <1>3
    <2>2. /\ (out \o kept) \in Seq(ServerFrame)
          /\ Items(out \o kept) = Items(out) \union Items(kept)
        BY ONLY <1>2, <1>3, Joined, FramesInJoined
    <2>3. Items(kept \o rest) = Items(kept) \union Items(rest)
        BY ONLY <1>3, FramesInJoined
    <2>4. Items(out \o batch) = Items(out) \union Items(batch)
        BY ONLY <1>2, FramesInJoined
    <2> QED BY ONLY <1>2, <1>3, <2>1, <2>2, <2>3, <2>4
<1>5. Given = Items(out') \union Items(rest) \union FramesIn(c)
    BY <1>4 DEF Given
<1> HIDE DEF c
<1>6. ASSUME Query
      PROVE  /\ Whole(Coming) /\ Undamaged(Coming) /\ Expected(cmd, Given)
             /\ Waiting \/ Answered
    BY <1>1, <1>6 DEF WholeIInv, QueryOK, Reading
<1>7. ASSUME Query, ended
      PROVE  Answered /\ \E f \in Items(out') : f.type \in Closing
    <2> DEFINE e == kept[Len(kept)]
    <2>1. e \in Items(kept) /\ Ends(e)
        <3>1. Len(kept) \in 1..Len(kept)
            BY <1>3, <1>7, LenProperties, EmptySeq
        <3> QED BY <1>3, <1>7, <3>1 DEF Items
    <2> HIDE DEF e
    <2>2. e \in Given /\ e \in Items(out')
        BY <1>4, <1>5, <2>1
    <2>3. e.type \in Closing
        BY <1>6, <1>7, <2>1, <2>2 DEF Expected, AnswerTo, Ends, Closing, Query
    <2>4. ~Waiting
        BY <2>2, <2>3 DEF Waiting, OnlyBeats, Closing
    <2> QED BY <1>6, <1>7, <2>2, <2>3, <2>4
<1>8. QueryOK'
    <2> SUFFICES ASSUME Reading', Query'
                 PROVE  /\ Whole(Coming') /\ Undamaged(Coming') /\ Expected(cmd', Given')
                        /\ Waiting' \/ Answered'
        BY DEF QueryOK
    <2>1. pc' = "read" /\ ~ended /\ ~expired /\ Query
        BY <1>1 DEF Reading, Query
    <2>2. Received' = Received /\ Coming' = Coming
        BY <1>1, <1>2, <1>3, <2>1 DEF Received, Coming, Reading, sessionVars
    <2>3. Given' = Given
        BY <2>2 DEF Given
    <2>4. Waiting => Waiting'
        BY <1>1, <2>3 DEF Waiting, sessionVars
    <2>5. Answered => Answered'
        BY <1>1, <2>1, <2>2, <2>3 DEF Answered, sessionVars
    <2> QED BY <1>1, <1>6, <2>1, <2>2, <2>3, <2>4, <2>5
<1>9. PrintOK'
    <2> SUFFICES ASSUME Query, ended \/ expired
                 PROVE  Expected(cmd, Items(out')) /\ HasAll(cmd, Items(out'))
        BY <1>1 DEF PrintOK, Query
    <2>1. Expected(cmd, Items(out'))
        BY <1>5, <1>6 DEF Expected
    <2>2. Answered
        BY <1>6, <1>7 DEF Waiting
    <2>3. CASE ended
        <3> DEFINE fc == FramesOf(c)
                   o == out'
        <3>1. fc \in Seq(ServerFrame) /\ Items(fc) = FramesIn(c)
            BY <1>2, FramesOfUnits, FramesAreItems
        <3>2. ItemsFirst((out \o batch) \o fc)
            BY <1>2, <2>2 DEF Answered, c
        <3>3. o \in Seq(ServerFrame) /\ out \o batch = o \o rest
            <4>1. (out \o kept) \o rest = out \o (kept \o rest)
                BY ONLY SMTT(30), <1>2, <1>3, ConcatAssociative
            <4> QED BY <1>3, <1>4, <4>1
        <3> HIDE DEF fc, o
        <3> DEFINE rc == rest \o fc
        <3>4. (o \o rest) \o fc = o \o rc /\ rc \in Seq(ServerFrame)
              /\ Items(rc) = Items(rest) \union Items(fc)
            <4>1. o \in Seq(ServerFrame) /\ rest \in Seq(ServerFrame) /\ fc \in Seq(ServerFrame)
                BY <1>3, <3>1, <3>3
            <4> QED BY ONLY <4>1, SeqParts
        <3> HIDE DEF rc
        <3>5. Before(Items(o), Items(rc))
            BY <3>2, <3>3, <3>4, ItemsFirstJoined
        <3>6. \A g \in Items(rest) \union FramesIn(c) : g.type \notin Item
            BY <1>7, <2>3, <3>1, <3>4, <3>5 DEF Before, o
        <3> QED BY <1>5, <2>1, <2>2, <3>6 DEF Answered, HasAll
    <2>4. CASE ~ended
        <3>1. buf = <<>> /\ OnlyBeats(FramesIn(line) \union FramesIn(tx))
            BY <1>1, <2>2, <2>4 DEF Answered
        <3>2. FramesIn(c) = FramesIn(line) \union FramesIn(tx)
            <4> DEFINE w == OnWire(tx)
            <4>1. line \in Seq(LineUnit) /\ buf \in Seq(LineUnit) /\ w \in Seq(LineUnit)
                BY InPlayTypes DEF CliTypeOK
            <4>2. FramesIn(w) = FramesIn(tx)
                BY FramesOnWire DEF CliTypeOK, SessionTypeOK
            <4>3. c = buf \o (line \o w)
                BY <1>1 DEF c, Coming, Reading
            <4> HIDE DEF w
            <4>4. FramesIn(buf \o (line \o w))
                    = FramesIn(buf) \union FramesIn(line) \union FramesIn(w)
                BY ONLY <4>1, SeqParts
            <4>5. FramesIn(buf) = {}
                BY <3>1 DEF FramesIn
            <4> QED BY <4>2, <4>3, <4>4, <4>5
        <3>3. Given = Items(out') \union FramesIn(c)
            BY <1>3, <1>4, <2>4 DEF Given, c
        <3>4. \A g \in FramesIn(c) : g.type \notin Item
            BY <3>1, <3>2 DEF OnlyBeats, Item
        <3> QED BY <2>1, <2>2, <3>3, <3>4 DEF Answered, HasAll
    <2> QED BY <2>3, <2>4
<1> QED BY <1>1, <1>8, <1>9 DEF WholeIInv, CleanAnswersWhole

LEMMA CleanStart ==
    ASSUME CliTypeOK, WholeIInv, NEW command \in Command, Start(command)
    PROVE  WholeIInv'
<1>1. /\ pc = "idle" /\ pc' = IF command.name = "stress" THEN "stress" ELSE "read"
      /\ cmd' = command /\ up' = Append(up, Request(command, 1)) /\ line' = <<>>
      /\ buf' = <<>> /\ batch' = <<>> /\ expired' = FALSE /\ out' = <<>>
      /\ clean' = P4Quiet /\ UNCHANGED <<sessionVars, report, beats>>
    BY DEF Start
<1>2. QueryOK'
    <2> SUFFICES ASSUME Reading', Query'
                 PROVE  /\ Whole(Coming') /\ Undamaged(Coming') /\ Expected(cmd', Given')
                        /\ Waiting'
        BY DEF QueryOK
    <2>1. pc' = "read" /\ up = <<>> /\ parsed = <<>> /\ tx = <<>>
        BY <1>1 DEF Query, P4Quiet, Reading
    <2>2. Received' = <<>> /\ Coming' = <<>>
        <3>1. OnWire(<<>>) = <<>>
            BY DEF OnWire
        <3>2. <<>> \o (<<>> \o <<>>) = <<>>
            OBVIOUS
        <3> QED BY <1>1, <2>1, <3>1, <3>2 DEF Received, Coming, Reading, sessionVars
    <2>3. Given' = {}
        <3>1. Items(<<>>) = {} /\ FramesIn(<<>>) = {}
            BY DEF Items, FramesIn
        <3> QED BY <2>2, <3>1 DEF Given
    <2>4. Whole(Coming') /\ Undamaged(Coming')
        BY <2>2 DEF Whole, Chained, Undamaged
    <2>5. up' = <<Request(cmd', 1)>> /\ parsed' = <<>>
        <3>1. \A request : Append(<<>>, request) = <<request>>
            OBVIOUS
        <3> QED BY <1>1, <2>1, <3>1 DEF sessionVars
    <2>6. Len(tx') <= beats' * Size("HEARTBEAT")
        <3> DEFINE h == Size("HEARTBEAT")
        <3>1. h \in Nat /\ beats \in Nat
            BY SessionAssumption DEF WholeIInv, ServerType
        <3> HIDE DEF h
        <3>2. beats * h \in Nat /\ Len(<<>>) = 0
            BY <3>1
        <3> QED BY <1>1, <2>1, <3>2 DEF h, sessionVars
    <2>7. Waiting'
        BY <1>1, <2>3, <2>5, <2>6 DEF Waiting, OnlyBeats
    <2> QED BY <2>3, <2>4, <2>7 DEF Expected
<1> QED BY <1>1, <1>2 DEF WholeIInv, PrintOK, CleanAnswersWhole

LEMMA CleanKill ==
    ASSUME WholeIInv, Kill
    PROVE  WholeIInv'
BY DEF Kill, Silence, WholeIInv, QueryOK, PrintOK, CleanAnswersWhole, Reading

(* get takes the first frame that answers it, and there is one.             *)
LEMMA GetPrints ==
    ASSUME CliTypeOK, cmd.name = "get", Expected(cmd, Items(out)), HasAll(cmd, Items(out))
    PROVE  {p.param : p \in FirstAnswer("PARAM_VALUE").printed} = {cmd.param}
<1> DEFINE answers == Places({"PARAM_VALUE", "NACK", "ERROR"})
           first == out[Min(answers)]
<1>1. Len(out) \in Nat /\ answers \subseteq 1..Len(out)
    BY LenProperties DEF CliTypeOK, Places
<1>2. answers # {}
    <2>1. PICK f \in Items(out) : f.type \in Item
        BY DEF HasAll, AskedBy
    <2>2. f.type = "PARAM_VALUE"
        BY <2>1 DEF Expected, AnswerTo, Item
    <2> QED BY <2>2 DEF Items, Places
<1> HIDE DEF answers
<1>3. Min(answers) \in answers
    BY <1>1, <1>2, MinIsLeast
<1>4. first \in Items(out) /\ first.type \in {"PARAM_VALUE", "NACK", "ERROR"}
    BY <1>1, <1>3 DEF Items, Places, answers
<1> HIDE DEF first
<1>5. first.type = "PARAM_VALUE" /\ first.param = cmd.param
    BY <1>4 DEF Expected, AnswerTo, AskedBy, Item
<1>6. FirstAnswer("PARAM_VALUE").printed = {Printed(first)}
    BY <1>2, <1>5 DEF FirstAnswer, answers, first
<1>7. Printed(first).param = cmd.param
    BY <1>5 DEF Printed
<1>8. \A x : {p.param : p \in {x}} = {x.param}
    OBVIOUS
<1> QED BY ONLY <1>6, <1>7, <1>8

(* caps and state print every parameter of the answer.                      *)
LEMMA AllPrinted ==
    ASSUME cmd.name \in {"caps", "state"},
           Expected(cmd, Items(out)), HasAll(cmd, Items(out))
    PROVE  {p.param : p \in Answer.printed} = Param
<1> DEFINE item == IF cmd.name = "caps" THEN "CAPS_PARAM" ELSE "STATE_PARAM"
           places == Places({item})
<1>1. Answer.printed = {Printed(out[i]) : i \in places}
    BY DEF Answer, CapsAnswer, StateAnswer
<1>2. AskedBy(cmd) = Param
    BY DEF AskedBy
<1>3. ASSUME NEW i \in places
      PROVE  out[i].param \in Param
    <2>1. out[i] \in Items(out) /\ out[i].type = item
        BY <1>3 DEF Items, Places
    <2>2. out[i].type \in Item /\ out[i].type # "HEARTBEAT"
        BY <2>1 DEF Item
    <2> QED BY <1>2, <2>1, <2>2 DEF Expected
<1>4. ASSUME NEW p \in Param
      PROVE  \E i \in places : out[i].param = p
    <2>1. PICK f \in Items(out) : f.type \in Item /\ f.param = p
        BY <1>2 DEF HasAll
    <2>2. f.type = item
        BY <2>1 DEF Expected, AnswerTo, Item
    <2> QED BY <2>1, <2>2 DEF Items, Places
<1> HIDE DEF places
<1>5. \A i \in places : Printed(out[i]).param = out[i].param
    BY DEF Printed
<1> DEFINE printed == Answer.printed
<1>6. printed = {Printed(out[i]) : i \in places}
    BY <1>1
<1> HIDE DEF printed
<1>7. \A p \in printed : p.param \in Param
    BY ONLY <1>3, <1>5, <1>6
<1>8. \A q \in Param : \E p \in printed : p.param = q
    BY ONLY <1>4, <1>5, <1>6
<1>9. {p.param : p \in printed} = Param
    BY ONLY <1>7, <1>8
<1> QED BY <1>9 DEF printed

LEMMA CleanPrint ==
    ASSUME CliTypeOK, WholeIInv, PrintAnswer
    PROVE  WholeIInv'
<1>1. /\ pc = "print" /\ pc' = "idle" /\ UNCHANGED beats
      /\ report'.cmd = cmd /\ report'.printed = Answer.printed /\ report'.clean = clean
    BY DEF PrintAnswer, Finish, boundVars
<1>2. CleanAnswersWhole'
    <2> SUFFICES ASSUME clean, cmd.name \in {"caps", "state", "get"}
                 PROVE  /\ cmd.name \in {"caps", "state"} =>
                              {p.param : p \in Answer.printed} = Param
                        /\ cmd.name = "get" =>
                              {p.param : p \in Answer.printed} = {cmd.param}
        BY <1>1 DEF CleanAnswersWhole
    <2>1. Expected(cmd, Items(out)) /\ HasAll(cmd, Items(out))
        BY <1>1 DEF WholeIInv, PrintOK, Query
    <2>2. CASE cmd.name = "get"
        <3>1. Answer = FirstAnswer("PARAM_VALUE")
            BY <2>2 DEF Answer
        <3> QED BY <2>1, <2>2, <3>1, GetPrints
    <2>3. CASE cmd.name \in {"caps", "state"}
        BY <2>1, <2>3, AllPrinted
    <2> QED BY <2>2, <2>3
<1> QED BY <1>1, <1>2 DEF WholeIInv, QueryOK, PrintOK, Reading

LEMMA CleanStress ==
    ASSUME WholeIInv, StressSend \/ StressEnd
    PROVE  WholeIInv'
<1>1. CASE StressSend
    <2>1. pc = "stress" /\ UNCHANGED <<pc, cmd, report, beats>>
        BY <1>1 DEF StressSend, ghostVars, boundVars
    <2> QED BY <2>1 DEF WholeIInv, QueryOK, PrintOK, CleanAnswersWhole, Reading
<1>2. CASE StressEnd
    <2>1. /\ pc = "stress" /\ pc' = "idle" /\ report'.cmd = cmd /\ UNCHANGED beats
        BY <1>2 DEF StressEnd, Finish, boundVars
    <2> QED BY <2>1 DEF WholeIInv, QueryOK, PrintOK, CleanAnswersWhole, Reading
<1> QED BY <1>1, <1>2

LEMMA CleanNext ==
    ASSUME CliTypeOK, CliTypeOK', WholeIInv, [CliNext]_cliVars
    PROVE  WholeIInv'
<1>1. CASE P4Read
    BY <1>1, CleanRequest
<1>2. CASE P4Handle
    BY <1>2, CleanHandle
<1>3. CASE Transmit
    BY <1>3, CleanTransmit
<1>4. CASE LoseRequest \/ TransmitFaulty
    BY <1>4, CleanFault
<1>5. CASE P4Tick
    BY <1>5, CleanTick
<1>6. CASE Kill
    BY <1>6, CleanKill
<1>7. CASE \E command \in Command : Start(command)
    BY <1>7, CleanStart
<1>8. CASE ReadFull \/ ReadTimeout
    BY <1>8, CleanRead
<1>9. CASE TryParse
    BY <1>9, CleanParse
<1>10. CASE TryParseNone
    BY <1>10, CleanParseNone
<1>11. CASE Filter
    BY <1>11, CleanFilter
<1>12. CASE PrintAnswer
    BY <1>12, CleanPrint
<1>13. CASE StressSend \/ StressEnd
    BY <1>13, CleanStress
<1>14. CASE UNCHANGED cliVars
    <2>1. UNCHANGED <<parsed, inflight, tx, up, line, pc, cmd, buf, batch, expired, out,
                      report, clean, beats>>
        BY <1>14 DEF cliVars, sessionVars, lineVars, readVars, ghostVars, boundVars
    <2>2. Received' = Received /\ Coming' = Coming
        BY <2>1 DEF Received, Coming, Reading
    <2>3. Given' = Given
        BY <2>2 DEF Given
    <2>4. (Waiting => Waiting') /\ (Answered => Answered')
        BY <2>1, <2>2, <2>3 DEF Waiting, Answered
    <2>5. QueryOK'
        BY <2>1, <2>2, <2>3, <2>4 DEF WholeIInv, QueryOK, Query, Reading
    <2> QED BY <2>1, <2>5, RestStays DEF WholeIInv
<1> QED BY <1>1, <1>2, <1>3, <1>4, <1>5, <1>6, <1>7, <1>8, <1>9, <1>10, <1>11, <1>12,
           <1>13, <1>14 DEF CliNext, P4Step, ClientStep, Environment

(* When nothing was under way at the P4 and nothing is damaged or lost,    *)
(* caps and state print every parameter and get the one it asked for:      *)
(* until the answer is there the client is given heartbeats only, the ring *)
(* takes all of it, and no frame but its last one ends the request, unless *)
(* a read has found the line silent.                                        *)
THEOREM CleanAnswers == CliSpec => []CleanAnswersWhole
<1>1. CliInit => WholeIInv
    <2>1. 0 \in 0..MaxBeats
        BY RoomAssumption
    <2> QED BY <2>1 DEF CliInit, Silence, WholeIInv, QueryOK, PrintOK, CleanAnswersWhole, Reading
<1>2. CliIInv /\ CliIInv' /\ WholeIInv /\ [CliNext]_cliVars => WholeIInv'
    BY CleanNext DEF CliIInv
<1>3. WholeIInv => CleanAnswersWhole
    BY DEF WholeIInv
<1> QED BY <1>1, <1>2, <1>3, CliInductive, PTL DEF CliSpec
=============================================================================
