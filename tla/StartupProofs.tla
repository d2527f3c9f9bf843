---------------------------- MODULE StartupProofs ----------------------------
(* The program as a whole keeps what its command line and its configuration *)
(* keep, and ends up in the mode the user asked for: the proofs for         *)
(* CommandLine, for ConfigFile and for Startup, which composes them.        *)
EXTENDS Startup, WellFoundedInduction, TLAPS
-----------------------------------------------------------------------------
(* The elevated copy reads the arguments that were written, for any number  *)
(* of arguments of any length with any characters.                          *)

\* Taking a count of backslashes apart.
LEMMA Halves ==
    ASSUME NEW n \in Nat
    PROVE  /\ (2 * n) \div 2 = n /\ (2 * n) % 2 = 0
           /\ (2 * n + 1) \div 2 = n /\ (2 * n + 1) % 2 # 0
           /\ 0 \div 2 = 0 /\ 0 % 2 = 0
  OBVIOUS

LEMMA BackslashesType ==
    ASSUME NEW n \in Nat
    PROVE  /\ Backslashes(n) \in Seq(Char) /\ Len(Backslashes(n)) = n
           /\ \A j \in 1 .. n : Backslashes(n)[j] = "backslash"
  BY DEF Backslashes, Char

(* cur is the part of an argument that the reader has, and the h characters *)
(* after it are backslashes that were not written yet: up to here that is   *)
(* the argument.                                                            *)
Holds(a, cur, h, p) ==
    /\ a \in Argument /\ cur \in Seq(Char)
    /\ h \in Nat /\ p \in Nat
    /\ Len(cur) + h = p /\ p <= Len(a)
    /\ \A j \in 1 .. Len(cur) : cur[j] = a[j]
    /\ \A j \in Len(cur) + 1 .. p : a[j] = "backslash"

LEMMA Released ==
    ASSUME NEW a, NEW cur, NEW h, NEW p, Holds(a, cur, h, p)
    PROVE  LET all == cur \o Backslashes(h) IN
           /\ all \in Seq(Char) /\ Len(all) = p
           /\ \A j \in 1 .. p : all[j] = a[j]
  <1>1. /\ cur \in Seq(Char) /\ h \in Nat /\ p \in Nat /\ Len(cur) + h = p
        /\ \A j \in 1 .. Len(cur) : cur[j] = a[j]
        /\ \A j \in Len(cur) + 1 .. p : a[j] = "backslash"
    BY DEF Holds
  <1> DEFINE back == Backslashes(h)
  <1>2. /\ back \in Seq(Char) /\ Len(back) = h
        /\ \A j \in 1 .. h : back[j] = "backslash"
    BY <1>1, BackslashesType
  <1> HIDE DEF back
  <1>3. cur \o back \in Seq(Char) /\ Len(cur \o back) = p
    BY <1>1, <1>2
  <1>4. ASSUME NEW j \in 1 .. p
        PROVE  (cur \o back)[j] = a[j]
    <2>0. Len(cur) \in Nat /\ j \in Nat
      BY <1>1
    <2>1. CASE j <= Len(cur)
      BY <1>1, <1>2, <2>1
    <2>2. CASE j > Len(cur)
      <3>1. j - Len(cur) \in 1 .. h
        BY <1>1, <2>2
      <3>2. (cur \o back)[j] = back[j - Len(cur)]
        BY <1>1, <1>2, <2>2, <3>1
      <3>3. a[j] = "backslash"
        BY <1>1, <2>2
      <3> QED
        BY <1>2, <3>1, <3>2, <3>3
    <2>3. j <= Len(cur) \/ j > Len(cur)
      BY <2>0
    <2> QED
      BY <2>1, <2>2, <2>3, Zenon
  <1> QED
    BY <1>3, <1>4 DEF back

\* At its end the whole argument.
LEMMA ReleasedAll ==
    ASSUME NEW a, NEW cur, NEW h, Holds(a, cur, h, Len(a))
    PROVE  cur \o Backslashes(h) = a
  <1> DEFINE all == cur \o Backslashes(h)
  <1>1. /\ all \in Seq(Char) /\ Len(all) = Len(a)
        /\ \A j \in 1 .. Len(a) : all[j] = a[j]
    BY Released
  <1>2. a \in Seq(Char)
    BY DEF Holds, Argument
  <1> HIDE DEF all
  <1>3. all = a
    BY <1>1, <1>2
  <1> QED
    BY <1>3 DEF all

\* A backslash is held back.
LEMMA HoldBackslash ==
    ASSUME NEW a, NEW cur, NEW h, NEW p, Holds(a, cur, h, p),
           p < Len(a), a[p + 1] = "backslash"
    PROVE  Holds(a, cur, h + 1, p + 1)
  BY DEF Holds, Argument

\* Any other character goes out after what was held.
LEMMA PutCharacter ==
    ASSUME NEW a, NEW cur, NEW h, NEW p, Holds(a, cur, h, p), p < Len(a)
    PROVE  Holds(a, Append(cur \o Backslashes(h), a[p + 1]), 0, p + 1)
  <1> DEFINE all == cur \o Backslashes(h)
  <1>1. all \in Seq(Char) /\ Len(all) = p /\ \A j \in 1 .. p : all[j] = a[j]
    BY Released
  <1>2. a \in Seq(Char) /\ p \in Nat
    BY DEF Holds, Argument
  <1> HIDE DEF all
  <1>3. a[p + 1] \in Char
    BY <1>2
  <1>4. Append(all, a[p + 1]) \in Seq(Char) /\ Len(Append(all, a[p + 1])) = p + 1
    BY <1>1, <1>2, <1>3
  <1>5. \A j \in 1 .. p + 1 : Append(all, a[p + 1])[j] = a[j]
    BY <1>1, <1>2, <1>3
  <1>6. Holds(a, Append(all, a[p + 1]), 0, p + 1)
    BY <1>2, <1>4, <1>5 DEF Holds, Argument
  <1> QED
    BY <1>6 DEF all
-----------------------------------------------------------------------------
IsLine(l) == l = [done |-> l.done, current |-> l.current, started |-> l.started, quoted |-> l.quoted]

\* What the reader makes of the four things that are written.
LEMMA ReadCharacter ==
    ASSUME NEW l, NEW n \in Nat, NEW c \in Char, IsLine(l),
           c # "quote", c \in Blank => l.quoted
    PROVE  Read(l, n, c) = [done |-> l.done, current |-> Append(l.current \o Backslashes(n), c),
                            started |-> TRUE, quoted |-> l.quoted]
  <1>1. c # "end"
    BY CommandLineAssumption DEF Char, Blank
  <1> QED
    BY <1>1 DEF Read, IsLine

LEMMA ReadMark ==
    ASSUME NEW l, NEW n \in Nat, IsLine(l)
    PROVE  Read(l, 2 * n + 1, "quote")
              = [done |-> l.done, current |-> Append(l.current \o Backslashes(n), "quote"),
                 started |-> TRUE, quoted |-> l.quoted]
  <1>1. (2 * n + 1) \div 2 = n /\ (2 * n + 1) % 2 # 0
    BY Halves
  <1>2. "quote" # "end" /\ "quote" \notin Blank
    BY DEF Blank
  <1> QED
    BY <1>1, <1>2 DEF Read, IsLine

LEMMA ReadQuotation ==
    ASSUME NEW l, NEW n \in Nat, IsLine(l), l.quoted = TRUE
    PROVE  Read(l, 2 * n, "quote")
              = [done |-> l.done, current |-> l.current \o Backslashes(n),
                 started |-> TRUE, quoted |-> FALSE]
  <1>1. (2 * n) \div 2 = n /\ (2 * n) % 2 = 0
    BY Halves
  <1>2. (~l.quoted) = FALSE
    OBVIOUS
  <1>3. Read(l, 2 * n, "quote")
          = [l EXCEPT !.current = l.current \o Backslashes(n), !.started = TRUE, !.quoted = ~l.quoted]
    BY <1>1 DEF Read
  <1>4. [l EXCEPT !.current = l.current \o Backslashes(n), !.started = TRUE, !.quoted = ~l.quoted]
          = [l EXCEPT !.current = l.current \o Backslashes(n), !.started = TRUE, !.quoted = FALSE]
    BY <1>2, Zenon
  <1> QED
    BY <1>3, <1>4 DEF IsLine

LEMMA ReadOpening ==
    ASSUME NEW l, IsLine(l), l.quoted = FALSE, l.current = <<>>
    PROVE  Read(l, 0, "quote")
              = [done |-> l.done, current |-> <<>>, started |-> TRUE, quoted |-> TRUE]
  <1>1. 0 \div 2 = 0 /\ 0 % 2 = 0
    BY Halves
  <1>2. (~l.quoted) = TRUE
    OBVIOUS
  <1>3. l.current \o Backslashes(0) = <<>>
    BY DEF Backslashes
  <1>4. Read(l, 0, "quote")
          = [l EXCEPT !.current = l.current \o Backslashes(0), !.started = TRUE, !.quoted = ~l.quoted]
    BY <1>1 DEF Read
  <1>5. [l EXCEPT !.current = l.current \o Backslashes(0), !.started = TRUE, !.quoted = ~l.quoted]
          = [l EXCEPT !.current = <<>>, !.started = TRUE, !.quoted = TRUE]
    BY <1>2, <1>3, Zenon
  <1> QED
    BY <1>4, <1>5 DEF IsLine

LEMMA ReadSeparator ==
    ASSUME NEW l, NEW n \in Nat, l.started \/ n > 0, ~l.quoted
    PROVE  Read(l, n, Separator)
              = [done |-> Append(l.done, l.current \o Backslashes(n)), current |-> <<>>,
                 started |-> FALSE, quoted |-> FALSE]
  BY DEF Read, Separator, Blank

LEMMA NothingHeld ==
    ASSUME NEW cur \in Seq(Char)
    PROVE  cur \o Backslashes(0) = cur
  BY DEF Backslashes
-----------------------------------------------------------------------------
LineInv ==
    /\ args \in Seq(Argument) /\ written \in 0 .. Len(args)
    /\ style \in {"none", "plain", "quoted"}
    /\ IsLine(line)
    /\ line.done \in Seq(Argument) /\ Len(line.done) = written
    /\ \A j \in 1 .. written : line.done[j] = args[j]
    /\ style = "none" => place = 0 /\ held = 0 /\ line.current = <<>>
                           /\ line.started = FALSE /\ line.quoted = FALSE
    /\ style # "none" => written < Len(args) /\ Holds(Current, line.current, held, place)
    /\ style = "plain" => /\ line.quoted = FALSE /\ ~Quoted(Current)
                          /\ Len(line.current) > 0 => line.started
    /\ style = "quoted" => line.quoted = TRUE /\ line.started = TRUE

LEMMA LineInvInit == LInit => LineInv
  BY DEF LInit, LineInit, LineInv, IsLine, NothingRead

LEMMA LineStepInv == LineInv /\ [LineStep]_lvars => LineInv'
  <1> SUFFICES ASSUME LineInv, [LineStep]_lvars PROVE LineInv'
    OBVIOUS
  <1>0. /\ args \in Seq(Argument) /\ written \in Nat /\ written <= Len(args) /\ Len(args) \in Nat
        /\ written < Len(args) => Current \in Seq(Char)
    BY DEF LineInv, Current, Argument
  <1>1. CASE Open
    <2>1. written < Len(args) /\ style = "none"
      BY <1>1 DEF Open
    <2>2. /\ UNCHANGED <<args, written, place, held>> /\ place = 0 /\ held = 0
          /\ line.current = <<>> /\ line.started = FALSE /\ line.quoted = FALSE /\ IsLine(line)
      BY <1>1, <2>1 DEF Open, LineInv
    <2>3. Current' = Current
      BY <2>2 DEF Current
    <2>4. Holds(Current, <<>>, 0, 0)
      BY <1>0, <2>1 DEF Holds, Argument
    <2>5. CASE Quoted(Current)
      <3>1. style' = "quoted" /\ line' = Read(line, 0, "quote")
        BY <1>1, <2>5 DEF Open
      <3>4. line' = [done |-> line.done, current |-> <<>>, started |-> TRUE, quoted |-> TRUE]
        BY <2>2, <3>1, ReadOpening
      <3>5. IsLine(line')
        BY <3>4 DEF IsLine
      <3> QED
        BY <2>1, <2>2, <2>3, <2>4, <3>1, <3>4, <3>5 DEF LineInv
    <2>6. CASE ~Quoted(Current)
      <3>1. style' = "plain" /\ line' = line
        BY <1>1, <2>6 DEF Open
      <3> QED
        BY <2>1, <2>2, <2>3, <2>4, <2>6, <3>1 DEF LineInv
    <2> QED
      BY <2>5, <2>6
  <1>2. CASE Put
    <2> DEFINE c == Current[place + 1]
    <2>1. /\ style # "none" /\ place < Len(Current) /\ place' = place + 1
          /\ UNCHANGED <<args, written, style>>
      BY <1>2 DEF Put
    <2>2. /\ written < Len(args) /\ Holds(Current, line.current, held, place) /\ IsLine(line)
          /\ Current \in Seq(Char) /\ place \in Nat /\ held \in Nat /\ Len(Current) \in Nat
      BY <1>0, <2>1 DEF LineInv, Holds
    <2>3. Current' = Current
      BY <2>1 DEF Current
    <2>4. c \in Char
      BY <2>1, <2>2
    <2>5. CASE c = "backslash"
      <3>1. held' = held + 1 /\ line' = line
        BY <1>2, <2>5 DEF Put
      <3>2. Holds(Current, line.current, held + 1, place + 1)
        BY <2>1, <2>2, <2>5, HoldBackslash
      <3> QED
        BY <2>1, <2>2, <2>3, <3>1, <3>2 DEF LineInv
    <2>6. CASE c # "backslash"
      <3> DEFINE cur == Append(line.current \o Backslashes(held), c)
      <3>1. /\ held' = 0
            /\ line' = Read(line, IF c = "quote" THEN 2 * held + 1 ELSE held, c)
        BY <1>2, <2>6 DEF Put, BeforeMark
      <3>2. Holds(Current, cur, 0, place + 1)
        BY <2>1, <2>2, PutCharacter
      <3>3. style = "plain" => c # "quote" /\ c \notin Blank
        BY <2>1, <2>2 DEF LineInv, Quoted
      <3>4. style = "quoted" => line.quoted
        BY DEF LineInv
      <3>5. line' = [done |-> line.done, current |-> cur, started |-> TRUE, quoted |-> line.quoted]
        <4>1. CASE c = "quote"
          BY <2>2, <3>1, <4>1, ReadMark
        <4>2. CASE c # "quote"
          <5>1. c \in Blank => line.quoted
            BY <2>1, <3>3, <3>4 DEF LineInv
          <5> QED
            BY <2>2, <2>4, <3>1, <4>2, <5>1, ReadCharacter
        <4> QED
          BY <4>1, <4>2
      <3> HIDE DEF cur, c
      <3>6. IsLine(line') /\ line'.done = line.done /\ line'.current = cur /\ line'.started = TRUE
              /\ line'.quoted = line.quoted
        BY <3>5 DEF IsLine
      <3> QED
        BY <2>1, <2>2, <2>3, <3>1, <3>2, <3>6 DEF LineInv
    <2> QED
      BY <2>5, <2>6
  <1>3. CASE Close
    <2>1. /\ style # "none" /\ place = Len(Current) /\ written' = written + 1 /\ place' = 0
          /\ style' = "none" /\ held' = 0 /\ args' = args
          /\ line' = IF style = "quoted" THEN Read(Read(line, 2 * held, "quote"), 0, Separator)
                     ELSE Read(line, held, Separator)
      BY <1>3 DEF Close
    <2>2. /\ written < Len(args) /\ Holds(Current, line.current, held, Len(Current)) /\ IsLine(line)
          /\ Current \in Seq(Char) /\ held \in Nat /\ line.current \in Seq(Char)
      BY <1>0, <2>1 DEF LineInv, Holds
    <2>3. line.current \o Backslashes(held) = Current
      BY <2>2, ReleasedAll
    <2>4. line' = [done |-> Append(line.done, Current), current |-> <<>>,
                   started |-> FALSE, quoted |-> FALSE]
      <3>1. CASE style = "quoted"
        <4> DEFINE l == Read(line, 2 * held, "quote")
        <4>1. l = [done |-> line.done, current |-> Current, started |-> TRUE, quoted |-> FALSE]
          BY <2>2, <2>3, <3>1, ReadQuotation DEF LineInv
        <4>2. l.done = line.done /\ l.current = Current /\ l.started /\ ~l.quoted
          BY <4>1
        <4> HIDE DEF l
        <4>3. Read(l, 0, Separator) = [done |-> Append(l.done, l.current \o Backslashes(0)),
                                       current |-> <<>>, started |-> FALSE, quoted |-> FALSE]
          BY <4>2, ReadSeparator
        <4>4. l.current \o Backslashes(0) = Current
          BY <2>2, <4>2, NothingHeld
        <4> QED
          BY <2>1, <3>1, <4>2, <4>3, <4>4 DEF l
      <3>2. CASE style = "plain"
        <4>1. line.quoted = FALSE /\ (Len(line.current) > 0 => line.started) /\ Current # <<>>
          BY <3>2 DEF LineInv, Quoted
        <4>2. Len(Current) > 0
          BY <2>2, <4>1
        <4>3. line.started \/ held > 0
          BY <2>2, <4>1, <4>2 DEF Holds
        <4> QED
          BY <2>1, <2>2, <2>3, <3>2, <4>1, <4>3, ReadSeparator
      <3> QED
        BY <2>1, <3>1, <3>2 DEF LineInv
    <2>5. /\ line.done \in Seq(Argument) /\ Len(line.done) = written
          /\ \A j \in 1 .. written : line.done[j] = args[j]
          /\ Current \in Argument /\ Current = args[written + 1]
      BY <1>0, <2>2 DEF LineInv, Current, Argument
    <2>6. /\ line'.done = Append(line.done, Current) /\ line'.current = <<>>
          /\ line'.started = FALSE /\ line'.quoted = FALSE /\ IsLine(line')
      BY <2>4 DEF IsLine
    <2>7. /\ Append(line.done, Current) \in Seq(Argument)
          /\ Len(Append(line.done, Current)) = written + 1
          /\ \A j \in 1 .. written + 1 : Append(line.done, Current)[j] = args[j]
      BY <1>0, <2>5
    <2>8. written' \in 0 .. Len(args')
      BY <1>0, <2>1, <2>2
    <2>9. \A j \in 1 .. written' : line'.done[j] = args'[j]
      BY <2>1, <2>6, <2>7
    <2> QED
      BY <1>0, <2>1, <2>6, <2>7, <2>8, <2>9 DEF LineInv
  <1>4. CASE UNCHANGED lvars
    BY <1>4 DEF lvars, LineInv, Current
  <1> QED
    BY <1>1, <1>2, <1>3, <1>4 DEF LineStep

LEMMA LineInvSame == LineInv => RelaunchSameArgs
  <1> SUFFICES ASSUME LineInv, Complete PROVE line.done = args
    BY DEF RelaunchSameArgs
  <1>1. /\ args \in Seq(Argument) /\ line.done \in Seq(Argument)
        /\ Len(line.done) = Len(args)
        /\ \A j \in 1 .. Len(args) : line.done[j] = args[j]
    BY DEF LineInv, Complete
  <1> QED
    BY <1>1

(* The elevated copy gets the user's arguments, whatever they are.          *)
THEOREM SameArgsAfterRelaunch == LSpec => []RelaunchSameArgs
  BY LineInvInit, LineStepInv, LineInvSame, PTL DEF LSpec
-----------------------------------------------------------------------------
(* Splitting loses nothing and the export is usable and describes the same  *)
(* tunnel, for texts of any length with any lines in any order.             *)

\* The shape of what WireGuardConfig::parse keeps.
IsWg(w) ==
    w = [section |-> w.section, failed |-> w.failed, privatekey |-> w.privatekey,
         v4 |-> w.v4, v6 |-> w.v6, dns |-> w.dns, mtu |-> w.mtu,
         publickey |-> w.publickey, presharedkey |-> w.presharedkey,
         persistentkeepalive |-> w.persistentkeepalive, allowedips |-> w.allowedips]

\* Equal but for the section.
Alike(w, v) ==
    /\ w.failed = v.failed /\ w.privatekey = v.privatekey
    /\ w.v4 = v.v4 /\ w.v6 = v.v6 /\ w.dns = v.dns /\ w.mtu = v.mtu
    /\ w.publickey = v.publickey /\ w.presharedkey = v.presharedkey
    /\ w.persistentkeepalive = v.persistentkeepalive /\ w.allowedips = v.allowedips

LEMMA AlikeSameSection ==
    ASSUME NEW w, NEW v, IsWg(w), IsWg(v), Alike(w, v), w.section = v.section
    PROVE  w = v
  BY DEF IsWg, Alike

LEMMA AlikeIsEqual ==
    ASSUME NEW w, NEW v, IsWg(w), IsWg(v), Alike(w, v)
    PROVE  [w EXCEPT !.section = "any"] = [v EXCEPT !.section = "any"]
  BY DEF IsWg, Alike

LEMMA WgReadShape ==
    ASSUME NEW w, NEW l, IsWg(w)
    PROVE  IsWg(WgRead(w, l))
  BY DEF IsWg, WgRead, WithKey

\* A header changes the section only.
LEMMA WgReadHeader ==
    ASSUME NEW w, NEW l, IsWg(w), l.key = "section"
    PROVE  Alike(WgRead(w, l), w) /\ (~w.failed => WgRead(w, l).section = l.val)
  BY DEF IsWg, WgRead, Alike

\* Outside the two sections nothing else changes anything.
LEMMA WgReadElsewhere ==
    ASSUME NEW w, NEW l, l.key # "section", w.section \notin {"interface", "peer"}
    PROVE  WgRead(w, l) = w
  BY DEF WgRead
LEMMA WgReadFailed ==
    ASSUME NEW w, NEW l, w.failed
    PROVE  WgRead(w, l) = w
  BY DEF WgRead
-----------------------------------------------------------------------------
IsObf(o) ==
    /\ o = [within |-> o.within, any |-> o.any, named |-> o.named, loose |-> o.loose]
    /\ o.within \in BOOLEAN /\ o.any \in BOOLEAN
IsWhole == IsWg(whole.wg) /\ IsObf(whole.obf)

(* Where the reader of a part of a merged text and the reader of the whole  *)
(* are, while neither has failed: in the same section, if the part has the  *)
(* line's section, and else the whole's is of no interest to this reader.   *)
SectionsMeet ==
    /\ ~wg.failed => IF inInstance THEN whole.wg.section \notin {"interface", "peer"}
                     ELSE wg.section = whole.wg.section
    /\ IF inInstance THEN obf.within = whole.obf.within ELSE ~whole.obf.within

SplitInv ==
    /\ IsWg(wg) /\ IsObf(obf) /\ IsWhole
    /\ Alike(wg, whole.wg)
    /\ obf.any = whole.obf.any /\ obf.named = whole.obf.named
    /\ IF merged THEN SectionsMeet ELSE wg = whole.wg /\ obf = whole.obf

\* The WireGuard half of a line read from a merged text.
LEMMA SplitWgStep ==
    ASSUME NEW l \in Line, ReadLine(l), merged,
           IsWg(wg), IsWg(whole.wg), Alike(wg, whole.wg), SectionsMeet
    PROVE  /\ IsWg(wg') /\ IsWg(whole.wg')
           /\ Alike(wg', whole.wg')
           /\ ~wg'.failed => IF inInstance' THEN whole.wg'.section \notin {"interface", "peer"}
                             ELSE wg'.section = whole.wg'.section
  <1> DEFINE v == whole.wg
  <1>1. whole.wg' = WgRead(v, l)
    BY DEF ReadLine
  <1>2. IsWg(whole.wg')
    BY <1>1, WgReadShape
  <1>3. CASE Side(l)
    <2>1. wg' = wg /\ inInstance'
      BY <1>3 DEF ReadLine
    <2>2. CASE l.key = "section"
      <3>1. l.val \in {"instance", "socks5"}
        BY <1>3, <2>2 DEF Side
      <3>2. Alike(whole.wg', v) /\ (~v.failed => whole.wg'.section = l.val)
        BY <1>1, <2>2, WgReadHeader
      <3> QED
        BY <1>2, <2>1, <3>1, <3>2 DEF Alike
    <2>3. CASE l.key # "section" /\ ~wg.failed
      <3>1. inInstance
        BY <1>3, <2>3 DEF Side
      <3>2. v.section \notin {"interface", "peer"}
        BY <2>3, <3>1 DEF SectionsMeet
      <3>3. whole.wg' = v
        BY <1>1, <2>3, <3>2, WgReadElsewhere
      <3> QED
        BY <1>2, <2>1, <3>2, <3>3
    <2>4. CASE wg.failed
      <3>1. whole.wg' = v
        BY <1>1, <2>4, WgReadFailed DEF Alike
      <3> QED
        BY <1>2, <2>1, <2>4, <3>1
    <2> QED
      BY <2>2, <2>3, <2>4
  <1>4. CASE ~Side(l)
    <2>1. wg' = WgRead(wg, l) /\ ~inInstance'
      BY <1>4 DEF ReadLine, Side
    <2>2. IsWg(wg')
      BY <2>1, WgReadShape
    <2>3. CASE wg.failed
      <3>1. wg' = wg /\ whole.wg' = v
        BY <1>1, <2>1, <2>3, WgReadFailed DEF Alike
      <3> QED
        BY <1>2, <2>2, <2>3, <3>1
    <2>4. CASE l.key = "section" /\ ~wg.failed
      <3>1. Alike(wg', wg) /\ Alike(whole.wg', v) /\ wg'.section = l.val /\ whole.wg'.section = l.val
        BY <1>1, <2>1, <2>4, WgReadHeader DEF Alike
      <3> QED
        BY <1>2, <2>1, <2>2, <3>1 DEF Alike
    <2>5. CASE l.key # "section" /\ ~wg.failed
      <3>1. wg.section = v.section
        BY <1>4, <2>5 DEF Side, SectionsMeet
      <3>2. wg = v
        BY <3>1, AlikeSameSection
      <3> QED
        BY <1>1, <1>2, <2>1, <3>2 DEF Alike
    <2> QED
      BY <2>3, <2>4, <2>5
  <1> QED
    BY <1>3, <1>4

\* The obfuscator's half.
LEMMA SplitObfStep ==
    ASSUME NEW l \in Line, ReadLine(l), merged,
           IsObf(obf), IsObf(whole.obf), obf.any = whole.obf.any, obf.named = whole.obf.named,
           SectionsMeet
    PROVE  /\ IsObf(obf') /\ IsObf(whole.obf')
           /\ obf'.any = whole.obf'.any /\ obf'.named = whole.obf'.named
           /\ IF inInstance' THEN obf'.within = whole.obf'.within ELSE ~whole.obf'.within
  <1> DEFINE v == whole.obf
  <1>1. whole.obf' = ObfRead(v, l)
    BY DEF ReadLine
  <1>2. ASSUME NEW o, IsObf(o)
        PROVE  IsObf(ObfRead(o, l))
    BY <1>2 DEF IsObf, ObfRead
  <1>3. IsObf(whole.obf')
    BY <1>1, <1>2
  <1>4. CASE Side(l)
    <2>1. obf' = ObfRead(obf, l) /\ inInstance'
      BY <1>4 DEF ReadLine
    <2>2. IsObf(obf')
      BY <1>2, <2>1
    <2>3. l.key # "section" => obf.within = v.within
      BY <1>4 DEF Side, SectionsMeet
    <2>4. ASSUME NEW o, IsObf(o)
          PROVE  /\ ObfRead(o, l).within = IF l.key = "section" THEN l.val = "instance" ELSE o.within
                 /\ ObfRead(o, l).any = IF l.key \in {"section", "inert"} THEN o.any ELSE o.any \/ o.within
                 /\ ObfRead(o, l).named = IF l.key \notin {"section", "inert"} /\ o.within /\ l.key \in SettingKey
                                          THEN With(o.named, l) ELSE o.named
      BY <2>4 DEF IsObf, ObfRead
    <2> QED
      BY <1>1, <1>3, <2>1, <2>2, <2>3, <2>4
  <1>5. CASE ~Side(l)
    <2>1. obf' = obf /\ ~inInstance'
      BY <1>5 DEF ReadLine, Side
    <2>2. CASE l.key = "section"
      <3>1. whole.obf' = [v EXCEPT !.within = FALSE]
        BY <1>1, <1>5, <2>2 DEF ObfRead, Side
      <3> QED
        BY <1>3, <2>1, <3>1 DEF IsObf
    <2>3. CASE l.key # "section"
      <3>1. ~v.within
        BY <1>5, <2>3 DEF Side, SectionsMeet
      <3>2. /\ whole.obf'.within = v.within /\ whole.obf'.any = v.any
            /\ whole.obf'.named = v.named
        BY <1>1, <2>3, <3>1 DEF ObfRead, IsObf
      <3> QED
        BY <1>3, <2>1, <3>1, <3>2
    <2> QED
      BY <2>2, <2>3
  <1> QED
    BY <1>4, <1>5

LEMMA SplitInit == FileInit => SplitInv
  <1>1. IsWg(WgStart) /\ IsObf(ObfStart) /\ Alike(WgStart, WgStart)
    BY DEF IsWg, IsObf, Alike, WgStart, ObfStart
  <1>2. ~ObfStart.within
    BY DEF ObfStart
  <1> QED
    BY <1>1, <1>2 DEF FileInit, SplitInv, IsWhole, SectionsMeet

LEMMA SplitStep == SplitInv /\ [FileStep]_fvars => SplitInv'
  <1> SUFFICES ASSUME SplitInv, [FileStep]_fvars PROVE SplitInv'
    OBVIOUS
  <1>1. ASSUME NEW l \in Line, ReadLine(l), merged
        PROVE  SplitInv'
    <2>1. merged'
      BY <1>1 DEF ReadLine
    <2>2. /\ IsWg(wg) /\ IsWg(whole.wg) /\ Alike(wg, whole.wg) /\ SectionsMeet
          /\ IsObf(obf) /\ IsObf(whole.obf)
          /\ obf.any = whole.obf.any /\ obf.named = whole.obf.named
      BY <1>1 DEF SplitInv, IsWhole
    <2>3. /\ IsWg(wg') /\ IsWg(whole.wg')
          /\ Alike(wg', whole.wg')
          /\ ~wg'.failed => IF inInstance' THEN whole.wg'.section \notin {"interface", "peer"}
                            ELSE wg'.section = whole.wg'.section
      BY <1>1, <2>2, SplitWgStep
    <2>4. /\ IsObf(obf') /\ IsObf(whole.obf')
          /\ obf'.any = whole.obf'.any /\ obf'.named = whole.obf'.named
          /\ IF inInstance' THEN obf'.within = whole.obf'.within ELSE ~whole.obf'.within
      BY <1>1, <2>2, SplitObfStep
    <2> QED
      BY <2>1, <2>3, <2>4 DEF SplitInv, IsWhole, SectionsMeet
  <1>2. ASSUME NEW l \in Line, ReadLine(l), ~merged
        PROVE  SplitInv'
    <2>1. /\ wg' = WgRead(wg, l) /\ obf' = ObfRead(obf, l) /\ ~merged'
          /\ whole'.wg = wg' /\ whole'.obf = obf'
      BY <1>2 DEF ReadLine, SplitInv
    <2>2. IsWg(wg')
      BY <2>1, WgReadShape DEF SplitInv
    <2>3. IsObf(obf')
      BY <2>1 DEF SplitInv, IsObf, ObfRead
    <2> QED
      BY <2>1, <2>2, <2>3 DEF SplitInv, IsWhole, Alike
  <1>3. CASE EndText
    BY <1>3 DEF EndText, SplitInv, IsWhole, SectionsMeet
  <1>4. CASE UNCHANGED fvars
    BY <1>4 DEF fvars, SplitInv, IsWhole, SectionsMeet
  <1> QED
    BY <1>1, <1>2, <1>3, <1>4 DEF FileStep

LEMMA SplitInvImplies == SplitInv => SplitReadsAlike
  BY AlikeIsEqual DEF SplitInv, IsWhole, SplitReadsAlike

(* For any text: the WireGuard part of a merged configuration reads as the  *)
(* configuration itself, and so do the keys under [instance].               *)
THEOREM SplitLosesNothing == FileSpec => []SplitReadsAlike
  <1>1. FileSpec => []SplitInv
    BY SplitInit, SplitStep, PTL DEF FileSpec
  <1> QED
    BY <1>1, SplitInvImplies, PTL
-----------------------------------------------------------------------------
\* What a reader of the exported text sees is what the writer has noted.
UsableInv ==
    /\ seen = [section |-> seen.section, found |-> seen.found, wrong |-> FALSE]
    /\ seen.found \in BOOLEAN
    /\ ~ended =>
          /\ rewrite = [section |-> rewrite.section, endpointSeen |-> rewrite.endpointSeen,
                        mtuSeen |-> rewrite.mtuSeen]
          /\ rewrite.endpointSeen \in BOOLEAN /\ rewrite.mtuSeen \in BOOLEAN
          /\ seen.section = rewrite.section
          /\ seen.section = "interface" => seen.found = rewrite.mtuSeen
          /\ seen.section = "peer" => seen.found = rewrite.endpointSeen
    /\ ended => ~Lacking(seen)

LEMMA SeeHalved ==
    ASSUME NEW f, NEW r, r.key = "allowedips",
           r.val \cap {"0.0.0.0/0", "::/0"} = {}
    PROVE  See([section |-> "peer", found |-> f, wrong |-> FALSE], r)
           = [section |-> "peer", found |-> f, wrong |-> FALSE]
  <1> DEFINE s == [section |-> "peer", found |-> f, wrong |-> FALSE]
  <1>1. s.section = "peer" /\ s.wrong = FALSE
    OBVIOUS
  <1>2. (s.wrong \/ r.val \cap {"0.0.0.0/0", "::/0"} # {}) = FALSE
    BY <1>1
  <1>3. See(s, r) = [s EXCEPT !.wrong = s.wrong \/ r.val \cap {"0.0.0.0/0", "::/0"} # {}]
    BY <1>1 DEF See
  <1>4. See(s, r) = [s EXCEPT !.wrong = FALSE]
    BY <1>2, <1>3, Zenon
  <1>5. ASSUME NEW w
        PROVE  [[section |-> "peer", found |-> f, wrong |-> w] EXCEPT !.wrong = w]
               = [section |-> "peer", found |-> f, wrong |-> w]
    OBVIOUS
  <1> QED
    BY <1>4, <1>5, Zenon

LEMMA SeeMtu ==
    ASSUME NEW f \in BOOLEAN
    PROVE  See([section |-> "interface", found |-> f, wrong |-> FALSE], MtuLine)
              = [section |-> "interface", found |-> TRUE, wrong |-> FALSE]
  <1>1. MtuLine.key = "mtu" /\ (MtuLine.val # SafeMtu) = FALSE
    BY DEF MtuLine
  <1> QED
    BY <1>1 DEF See

LEMMA SeeLoopback ==
    ASSUME NEW f \in BOOLEAN
    PROVE  See([section |-> "peer", found |-> f, wrong |-> FALSE], LoopbackLine)
              = [section |-> "peer", found |-> TRUE, wrong |-> FALSE]
  <1>1. LoopbackLine.key = "endpoint" /\ (LoopbackLine.val # "loopback") = FALSE
    BY DEF LoopbackLine
  <1> QED
    BY <1>1 DEF See

\* The line that closes a section is the one a reader lacks, and never a wrong one.
LEMMA SeeMissing ==
    ASSUME UsableInv, ~ended
    PROVE  \E found \in BOOLEAN :
               LET s == [section |-> seen.section, found |-> found, wrong |-> FALSE]
               IN See(seen, Missing(rewrite)) = s /\ ~Lacking(s)
  <1>1. CASE rewrite.section = "interface" /\ ~rewrite.mtuSeen
    <2>1. Missing(rewrite) = MtuLine
      BY <1>1 DEF Missing
    <2>2. See(seen, MtuLine) = [section |-> seen.section, found |-> TRUE, wrong |-> FALSE]
      BY <1>1, SeeMtu DEF UsableInv
    <2> QED
      BY <2>1, <2>2 DEF Lacking
  <1>2. CASE rewrite.section = "peer" /\ ~rewrite.endpointSeen
    <2>1. Missing(rewrite) = LoopbackLine
      BY <1>2 DEF Missing
    <2>2. See(seen, LoopbackLine) = [section |-> seen.section, found |-> TRUE, wrong |-> FALSE]
      BY <1>2, SeeLoopback DEF UsableInv
    <2> QED
      BY <2>1, <2>2 DEF Lacking
  <1>3. CASE /\ ~(rewrite.section = "interface" /\ ~rewrite.mtuSeen)
             /\ ~(rewrite.section = "peer" /\ ~rewrite.endpointSeen)
    <2>1. Missing(rewrite) = Inert
      BY <1>3 DEF Missing
    <2>2. See(seen, Inert) = seen
      BY DEF See, Inert
    <2>3. ~Lacking(seen)
      BY <1>3 DEF UsableInv, Lacking
    <2>4. /\ seen = [section |-> seen.section, found |-> seen.found, wrong |-> FALSE]
          /\ seen.found \in BOOLEAN
      BY DEF UsableInv
    <2> QED
      BY <2>1, <2>2, <2>3, <2>4
  <1> QED
    BY <1>1, <1>2, <1>3

LEMMA HalvedHasNoDefault ==
    ASSUME NEW ranges
    PROVE  Halved(ranges) \cap {"0.0.0.0/0", "::/0"} = {}
  BY DEF Halved

LEMMA UsableRead ==
    ASSUME UsableInv, NEW l \in Line, ReadLine(l), ~(merged /\ Side(l))
    PROVE  UsableInv'
  <1>1. /\ rewrite' = RewriteRead(rewrite, l) /\ ~ended /\ ~ended'
        /\ seen' = See(See(seen, Before(rewrite, l)), Rewritten(rewrite, l))
    BY DEF ReadLine
  <1>2. See(seen, Inert) = seen
    BY DEF See, Inert
  <1>3. CASE l.key = "section"
    <2>1. seen' = See(See(seen, Missing(rewrite)), l)
      BY <1>1, <1>3 DEF Before, Rewritten
    <2> DEFINE s == See(seen, Missing(rewrite))
    <2>2. s.wrong = FALSE /\ ~Lacking(s)
      BY <1>1, SeeMissing DEF Lacking
    <2> HIDE DEF s
    <2>3. seen' = [section |-> l.val, found |-> FALSE, wrong |-> s.wrong \/ Lacking(s)]
      BY <1>3, <2>1 DEF See, s
    <2>4. (s.wrong \/ Lacking(s)) = FALSE
      BY <2>2
    <2>5. seen' = [section |-> l.val, found |-> FALSE, wrong |-> FALSE]
      BY <2>3, <2>4, Zenon
    <2>6. rewrite' = [section |-> l.val, endpointSeen |-> FALSE, mtuSeen |-> FALSE]
      BY <1>1, <1>3 DEF RewriteRead
    <2> QED
      BY <1>1, <2>5, <2>6 DEF UsableInv
  <1>4. CASE l.key # "section"
    <2>1. seen' = See(seen, Rewritten(rewrite, l))
      BY <1>1, <1>2, <1>4 DEF Before
    <2>2. CASE rewrite.section = "interface" /\ l.key = "mtu"
      <3>1. seen' = [section |-> "interface", found |-> TRUE, wrong |-> FALSE]
        BY <1>1, <2>1, <2>2, SeeMtu DEF UsableInv, Rewritten
      <3>2. rewrite' = [section |-> "interface", endpointSeen |-> rewrite.endpointSeen, mtuSeen |-> TRUE]
        BY <1>1, <1>4, <2>2 DEF UsableInv, RewriteRead
      <3> QED
        BY <1>1, <3>1, <3>2 DEF UsableInv
    <2>3. CASE rewrite.section = "peer" /\ l.key = "endpoint"
      <3>1. seen' = [section |-> "peer", found |-> TRUE, wrong |-> FALSE]
        BY <1>1, <2>1, <2>3, SeeLoopback DEF UsableInv, Rewritten
      <3>2. rewrite' = [section |-> "peer", endpointSeen |-> TRUE, mtuSeen |-> rewrite.mtuSeen]
        BY <1>1, <1>4, <2>3 DEF UsableInv, RewriteRead
      <3> QED
        BY <1>1, <3>1, <3>2 DEF UsableInv
    <2>4. CASE rewrite.section = "peer" /\ l.key = "allowedips"
      <3> DEFINE r == Rewritten(rewrite, l)
      <3>1. r.key = "allowedips" /\ r.val = Halved(l.val)
        BY <2>4, ConfigFileAssumption DEF Rewritten
      <3> HIDE DEF r
      <3>2. r.val \cap {"0.0.0.0/0", "::/0"} = {}
        BY <3>1, HalvedHasNoDefault
      <3>3. seen' = See(seen, r)
        BY <2>1 DEF r
      <3>4. seen = [section |-> "peer", found |-> seen.found, wrong |-> FALSE]
        BY <1>1, <2>4 DEF UsableInv
      <3>5. seen' = seen
        BY <1>1, <3>1, <3>2, <3>3, <3>4, SeeHalved DEF UsableInv
      <3> QED
        BY <1>1, <1>4, <2>4, <3>5 DEF UsableInv, RewriteRead
    <2>5. CASE /\ ~(rewrite.section = "interface" /\ l.key = "mtu")
               /\ ~(rewrite.section = "peer" /\ l.key \in {"endpoint", "allowedips"})
      BY <1>1, <1>4, <2>1, <2>5 DEF UsableInv, RewriteRead, Rewritten, See
    <2> QED
      BY <2>2, <2>3, <2>4, <2>5
  <1> QED
    BY <1>3, <1>4

LEMMA UsableStep == UsableInv /\ [FileStep]_fvars => UsableInv'
  <1> SUFFICES ASSUME UsableInv, [FileStep]_fvars PROVE UsableInv'
    OBVIOUS
  <1>1. ASSUME NEW l \in Line, ReadLine(l)
        PROVE  UsableInv'
    <2>1. CASE merged /\ Side(l)
      BY <1>1, <2>1 DEF ReadLine, UsableInv, Lacking
    <2>2. CASE ~(merged /\ Side(l))
      BY <1>1, <2>2, UsableRead
    <2> QED
      BY <2>1, <2>2
  <1>2. CASE EndText
    <2>1. ~ended /\ ended' /\ seen' = See(seen, Missing(rewrite))
      BY <1>2 DEF EndText
    <2>2. PICK found \in BOOLEAN :
              /\ seen' = [section |-> seen.section, found |-> found, wrong |-> FALSE]
              /\ ~(seen.section \in {"interface", "peer"} /\ ~found)
      BY <2>1, SeeMissing DEF Lacking
    <2> QED
      BY <2>1, <2>2 DEF UsableInv, Lacking
  <1>3. CASE UNCHANGED fvars
    BY <1>3 DEF fvars, UsableInv, Lacking
  <1> QED
    BY <1>1, <1>2, <1>3 DEF FileStep

LEMMA UsableInit == FileInit => UsableInv
  BY DEF FileInit, UsableInv, SeenStart, RewriteStart

LEMMA UsableImplies == UsableInv => ExportUsable
  BY DEF UsableInv, ExportUsable

(* For any text: what the proxy mode exports has a loopback endpoint in     *)
(* every peer, an MTU of 1280 in every interface and no whole default route.*)
THEOREM ExportIsUsable == FileSpec => []ExportUsable
  BY UsableInit, UsableStep, UsableImplies, PTL DEF FileSpec
-----------------------------------------------------------------------------
LEMMA HalvedUnion ==
    ASSUME NEW a, NEW b
    PROVE  Halved(a \cup b) = Halved(a) \cup Halved(b)
  BY DEF Halved

\* Two halves reach what the default route they stand for reaches.
LEMMA HalvedReaches ==
    ASSUME NEW a
    PROVE  UNION {Reached(range) : range \in Halved(a)} = UNION {Reached(range) : range \in a}
  <1>1. ASSUME NEW x, NEW range \in Halved(a), x \in Reached(range)
        PROVE  \E r \in a : x \in Reached(r)
    <2>1. CASE range \in a
      BY <1>1, <2>1
    <2>2. CASE range \in {"0.0.0.0/1", "128.0.0.0/1"} /\ "0.0.0.0/0" \in a
      BY <1>1, <2>2 DEF Reached
    <2>3. CASE range \in {"::/1", "8000::/1"} /\ "::/0" \in a
      BY <1>1, <2>3 DEF Reached
    <2> QED
      BY <2>1, <2>2, <2>3 DEF Halved
  <1>2. ASSUME NEW x, NEW r \in a, x \in Reached(r)
        PROVE  \E range \in Halved(a) : x \in Reached(range)
    <2>1. CASE r = "0.0.0.0/0"
      <3>1. x \in Halved(a) /\ x \in {"0.0.0.0/1", "128.0.0.0/1"}
        BY <1>2, <2>1 DEF Reached, Halved
      <3> QED
        BY <3>1 DEF Reached
    <2>2. CASE r = "::/0"
      <3>1. x \in Halved(a) /\ x \in {"::/1", "8000::/1"}
        BY <1>2, <2>2 DEF Reached, Halved
      <3> QED
        BY <3>1 DEF Reached
    <2>3. CASE r \notin {"0.0.0.0/0", "::/0"}
      BY <1>2, <2>3 DEF Halved
    <2> QED
      BY <2>1, <2>2, <2>3
  <1> QED
    BY <1>1, <1>2

\* Equal but for the section, the MTU and how the routes are written.
AlikeExport(r, w) ==
    /\ r.failed = w.failed /\ r.privatekey = w.privatekey
    /\ r.v4 = w.v4 /\ r.v6 = w.v6 /\ r.dns = w.dns
    /\ r.publickey = w.publickey /\ r.presharedkey = w.presharedkey
    /\ r.persistentkeepalive = w.persistentkeepalive
    /\ r.allowedips = Halved(w.allowedips)
    /\ w.mtu \in Int /\ w.mtu <= SafeMtu /\ r.mtu = SafeMtu

ExportInv ==
    /\ IsWg(wg) /\ IsWg(ready)
    /\ AlikeExport(ready, wg)
    /\ ready.section = wg.section
    /\ ~wg.failed /\ ~ended => rewrite.section = wg.section

\* The lines that are put in add nothing that matters here.
LEMMA ReadMissing ==
    ASSUME NEW r, NEW w, NEW s, IsWg(r), AlikeExport(r, w)
    PROVE  /\ IsWg(WgRead(r, Missing(s))) /\ AlikeExport(WgRead(r, Missing(s)), w)
           /\ WgRead(r, Missing(s)).section = r.section
  <1>1. IsWg(WgRead(r, Missing(s)))
    BY WgReadShape
  <1>2. Missing(s) \in {MtuLine, LoopbackLine, Inert}
    BY DEF Missing
  <1>3. WgRead(r, LoopbackLine) = r /\ WgRead(r, Inert) = r
    BY DEF WgRead, LoopbackLine, Inert
  <1>4. WgRead(r, MtuLine) = r
    BY DEF WgRead, MtuLine, SafeMtu, NotANumber, IsWg, AlikeExport
  <1> QED
    BY <1>1, <1>2, <1>3, <1>4

\* One line that is not a header, in the section both readers are in.
LEMMA ReadBoth ==
    ASSUME NEW r, NEW w, NEW l \in Line, NEW s,
           IsWg(r), IsWg(w), AlikeExport(r, w), ~w.failed,
           r.section = w.section, s.section = w.section, l.key # "section"
    PROVE  AlikeExport(WgRead(r, Rewritten(s, l)), WgRead(w, l))
  <1>1. CASE w.section = "interface" /\ l.key = "mtu"
    <2>1. WgRead(r, Rewritten(s, l)) = r
      BY <1>1 DEF Rewritten, WgRead, MtuLine, SafeMtu, NotANumber, IsWg, AlikeExport
    <2>2. l.val \in Int
      BY <1>1, ConfigFileAssumption
    <2> DEFINE m == IF l.val = NotANumber THEN w.mtu ELSE IF l.val < SafeMtu THEN l.val ELSE SafeMtu
    <2>3. WgRead(w, l) = [w EXCEPT !.mtu = m]
      BY <1>1 DEF WgRead, IsWg
    <2>4. m \in Int /\ m <= SafeMtu
      BY <2>2 DEF AlikeExport, SafeMtu
    <2> HIDE DEF m
    <2> QED
      BY <2>1, <2>3, <2>4 DEF AlikeExport, IsWg
  <1>2. CASE w.section = "peer" /\ l.key = "endpoint"
    BY <1>2 DEF Rewritten, WgRead, LoopbackLine
  <1>3. CASE w.section = "peer" /\ l.key = "allowedips"
    <2>1. Rewritten(s, l).key = "allowedips" /\ Rewritten(s, l).val = Halved(l.val)
      BY <1>3, ConfigFileAssumption DEF Rewritten
    <2>2. WgRead(r, Rewritten(s, l)) = [r EXCEPT !.allowedips = @ \cup Halved(l.val)]
      BY <1>3, <2>1 DEF WgRead, AlikeExport
    <2>3. WgRead(w, l) = [w EXCEPT !.allowedips = @ \cup l.val]
      BY <1>3 DEF WgRead
    <2>4. Halved(w.allowedips \cup l.val) = r.allowedips \cup Halved(l.val)
      BY HalvedUnion DEF AlikeExport
    <2> QED
      BY <2>2, <2>3, <2>4 DEF AlikeExport, IsWg
  <1>4. CASE /\ ~(w.section = "interface" /\ l.key = "mtu")
             /\ ~(w.section = "peer" /\ l.key \in {"endpoint", "allowedips"})
    <2>1. Rewritten(s, l) = l
      BY <1>4 DEF Rewritten
    <2> DEFINE keyed == \/ w.section = "interface" /\ l.key = "privatekey"
                        \/ w.section = "peer" /\ l.key \in {"publickey", "presharedkey"}
               address == w.section = "interface" /\ l.key = "address"
               dns == w.section = "interface" /\ l.key = "dns"
               alive == w.section = "peer" /\ l.key = "persistentkeepalive" /\ l.val > 0
    <2>2. ~r.failed /\ r.section = w.section /\ l.key # "section"
      BY DEF AlikeExport
    <2>3. CASE keyed
      <3>1. WgRead(r, l) = WithKey(r, l) /\ WgRead(w, l) = WithKey(w, l)
        BY <2>2, <2>3 DEF WgRead
      <3>2. CASE l.val = "bad"
        BY <2>1, <3>1, <3>2 DEF WithKey, AlikeExport, IsWg
      <3>3. CASE l.val # "bad"
        BY <2>1, <2>3, <3>1, <3>3 DEF WithKey, AlikeExport, IsWg
      <3> QED
        BY <3>2, <3>3
    <2>4. CASE address
      <3>1. /\ WgRead(r, l) = [r EXCEPT !.v4 = FirstOf(@, l.val.v4), !.v6 = FirstOf(@, l.val.v6)]
            /\ WgRead(w, l) = [w EXCEPT !.v4 = FirstOf(@, l.val.v4), !.v6 = FirstOf(@, l.val.v6)]
        BY <2>2, <2>4 DEF WgRead
      <3> QED
        BY <2>1, <3>1 DEF AlikeExport, IsWg
    <2>5. CASE dns
      <3>1. /\ WgRead(r, l) = [r EXCEPT !.dns = @ \cup l.val]
            /\ WgRead(w, l) = [w EXCEPT !.dns = @ \cup l.val]
        BY <2>2, <2>5 DEF WgRead
      <3> QED
        BY <2>1, <3>1 DEF AlikeExport, IsWg
    <2>6. CASE alive
      <3>1. /\ WgRead(r, l) = [r EXCEPT !.persistentkeepalive = l.val]
            /\ WgRead(w, l) = [w EXCEPT !.persistentkeepalive = l.val]
        BY <2>2, <2>6 DEF WgRead
      <3> QED
        BY <2>1, <3>1 DEF AlikeExport, IsWg
    <2>7. CASE ~keyed /\ ~address /\ ~dns /\ ~alive
      <3>1. WgRead(r, l) = r /\ WgRead(w, l) = w
        BY <1>4, <2>2, <2>7 DEF WgRead
      <3> QED
        BY <2>1, <3>1
    <2> QED
      BY <2>3, <2>4, <2>5, <2>6, <2>7
  <1> QED
    BY <1>1, <1>2, <1>3, <1>4

LEMMA ExportStep == ExportInv /\ [FileStep]_fvars => ExportInv'
  <1> SUFFICES ASSUME ExportInv, [FileStep]_fvars PROVE ExportInv'
    OBVIOUS
  <1>1. ASSUME NEW l \in Line, ReadLine(l), ~(merged /\ Side(l))
        PROVE  ExportInv'
    <2> DEFINE r == WgRead(ready, Before(rewrite, l))
    <2>1. /\ wg' = WgRead(wg, l) /\ ready' = WgRead(r, Rewritten(rewrite, l))
          /\ rewrite' = RewriteRead(rewrite, l) /\ ~ended /\ ~ended'
      BY <1>1 DEF ReadLine
    <2>2. IsWg(r) /\ AlikeExport(r, wg) /\ r.section = ready.section
      <3>1. CASE l.key = "section"
        BY <3>1, ReadMissing DEF Before, ExportInv
      <3>2. CASE l.key # "section"
        <4>1. r = ready
          BY <3>2 DEF Before, WgRead, Inert
        <4> QED
          BY <4>1 DEF ExportInv
      <3> QED
        BY <3>1, <3>2
    <2> HIDE DEF r
    <2>3. IsWg(wg') /\ IsWg(ready')
      BY <2>1, <2>2, WgReadShape DEF ExportInv
    <2>4. CASE wg.failed
      <3>1. wg' = wg /\ ready' = r
        BY <2>1, <2>2, <2>4, WgReadFailed DEF AlikeExport
      <3> QED
        BY <2>2, <2>3, <2>4, <3>1 DEF ExportInv
    <2>5. CASE ~wg.failed /\ l.key = "section"
      <3>1. Rewritten(rewrite, l) = l
        BY <2>5 DEF Rewritten
      <3>2. Alike(wg', wg) /\ wg'.section = l.val
        BY <2>1, <2>5, WgReadHeader DEF ExportInv
      <3>3. Alike(ready', r) /\ ready'.section = l.val
        BY <2>1, <2>2, <2>5, <3>1, WgReadHeader DEF AlikeExport
      <3>4. rewrite'.section = l.val
        BY <2>1, <2>5 DEF RewriteRead
      <3>5. AlikeExport(ready', wg')
        BY <2>2, <3>2, <3>3 DEF Alike, AlikeExport
      <3> QED
        BY <2>3, <3>2, <3>3, <3>4, <3>5 DEF ExportInv
    <2>6. CASE ~wg.failed /\ l.key # "section"
      <3>1. r.section = wg.section /\ rewrite.section = wg.section
        BY <2>1, <2>2, <2>6 DEF ExportInv
      <3>2. AlikeExport(ready', wg')
        BY <2>1, <2>2, <2>6, <3>1, ReadBoth DEF ExportInv
      <3>3. ASSUME NEW w, NEW k, IsWg(w), k.key # "section"
            PROVE  WgRead(w, k).section = w.section
        BY <3>3 DEF WgRead, WithKey, IsWg
      <3>4. Rewritten(rewrite, l).key # "section"
        BY <2>6, ConfigFileAssumption DEF Rewritten, MtuLine, LoopbackLine
      <3>5. wg'.section = wg.section /\ ready'.section = r.section
        BY <2>1, <2>2, <2>6, <3>3, <3>4 DEF ExportInv
      <3>6. ended' = ended
        BY <2>1, <1>1 DEF ReadLine
      <3>7. rewrite'.section = rewrite.section
        BY <2>1, <2>6 DEF RewriteRead
      <3> QED
        BY <2>3, <3>1, <3>2, <3>5, <3>7 DEF ExportInv
    <2> QED
      BY <2>4, <2>5, <2>6
  <1>2. ASSUME NEW l \in Line, ReadLine(l), merged /\ Side(l)
        PROVE  ExportInv'
    BY <1>2 DEF ReadLine, ExportInv
  <1>3. CASE EndText
    BY <1>3, ReadMissing DEF EndText, ExportInv
  <1>4. CASE UNCHANGED fvars
    BY <1>4 DEF fvars, ExportInv
  <1> QED
    BY <1>1, <1>2, <1>3, <1>4 DEF FileStep

LEMMA ExportInit == FileInit => ExportInv
  <1>1. IsWg(WgStart)
    BY DEF IsWg, WgStart
  <1>2. AlikeExport(WgStart, WgStart)
    BY DEF AlikeExport, WgStart, Halved, SafeMtu
  <1> QED
    BY <1>1, <1>2 DEF FileInit, ExportInv, WgStart, RewriteStart

LEMMA ExportImplies == ExportInv => ExportReadsAlike
  <1> SUFFICES ASSUME ExportInv PROVE ExportReadsAlike
    OBVIOUS
  <1>1. UNION {Reached(range) : range \in ready.allowedips}
           = UNION {Reached(range) : range \in wg.allowedips}
    BY HalvedReaches DEF ExportInv, AlikeExport
  <1>2. [ready EXCEPT !.mtu = SafeMtu, !.allowedips = {}]
           = [wg EXCEPT !.mtu = SafeMtu, !.allowedips = {}]
    BY DEF ExportInv, AlikeExport, IsWg
  <1> QED
    BY <1>1, <1>2 DEF ExportInv, ExportReadsAlike, AlikeExport

(* For any text: the exported configuration and the built-in client         *)
(* describe the same tunnel.                                                *)
THEOREM ExportIsTheSameTunnel == FileSpec => []ExportReadsAlike
  BY ExportInit, ExportStep, ExportImplies, PTL DEF FileSpec
-----------------------------------------------------------------------------
(* The program                                                              *)

\* A step of the program is a step of its parts, or of none.
LEMMA StepOfParts ==
    ASSUME [Next]_vars
    PROVE  /\ [FileStep]_fvars
           /\ [LineStep]_lvars \/ Relaunch
  BY DEF Next, vars, Help, Elevate, Write, Relaunch, Declined, TakePassed, Choose, Load,
         Enter, LoadFails, GoOn, uvars

PartsInv == LineInv /\ SplitInv /\ UsableInv /\ ExportInv

LEMMA PartsInit == Init => PartsInv
  <1> SUFFICES ASSUME Init PROVE PartsInv
    OBVIOUS
  <1>1. LineInv
    <2>1. asked \in Seq(Argument)
      BY StartupAssumption DEF Init
    <2>2. LInit
      BY <2>1 DEF Init, LInit
    <2> QED
      BY <2>2, LineInvInit
  <1>2. FileInit
    BY DEF Init
  <1>3. UsableInv /\ ExportInv
    BY <1>2, UsableInit, ExportInit
  <1> QED
    BY <1>1, <1>2, <1>3, SplitInit DEF PartsInv

LEMMA PartsStep == PartsInv /\ [Next]_vars => PartsInv'
  <1> SUFFICES ASSUME PartsInv, [Next]_vars PROVE PartsInv'
    OBVIOUS
  <1>1. SplitInv' /\ UsableInv' /\ ExportInv'
    BY StepOfParts, SplitStep, UsableStep, ExportStep DEF PartsInv
  <1>2. CASE [LineStep]_lvars
    BY <1>1, <1>2, LineStepInv DEF PartsInv
  <1>3. CASE Relaunch
    <2>1. line.done \in Seq(Argument)
      BY DEF PartsInv, LineInv
    <2>2. /\ args' = line.done /\ written' = 0 /\ place' = 0 /\ style' = "none"
          /\ held' = 0 /\ line' = NothingRead
      BY <1>3 DEF Relaunch, NextArguments
    <2>3. LineInv'
      BY <2>1, <2>2 DEF LineInv, IsLine, NothingRead
    <2> QED
      BY <1>1, <2>3 DEF PartsInv
  <1> QED
    BY <1>2, <1>3, StepOfParts

LEMMA PartsImply ==
    PartsInv => RelaunchSameArgs /\ SplitReadsAlike /\ ExportUsable /\ ExportReadsAlike
  BY LineInvSame, SplitInvImplies, UsableImplies, ExportImplies DEF PartsInv

\* The least of some numbers is one of them.
LEMMA LeastOf ==
    ASSUME NEW T \in SUBSET Nat, T # {}
    PROVE  Min(T) \in T
  <1> DEFINE R == {ss \in Nat \X Nat : ss[1] < ss[2]}
  <1>1. IsWellFoundedOn(R, Nat)
    BY NatLessThanWellFounded, Zenon DEF OpToRel
  <1>2. PICK x \in T : \A y \in T : ~ (<<y, x>> \in R)
    <2> HIDE DEF R
    <2> QED
      BY <1>1, WFMin
  <1>3. ASSUME NEW y \in T PROVE x <= y
    <2>1. x \in Nat /\ y \in Nat /\ ~ (<<y, x>> \in R)
      BY <1>2
    <2>2. ~ (y < x)
      BY <2>1
    <2> QED
      BY <2>1, <2>2
  <1> QED
    BY <1>3 DEF Min

\* Where there is nothing to take off, nothing is taken off.
LEMMA TrimBare ==
    ASSUME NEW a \in Argument, NEW chars, a # <<>> => a[1] \notin chars /\ a[Len(a)] \notin chars
    PROVE  Trim(a, chars) = a
  <1> DEFINE kept == {j \in 1 .. Len(a) : a[j] \notin chars}
  <1>1. a \in Seq(Char) /\ Len(a) \in Nat
    BY DEF Argument
  <1>2. CASE a = <<>>
    <2>1. kept = {}
      BY <1>2
    <2> QED
      BY <1>2, <2>1 DEF Trim
  <1>3. CASE a # <<>>
    <2>1. 1 \in kept /\ Len(a) \in kept /\ \A j \in kept : j \in Nat /\ 1 <= j /\ j <= Len(a)
      BY <1>1, <1>3
    <2> HIDE DEF kept
    <2>2. Min(kept) = 1
      BY <2>1 DEF Min
    <2>3. Max(kept) = Len(a)
      BY <1>1, <2>1 DEF Max
    <2>4. Trim(a, chars) = SubSeq(a, 1, Len(a))
      BY <2>1, <2>2, <2>3 DEF Trim, kept
    <2> QED
      BY <1>1, <2>4
  <1> QED
    BY <1>2, <1>3

LEMMA CleanPathBare ==
    ASSUME NEW a \in Argument, Bare(a)
    PROVE  CleanPath(a) = a
  BY TrimBare DEF CleanPath, Bare

LEMMA PassedBare ==
    ASSUME NEW list \in Seq(Argument), FirstPath(list) # <<>>, Bare(FirstPath(list)[1])
    PROVE  Passed(list) = FirstPath(list)
  <1> DEFINE paths == {j \in 1 .. Len(list) : IsPath(list[j])}
             k == Min(paths)
  <1>1. paths # {} /\ paths \in SUBSET Nat
    BY DEF FirstPath
  <1>2. k \in paths
    BY <1>1, LeastOf
  <1>3. FirstPath(list) = <<list[k]>> /\ list[k] \in Argument
    BY <1>1, <1>2 DEF FirstPath
  <1> HIDE DEF k
  <1>4. FirstPath(list)[1] = list[k]
    BY <1>3
  <1>5. CleanPath(FirstPath(list)[1]) = list[k]
    BY <1>3, <1>4, CleanPathBare
  <1> QED
    BY <1>3, <1>5 DEF Passed

\* What the program still has to know of the user's command when it chooses a mode.
StartsInv ==
    /\ phase \in Phase
    /\ args = asked /\ asked \in Seq(Argument)
    /\ phase \in {"main", "relaunch"} => imports = 0
    /\ phase \in {"choose", "load", "window", "tunnel", "proxy"} =>
          /\ ~Has(asked, HelpFlag)
          /\ Has(asked, ProxyFlag) \/ admin
          /\ file = Passed(asked)
          /\ imports \in {0, 1} /\ (file = <<>> => imports = 0)
    /\ phase \in {"load", "tunnel"} => Has(asked, ProxyFlag) \/ Has(asked, CliFlag)
    /\ phase = "window" => ~Has(asked, ProxyFlag) /\ ~Has(asked, CliFlag)
    /\ phase = "tunnel" => ~Has(asked, ProxyFlag)
    /\ phase = "proxy" => Has(asked, ProxyFlag)

LEMMA StartsStep == StartsInv /\ PartsInv /\ [Next]_vars => StartsInv'
  <1> SUFFICES ASSUME StartsInv, PartsInv, [Next]_vars PROVE StartsInv'
    OBVIOUS
  <1>1. CASE Help
    BY <1>1 DEF Help, GoOn, StartsInv, Phase, lvars
  <1>2. CASE Elevate
    BY <1>2 DEF Elevate, StartsInv, Phase, lvars
  <1>3. CASE Write
    BY <1>3 DEF Write, LineStep, Open, Put, Close, StartsInv, uvars
  <1>4. CASE Relaunch
    <2>1. line.done = args
      BY <1>4, PartsImply DEF Relaunch, RelaunchSameArgs
    <2> QED
      BY <1>4, <2>1 DEF Relaunch, NextArguments, StartsInv, Phase
  <1>5. CASE Declined
    BY <1>5 DEF Declined, GoOn, StartsInv, Phase, lvars
  <1>6. CASE TakePassed
    BY <1>6 DEF TakePassed, StartsInv, Phase, lvars
  <1>7. CASE Choose
    BY <1>7 DEF Choose, GoOn, StartsInv, Phase, lvars
  <1>8. CASE Load
    BY <1>8 DEF Load, StartsInv, uvars, lvars
  <1>9. CASE Enter
    BY <1>9 DEF Enter, GoOn, StartsInv, Phase, lvars
  <1>10. CASE LoadFails
    BY <1>10 DEF LoadFails, GoOn, StartsInv, Phase, lvars
  <1>11. CASE UNCHANGED vars
    BY <1>11 DEF vars, uvars, lvars, StartsInv
  <1> QED
    BY <1>1, <1>2, <1>3, <1>4, <1>5, <1>6, <1>7, <1>8, <1>9, <1>10, <1>11 DEF Next

(* Whatever the user types, the program ends up in the mode and with the    *)
(* file that was asked for, through any number of elevated copies.          *)
THEOREM StartsAsTheUserAsked == Spec => []StartsAsAsked
  <1>1. Init => StartsInv
    BY StartupAssumption DEF Init, LineInit, StartsInv, Phase
  <1>2. StartsInv => StartsAsAsked
    BY PassedBare DEF StartsInv, StartsAsAsked, Phase
  <1> QED
    BY <1>1, <1>2, PartsInit, PartsStep, StartsStep, PTL DEF Spec

(* What holds of the command line and of the configuration alone holds of   *)
(* the program they are parts of.                                           *)
THEOREM StartupKeepsParts ==
    Spec => [](RelaunchSameArgs /\ SplitReadsAlike /\ ExportUsable /\ ExportReadsAlike)
  BY PartsInit, PartsStep, PartsImply, PTL DEF Spec
=============================================================================
