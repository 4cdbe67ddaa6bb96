-------------------------- MODULE ExtensionProofs --------------------------
(***************************************************************************)
(* Whatever is stopped, locked, lost or late, the vault on disk holds the  *)
(* key the server serves, and knows which key that is once nothing about   *)
(* it is open.                                                             *)
(*                                                                         *)
(* What the world knows of an identity is its Book: the key served, the    *)
(* keys given up, the ones in doubt, and the rotations on their way.  The  *)
(* invariant says what a copy of an account, on disk or in a save, owes to *)
(* the book (Sound): the rotations on their way are in it youngest first,  *)
(* and each has in front of it only keys in doubt.  The lemmas on copies   *)
(* are about those two alone; the rest shows that a step turns the books   *)
(* and the copies the way one of these lemmas describes.                   *)
(***************************************************************************)
EXTENDS Extension, FiniteSetTheorems, WellFoundedInduction, TLAPS

Account == [cur : Kid, old : Seq(Kid)]

----------------------------------------------------------------------------
(* A copy of an account, against what is known of its identity *)

Books ==
    [served : Nat, lost : SUBSET Kid, doubt : SUBSET Kid, stray : BOOLEAN, last : Nat,
     sent : SUBSET Nat,    \* rotations handed to a page
     open : SUBSET Nat,    \* those, and the one being saved
     back : SUBSET Nat]    \* rotations that can still be undone

\* A key served counts no more: given up, or published by an unsaved vault.
Off(b) == b.stray \/ b.served = 0 \/ b.served \in b.lost
Backed(b, held) == b.stray \/ b.served = 0 \/ b.served \in held \cup b.lost

\* In the order of their making, the youngest first.
InLine(a, y) == \A n \in DOMAIN a.old : a.old[n] = y => a.cur > y /\ \A m \in 1 .. n - 1 : a.old[m] > y

\* Nothing certain has come after y: y is current or what is current is in doubt,
\* and undoing that one does not change it.
Younger(b, y, ks) == \E k \in ks : k \in b.doubt /\ k > y
Ahead(b, a, y) ==
    \/ b.stray \/ b.served >= y
    \/ /\ a.cur = y \/ Younger(b, y, {a.cur} \cup b.lost)
       /\ a.cur # y /\ a.cur \in b.back =>
            a.old[1] = y \/ Younger(b, y, ({a.old[1]} \cup b.lost) \ {a.cur})

Unsettled(b, ks) == \E k \in ks : k \in b.doubt
Settled(b, a) == Off(b) \/ a.cur = b.served \/ Unsettled(b, Held(a) \cup b.lost)

\* What undoing key r leaves is the key served, or nothing is certain.
Returns(b, held, cur, r) ==
    r \in b.lost \cup {b.served} \/ Off(b) \/ cur = b.served \/ Unsettled(b, (held \cup b.lost) \ {r})
Undoable(b, a) == a.cur \in b.back /\ a.old # <<>> => Returns(b, Held(a), a.old[1], a.cur)
Undone(b, a, r) == Returns(b, Held(a), a.cur, r) /\ (r \in b.lost \/ a.cur # r)

Sound(b, a) ==
    /\ \A k \in Held(a) : k <= b.last
    /\ Backed(b, Held(a))
    /\ b.sent \subseteq Held(a) \cup b.lost
    /\ \A y \in b.open : y \in Held(a) /\ y \notin b.lost => InLine(a, y) /\ Ahead(b, a, y)
    /\ Settled(b, a) /\ Undoable(b, a)

\* Of a book alone.
Kept(b) ==
    /\ b.doubt \subseteq 1 .. b.last /\ b.sent \subseteq b.open
    /\ \A y \in b.open : y <= b.last

\* More is known, or less is on its way; a younger rotation may have started.
Grows(b, c) ==
    /\ c.served = b.served /\ b.lost \subseteq c.lost /\ b.doubt \subseteq c.doubt
    /\ b.stray => c.stray
    /\ b.last <= c.last /\ c.sent \subseteq b.sent
    /\ \A y \in c.open : y \in b.open \/ y > b.last
    /\ \A y \in c.back : y \in b.back \/ y > b.last

LEMMA HeldIs ==
    ASSUME NEW a \in Account
    PROVE  /\ a.cur \in Kid /\ a.old \in Seq(Kid) /\ Held(a) \subseteq Kid /\ a.cur \in Held(a)
           /\ \A n \in 1 .. Len(a.old) : a.old[n] \in Held(a)
           /\ DOMAIN a.old = 1 .. Len(a.old) /\ Len(a.old) \in Nat
           /\ \A k \in Held(a) : k = a.cur \/ \E n \in 1 .. Len(a.old) : k = a.old[n]
           /\ a.old # <<>> => a.old[1] \in Held(a) /\ 1 <= Len(a.old)
<1>1. a.cur \in Kid /\ a.old \in Seq(Kid) /\ DOMAIN a.old = 1 .. Len(a.old) /\ Len(a.old) \in Nat
    BY DEF Account
<1>2. \A n \in 1 .. Len(a.old) : a.old[n] \in Kid
    BY <1>1
<1>3. a.old # <<>> => 1 \in 1 .. Len(a.old)
    BY <1>1
<1>4. \A k : k \in Held(a) <=> k = a.cur \/ \E n \in 1 .. Len(a.old) : k = a.old[n]
    BY <1>1 DEF Held, ToSet
<1> QED BY <1>1, <1>2, <1>3, <1>4

\* A copy stays sound as the book grows.
LEMMA GrowsSound ==
    ASSUME NEW b \in Books, NEW c \in Books, NEW a \in Account, Grows(b, c), Sound(b, a)
    PROVE  Sound(c, a)
<1>0. a.cur \in Kid /\ Held(a) \subseteq Kid /\ a.cur \in Held(a) /\ a.cur <= b.last
    BY HeldIs DEF Sound
<1>1. /\ \A k \in Held(a) : k <= c.last
      /\ Backed(c, Held(a)) /\ c.sent \subseteq Held(a) \cup c.lost
    BY <1>0 DEF Sound, Grows, Backed, Books, Kid
<1>2. Settled(c, a)
    BY DEF Sound, Grows, Settled, Off, Unsettled, Books
<1>3. Undoable(c, a)
    BY <1>0 DEF Sound, Grows, Undoable, Returns, Off, Unsettled, Books, Kid
<1>4. ASSUME NEW y \in c.open, y \in Held(a), y \notin c.lost PROVE InLine(a, y) /\ Ahead(c, a, y)
    <2>1. y \in b.open /\ y \notin b.lost /\ y <= b.last
        BY <1>0, <1>4 DEF Grows, Sound, Books, Kid
    <2>2. InLine(a, y) /\ Ahead(b, a, y)
        BY <1>4, <2>1 DEF Sound
    <2> QED BY <1>0, <2>2 DEF Ahead, Younger, Grows, Books, Kid
<1> QED BY <1>1, <1>2, <1>3, <1>4 DEF Sound

\* The current key retired, in front of those retired before it.
LEMMA RotatedIs ==
    ASSUME NEW a \in Account, NEW y \in Kid
    PROVE  LET r == Rotated(a, y)
           IN  /\ r \in Account /\ r.cur = y /\ Held(r) = Held(a) \cup {y}
               /\ Len(r.old) = Len(a.old) + 1 /\ r.old[1] = a.cur /\ r.old # <<>>
               /\ \A n \in 2 .. Len(r.old) : n - 1 \in 1 .. Len(a.old) /\ r.old[n] = a.old[n - 1]
               /\ \A n \in 1 .. Len(r.old) : r.old[n] \in Held(a)
<1> DEFINE r == Rotated(a, y)
<1>0. /\ a.cur \in Kid /\ Held(a) \subseteq Kid /\ a.cur \in Held(a) /\ Len(a.old) \in Nat
      /\ a.old \in Seq(Kid) /\ \A n \in 1 .. Len(a.old) : a.old[n] \in Held(a)
    BY HeldIs
<1>1. r \in Account /\ r.cur = y /\ r.old = <<a.cur>> \o a.old
    BY <1>0 DEF Account, Rotated
<1> HIDE DEF r
<1>2. /\ Len(r.old) = Len(a.old) + 1 /\ r.old[1] = a.cur /\ r.old # <<>>
      /\ \A n \in 2 .. Len(r.old) : n - 1 \in 1 .. Len(a.old) /\ r.old[n] = a.old[n - 1]
      /\ \A n \in 1 .. Len(a.old) : a.old[n] = r.old[n + 1]
    BY <1>0, <1>1
<1>8. \A n \in 1 .. Len(r.old) : r.old[n] \in Held(a)
    <2>1. \A n \in 1 .. Len(r.old) : n = 1 \/ n \in 2 .. Len(r.old)
        BY <1>0, <1>2
    <2> QED BY <1>0, <1>2, <2>1
<1>3. Held(r) = Held(a) \cup {y}
    <2>2. \A k \in Held(r) : k \in Held(a) \cup {y}
        <3> SUFFICES ASSUME NEW k \in Held(r) PROVE k \in Held(a) \cup {y}
            OBVIOUS
        <3>1. k = r.cur \/ \E n \in 1 .. Len(r.old) : k = r.old[n]
            BY <1>1, HeldIs
        <3> QED BY <1>1, <1>8, <3>1
    <2>3. \A k \in Held(a) : k \in Held(r)
        <3> SUFFICES ASSUME NEW k \in Held(a) PROVE k \in Held(r)
            OBVIOUS
        <3>1. k = a.cur \/ \E n \in 1 .. Len(a.old) : k = a.old[n]
            BY HeldIs
        <3>2. \A n \in 1 .. Len(a.old) : n + 1 \in 1 .. Len(r.old)
            BY <1>0, <1>2
        <3>3. \A n \in 1 .. Len(r.old) : r.old[n] \in Held(r)
            BY <1>1, HeldIs
        <3>4. 1 \in 1 .. Len(r.old)
            BY <1>0, <1>2
        <3> QED BY <1>2, <3>1, <3>2, <3>3, <3>4
    <2>4. y \in Held(r)
        BY <1>1, HeldIs
    <2> QED BY <2>2, <2>3, <2>4
<1> QED BY <1>1, <1>2, <1>3, <1>8 DEF r

\* A rotation in the vault: younger than all, and in doubt.
LEMMA RotatedSound ==
    ASSUME NEW b \in Books, NEW c \in Books, NEW a \in Account, NEW y \in Kid,
           Grows(b, c), Kept(b), Sound(b, a), y > b.last, y \in c.doubt, y <= c.last,
           c.open \subseteq b.open \cup {y}
    PROVE  Rotated(a, y) \in Account /\ Sound(c, Rotated(a, y))
<1> DEFINE r == Rotated(a, y)
<1>0. /\ a.cur \in Kid /\ Held(a) \subseteq Kid /\ a.cur \in Held(a) /\ a.cur <= b.last
      /\ a.old \in Seq(Kid) /\ \A n \in 1 .. Len(a.old) : a.old[n] \in Held(a)
    BY HeldIs DEF Sound
<1> HIDE DEF r
<1>2. /\ Len(r.old) = Len(a.old) + 1 /\ r.old[1] = a.cur /\ r.old # <<>>
      /\ \A n \in 2 .. Len(r.old) : n - 1 \in 1 .. Len(a.old) /\ r.old[n] = a.old[n - 1]
      /\ \A n \in 1 .. Len(r.old) : r.old[n] \in Held(a)
      /\ Held(r) = Held(a) \cup {y} /\ r \in Account /\ r.cur = y
    BY RotatedIs DEF r
<1>4. Sound(c, a)
    BY GrowsSound
<1>5. Settled(c, r) /\ Undoable(c, r)
    <2>1. Settled(c, r)
        BY <1>2 DEF Settled, Unsettled
    <2>2. Off(b) \/ a.cur = b.served \/ \E k \in Held(a) \cup b.lost : k \in b.doubt
        BY DEF Sound, Settled, Unsettled
    <2>3. \A k \in b.doubt : k # y /\ k \in c.doubt
        BY DEF Kept, Grows, Books, Kid
    <2>4. Returns(c, Held(r), r.old[1], r.cur)
        BY <1>2, <2>2, <2>3 DEF Returns, Unsettled, Off, Grows
    <2> QED BY <2>1, <2>4 DEF Undoable
<1>6. ASSUME NEW z \in c.open, z \in Held(r), z \notin c.lost PROVE InLine(r, z) /\ Ahead(c, r, z)
    <2>1. CASE z = y
        <3>1. \A n \in 1 .. Len(r.old) : r.old[n] # z
            BY <1>2, <2>1 DEF Sound, Books, Kid
        <3> QED BY <1>2, <2>1, <3>1, HeldIs DEF InLine, Ahead
    <2>2. CASE z # y
        <3>1. z \in b.open /\ z \in Held(a) /\ z \notin b.lost /\ z < y /\ z \in Kid
            BY <1>0, <1>2, <1>6, <2>2 DEF Grows, Sound, Books, Kid
        <3>2. InLine(a, z) /\ Ahead(b, a, z)
            BY <3>1 DEF Sound
        <3>3. InLine(r, z)
            <4> SUFFICES ASSUME NEW n \in 1 .. Len(r.old), r.old[n] = z
                         PROVE  r.cur > z /\ \A m \in 1 .. n - 1 : r.old[m] > z
                BY <1>2, HeldIs DEF InLine
            <4>1. CASE n = 1
                BY <1>2, <3>1, <4>1
            <4>2. CASE n # 1
                <5>1. n - 1 \in 1 .. Len(a.old) /\ a.old[n - 1] = z /\ n \in Nat /\ Len(a.old) \in Nat
                    BY <1>0, <1>2, <4>2
                <5>2. a.cur > z /\ \A m \in 1 .. n - 2 : a.old[m] > z
                    BY <3>2, <5>1, HeldIs DEF InLine
                <5>3. ASSUME NEW m \in 1 .. n - 1 PROVE r.old[m] > z
                    <6>1. CASE m = 1
                        BY <1>2, <5>2, <6>1
                    <6>2. CASE m # 1
                        <7>1. m - 1 \in 1 .. n - 2 /\ m \in 2 .. Len(r.old)
                            BY <1>2, <5>1, <6>2
                        <7> QED BY <1>2, <5>2, <7>1
                    <6> QED BY <6>1, <6>2
                <5> QED BY <1>2, <3>1, <5>3
            <4> QED BY <4>1, <4>2
        <3>4. Ahead(c, r, z)
            <4>1. r.cur = y /\ y > z /\ r.old[1] = a.cur
                BY <1>2, <3>1
            <4>2. Younger(c, z, {r.cur} \cup c.lost)
                BY <4>1 DEF Younger
            <4>3. CASE b.stray \/ b.served >= z
                BY <4>3 DEF Ahead, Grows
            <4>4. CASE a.cur = z
                BY <4>1, <4>2, <4>4 DEF Ahead
            <4>5. CASE Younger(b, z, {a.cur} \cup b.lost)
                <5>1. PICK k \in {a.cur} \cup b.lost : k \in b.doubt /\ k > z
                    BY <4>5 DEF Younger
                <5>2. k # y /\ k \in c.doubt
                    BY <5>1 DEF Kept, Grows, Books, Kid
                <5>3. Younger(c, z, ({r.old[1]} \cup c.lost) \ {r.cur})
                    BY <4>1, <5>1, <5>2 DEF Younger, Grows
                <5> QED BY <4>2, <5>3 DEF Ahead
            <4> QED BY <3>2, <4>3, <4>4, <4>5 DEF Ahead
        <3> QED BY <3>3, <3>4
    <2> QED BY <2>1, <2>2
<1>7. /\ \A k \in Held(r) : k <= c.last
      /\ Backed(c, Held(r)) /\ c.sent \subseteq Held(r) \cup c.lost
    BY <1>2, <1>4 DEF Sound, Backed
<1> QED BY <1>2, <1>5, <1>6, <1>7 DEF r, Sound

\* The key retired last is current again, and what was current takes its place.
LEMMA RevertedIs ==
    ASSUME NEW a \in Account, a.old # <<>>
    PROVE  LET r == Reverted(a)
           IN  /\ r \in Account /\ r.cur = a.old[1] /\ Held(r) = Held(a)
               /\ Len(r.old) = Len(a.old) /\ r.old[1] = a.cur
               /\ \A n \in 2 .. Len(a.old) : r.old[n] = a.old[n]
<1> DEFINE r == Reverted(a)
<1>0. /\ a.cur \in Kid /\ Held(a) \subseteq Kid /\ a.cur \in Held(a) /\ Len(a.old) \in Nat
      /\ a.old \in Seq(Kid) /\ (\A n \in 1 .. Len(a.old) : a.old[n] \in Held(a)) /\ 1 <= Len(a.old)
    BY HeldIs
<1>1. /\ r \in Account /\ r.cur = a.old[1] /\ r.old = <<a.cur>> \o Tail(a.old)
    BY <1>0 DEF Account, Reverted
<1> HIDE DEF r
<1>2. Tail(a.old) \in Seq(Kid) /\ Len(Tail(a.old)) = Len(a.old) - 1
      /\ \A n \in 1 .. Len(a.old) - 1 : Tail(a.old)[n] = a.old[n + 1]
    BY <1>0
<1>3. /\ Len(r.old) = Len(a.old) /\ r.old[1] = a.cur
      /\ \A n \in 2 .. Len(a.old) : r.old[n] = a.old[n]
    BY <1>0, <1>1, <1>2
<1>4. Held(r) = Held(a)
    <2>1. \A n \in 1 .. Len(a.old) : n = 1 \/ n \in 2 .. Len(a.old)
        BY <1>0
    <2>2. \A n \in 1 .. Len(r.old) : r.old[n] \in Held(a)
        BY <1>0, <1>3, <2>1
    <2>3. r.cur \in Held(a)
        BY <1>0, <1>1
    <2>4. \A k \in Held(r) : k \in Held(a)
        BY <1>1, <2>2, <2>3, HeldIs
    <2>5. r.cur \in Held(r) /\ \A n \in 1 .. Len(r.old) : r.old[n] \in Held(r)
        BY <1>1, HeldIs
    <2>6. \A n \in 1 .. Len(a.old) : a.old[n] \in Held(r)
        BY <1>1, <1>3, <2>1, <2>5
    <2>7. a.cur \in Held(r)
        BY <1>0, <1>3, <2>5
    <2>8. \A k \in Held(a) : k \in Held(r)
        BY <2>6, <2>7, HeldIs
    <2> QED BY <2>4, <2>8
<1> QED BY <1>1, <1>3, <1>4 DEF r

\* A rotation undone in the vault: the key it retired is current, its own is kept
\* and in doubt; the older rotations still on their way are in line behind it.
LEMMA RevertedSound ==
    ASSUME NEW b \in Books, NEW c \in Books, NEW a \in Account, Grows(b, c), Sound(b, a),
           a.old # <<>>, a.cur \in b.back, a.cur \in b.open, a.cur \in b.doubt,
           c.back = {}, \A y \in c.open : y \in b.open /\ y < a.cur
    PROVE  /\ Reverted(a) \in Account /\ Sound(c, Reverted(a)) /\ Held(Reverted(a)) = Held(a)
           /\ Undone(c, Reverted(a), a.cur)
<1> DEFINE r == Reverted(a)
<1>0. /\ a.cur \in Kid /\ Held(a) \subseteq Kid /\ a.cur \in Held(a) /\ Len(a.old) \in Nat
      /\ a.old \in Seq(Kid) /\ (\A n \in 1 .. Len(a.old) : a.old[n] \in Held(a)) /\ 1 <= Len(a.old)
    BY HeldIs
<1>1. /\ r \in Account /\ r.cur = a.old[1] /\ Held(r) = Held(a)
      /\ Len(r.old) = Len(a.old) /\ r.old[1] = a.cur
      /\ \A n \in 2 .. Len(a.old) : r.old[n] = a.old[n]
    BY RevertedIs
<1> HIDE DEF r
<1>5. Sound(c, a)
    BY GrowsSound
<1>6. a.cur \in c.doubt
    BY DEF Grows
<1>7. Settled(c, r) /\ Undoable(c, r)
    BY <1>0, <1>1, <1>6 DEF Settled, Unsettled, Undoable
<1>8. Undone(c, r, a.cur)
    <2>1. Returns(b, Held(a), a.old[1], a.cur)
        BY DEF Sound, Undoable
    <2>2. Returns(c, Held(r), r.cur, a.cur)
        BY <1>1, <2>1 DEF Returns, Off, Unsettled, Grows
    <2>3. a.cur \in b.lost \/ r.cur # a.cur
        <3> SUFFICES ASSUME a.cur \notin b.lost, a.old[1] = a.cur PROVE FALSE
            BY <1>1
        <3>1. InLine(a, a.cur)
            BY <1>0 DEF Sound
        <3>2. 1 \in DOMAIN a.old
            BY <1>0
        <3> QED BY <1>0, <3>1, <3>2 DEF InLine, Kid
    <2> QED BY <2>2, <2>3 DEF Undone, Grows
<1>9. ASSUME NEW z \in c.open, z \in Held(r), z \notin c.lost PROVE InLine(r, z) /\ Ahead(c, r, z)
    <2>1. z \in b.open /\ z \in Held(a) /\ z \notin b.lost /\ z < a.cur /\ z \in Kid
        BY <1>0, <1>1, <1>9 DEF Grows
    <2>2. InLine(a, z) /\ Ahead(b, a, z)
        BY <2>1 DEF Sound
    <2>3. InLine(r, z)
        <3> SUFFICES ASSUME NEW n \in 1 .. Len(r.old), r.old[n] = z
                     PROVE  r.cur > z /\ \A m \in 1 .. n - 1 : r.old[m] > z
            BY <1>1, HeldIs DEF InLine
        <3>1. n # 1
            BY <1>0, <1>1, <2>1 DEF Kid
        <3>2. n \in 2 .. Len(a.old) /\ n \in Nat /\ a.old[n] = z
            BY <1>0, <1>1, <3>1
        <3>3. n \in DOMAIN a.old
            BY <1>0, <3>2
        <3>4. \A m \in 1 .. n - 1 : a.old[m] > z
            BY <2>2, <3>2, <3>3 DEF InLine
        <3>5. a.old[1] > z
            BY <3>2, <3>4
        <3>6. ASSUME NEW m \in 1 .. n - 1 PROVE r.old[m] > z
            <4>1. CASE m = 1
                BY <1>0, <1>1, <2>1, <4>1 DEF Kid
            <4>2. CASE m # 1
                <5>1. m \in 2 .. Len(a.old)
                    BY <1>0, <3>2, <4>2
                <5> QED BY <1>1, <3>4, <5>1
            <4> QED BY <4>1, <4>2
        <3> QED BY <1>1, <3>5, <3>6
    <2>4. Ahead(c, r, z)
        <3>1. CASE b.stray \/ b.served >= z
            BY <3>1 DEF Ahead, Grows
        <3>2. CASE a.old[1] = z \/ Younger(b, z, ({a.old[1]} \cup b.lost) \ {a.cur})
            BY <1>1, <3>2 DEF Ahead, Younger, Grows
        <3> QED BY <1>0, <2>1, <2>2, <3>1, <3>2 DEF Ahead, Kid
    <2> QED BY <2>3, <2>4
<1>10. /\ \A k \in Held(r) : k <= c.last
       /\ Backed(c, Held(r)) /\ c.sent \subseteq Held(r) \cup c.lost
    BY <1>1, <1>5 DEF Sound
<1> QED BY <1>1, <1>7, <1>8, <1>9, <1>10 DEF r, Sound

\* A rotation published settles the keys up to its own; a younger one is in doubt,
\* or the one published is current.
LEMMA PublishedSound ==
    ASSUME NEW b \in Books, NEW c \in Books, NEW a \in Account, NEW y \in Kid,
           Sound(b, a), y \in b.sent, y \in b.open, b.served < y,
           c.served = y, c.lost = b.lost, c.stray = b.stray, c.last = b.last,
           \A k \in b.doubt : k \in c.doubt \/ k <= y,
           c.sent \subseteq b.sent, c.open \subseteq b.open, c.back \subseteq b.back
    PROVE  /\ Sound(c, a)
           /\ \A r : Undone(b, a, r) => Undone(c, a, r)
<1>0. a.cur \in Kid /\ Held(a) \subseteq Kid /\ a.cur \in Held(a)
      /\ (a.old # <<>> => a.old[1] \in Held(a))
    BY HeldIs
<1>1. y \in Held(a) \cup b.lost
    BY DEF Sound
<1>2. /\ \A k \in Held(a) : k <= c.last
      /\ Backed(c, Held(a)) /\ c.sent \subseteq Held(a) \cup c.lost
    BY <1>1 DEF Sound, Backed
<1>3. ASSUME NEW z \in c.open, z \in Held(a), z \notin c.lost PROVE InLine(a, z) /\ Ahead(c, a, z)
    <2>1. z \in b.open /\ z \in Kid
        BY <1>0, <1>3
    <2>2. InLine(a, z) /\ Ahead(b, a, z)
        BY <1>3, <2>1 DEF Sound
    <2>3. CASE y >= z
        BY <2>2, <2>3 DEF Ahead
    <2>4. CASE y < z
        <3>1. \A k \in b.doubt : k > z => k \in c.doubt
            BY <2>1, <2>4 DEF Books, Kid
        <3>2. ~ (b.served >= z)
            BY <2>1, <2>4 DEF Books, Kid
        <3> QED BY <2>2, <3>1, <3>2 DEF Ahead, Younger
    <2> QED BY <2>1, <2>2, <2>3, <2>4 DEF Kid
<1>4. CASE c.stray \/ y \in c.lost
    <2>1. Settled(c, a) /\ Undoable(c, a) /\ \A r : Undone(b, a, r) => Undone(c, a, r)
        BY <1>4 DEF Settled, Undoable, Undone, Returns, Off
    <2> QED BY <2>1, <1>2, <1>3 DEF Sound
<1>5. CASE ~ c.stray /\ y \notin c.lost
    <2>1. Ahead(b, a, y)
        BY <1>1, <1>5 DEF Sound
    <2>2. ~ (b.served >= y) /\ ~ b.stray
        BY <1>5 DEF Books, Kid
    <2>3. /\ a.cur = y \/ Younger(b, y, {a.cur} \cup b.lost)
          /\ a.cur # y /\ a.cur \in b.back =>
               a.old[1] = y \/ Younger(b, y, ({a.old[1]} \cup b.lost) \ {a.cur})
        BY <2>1, <2>2 DEF Ahead
    <2>4. \A k \in b.doubt : k > y => k \in c.doubt
        BY DEF Books, Kid
    <2>5. Settled(c, a)
        BY <1>0, <2>3, <2>4 DEF Settled, Unsettled, Younger
    <2>6. Undoable(c, a)
        <3> SUFFICES ASSUME a.cur \in c.back, a.old # <<>> PROVE Returns(c, Held(a), a.old[1], a.cur)
            BY DEF Undoable
        <3>1. CASE a.cur = y
            BY <3>1 DEF Returns
        <3>2. CASE a.cur # y
            <4>1. CASE a.old[1] = y
                BY <4>1 DEF Returns
            <4>2. CASE Younger(b, y, ({a.old[1]} \cup b.lost) \ {a.cur})
                BY <1>0, <2>4, <4>2 DEF Younger, Returns, Unsettled
            <4> QED BY <2>3, <3>2, <4>1, <4>2
        <3> QED BY <3>1, <3>2
    <2>7. ASSUME NEW r, Undone(b, a, r) PROVE Undone(c, a, r)
        <3>1. r \in b.lost \/ a.cur # r
            BY <2>7 DEF Undone
        <3>2. Returns(c, Held(a), a.cur, r)
            BY <1>0, <2>3, <2>4, <3>1 DEF Returns, Unsettled, Younger
        <3> QED BY <3>1, <3>2 DEF Undone
    <2> QED BY <1>2, <1>3, <2>5, <2>6, <2>7 DEF Sound
<1> QED BY <1>4, <1>5

\* A login publishes the current key of the vault: no rotation on its way is younger.
LEMMA LoggedInSound ==
    ASSUME NEW b \in Books, NEW c \in Books, NEW a \in Account, Sound(b, a),
           c.served = a.cur, c.lost = b.lost, c.last = b.last, c.sent = b.sent, c.open = b.open
    PROVE  Sound(c, a)
<1>0. a.cur \in Kid /\ Held(a) \subseteq Kid /\ a.cur \in Held(a)
    BY HeldIs
<1>1. /\ \A k \in Held(a) : k <= c.last
      /\ Backed(c, Held(a)) /\ c.sent \subseteq Held(a) \cup c.lost
      /\ Settled(c, a) /\ Undoable(c, a)
    BY <1>0 DEF Sound, Backed, Settled, Undoable, Returns
<1>2. ASSUME NEW z \in c.open, z \in Held(a), z \notin c.lost PROVE InLine(a, z) /\ Ahead(c, a, z)
    <2>1. InLine(a, z)
        BY <1>2 DEF Sound
    <2>2. a.cur >= z
        <3>1. z = a.cur \/ \E n \in 1 .. Len(a.old) : z = a.old[n] /\ n \in DOMAIN a.old
            BY <1>2, HeldIs
        <3>2. z = a.cur \/ a.cur > z
            BY <2>1, <3>1 DEF InLine
        <3>3. z \in Kid
            BY <1>0, <1>2
        <3> QED BY <1>0, <3>2, <3>3 DEF Kid
    <2> QED BY <2>1, <2>2 DEF Ahead
<1> QED BY <1>1, <1>2 DEF Sound

\* Published by a vault that could not be saved, an identity counts no more.
LEMMA StraySound ==
    ASSUME NEW b \in Books, NEW c \in Books, NEW a \in Account, Sound(b, a),
           c.stray, c.lost = b.lost, c.last = b.last, c.sent = b.sent, c.open = b.open
    PROVE  Sound(c, a)
BY DEF Sound, Backed, Ahead, Settled, Undoable, Returns, Off

\* An undo stored: the key it undid is in doubt no more, unless it is the one served.
LEMMA UndoneSound ==
    ASSUME NEW b \in Books, NEW c \in Books, NEW a \in Account, NEW r, Sound(b, a), Undone(b, a, r),
           c.served = b.served, c.lost = b.lost, c.stray = b.stray, c.last = b.last,
           c.sent \subseteq b.sent, c.open \subseteq b.open, c.back = {},
           c.doubt = IF r \notin b.lost \cup {b.served} THEN b.doubt \ {r} ELSE b.doubt
    PROVE  Sound(c, a)
<1>0. a.cur \in Held(a)
    BY HeldIs
<1>1. CASE r \in b.lost \cup {b.served}
    BY <1>1 DEF Sound, Backed, Ahead, Younger, Settled, Unsettled, Undoable, Off
<1>2. CASE r \notin b.lost \cup {b.served}
    <2>1. a.cur # r /\ (Off(b) \/ a.cur = b.served \/ Unsettled(b, (Held(a) \cup b.lost) \ {r}))
        BY <1>2 DEF Undone, Returns
    <2>2. Settled(c, a) /\ Undoable(c, a)
        BY <1>2, <2>1 DEF Settled, Unsettled, Undoable, Off
    <2>3. \A z : Ahead(b, a, z) => Ahead(c, a, z)
        BY <1>2, <2>1 DEF Ahead, Younger
    <2> QED BY <2>2, <2>3 DEF Sound, Backed
<1> QED BY <1>1, <1>2

\* An account new to this vault, whose rotations on their way are given up: what
\* the world knows of it is in doubt, or nothing.
LEMMA NewSound ==
    ASSUME NEW c \in Books, NEW a \in Account,
           \A k \in Held(a) : k <= c.last, Backed(c, Held(a)),
           c.sent \subseteq c.lost, c.open \subseteq c.lost, c.back \subseteq c.lost,
           c.served = 0 \/ a.cur \in c.doubt
    PROVE  Sound(c, a)
<1>0. a.cur \in Held(a)
    BY HeldIs
<1> QED BY <1>0 DEF Sound, Settled, Undoable, Returns, Off, Unsettled

----------------------------------------------------------------------------
(* A list without one of its elements: the others in the order they were *)

LEMMA Least == ASSUME NEW T \in SUBSET Nat, T # {} PROVE \E x \in T : \A y \in T : x <= y
<1>1. PICK x \in T : \A y \in T : ~ (<<y, x>> \in OpToRel(<, Nat))
    BY WFMin, NatLessThanWellFounded
<1>2. \A y \in T : ~ (y < x)
    BY <1>1 DEF OpToRel
<1> QED BY <1>2

Below(S, i) == {j \in S : j <= i}

\* Some place of a set of places is its k-th.
LEMMA Ranked ==
    ASSUME NEW n \in Nat, NEW S \in SUBSET (1 .. n), NEW k \in 1 .. Cardinality(S)
    PROVE  \E i \in S : Cardinality(Below(S, i)) = k
<1> DEFINE T == {i \in Nat : Cardinality(Below(S, i)) >= k}
<1>0. \A j \in S : j \in Nat /\ 1 <= j /\ j <= n
    OBVIOUS
<1>1. IsFiniteSet(S) /\ Cardinality(S) \in Nat
    <2>1. IsFiniteSet(1 .. n)
        BY FS_Interval
    <2> QED BY <2>1, FS_Subset, FS_CardinalityType
<1>2. \A i : IsFiniteSet(Below(S, i)) /\ Cardinality(Below(S, i)) \in Nat
    BY <1>1, FS_Subset, FS_CardinalityType DEF Below
<1>3. n \in T
    <2>1. Below(S, n) = S
        BY <1>0 DEF Below
    <2> QED BY <1>1, <2>1
<1>4. PICK i \in T : \A m \in T : i <= m
    BY <1>3, Least
<1> HIDE DEF T
<1>5. i \in Nat /\ i # 0
    <2>1. Below(S, 0) = {}
        <3>1. \A j \in S : ~ (j <= 0)
            BY <1>0
        <3> QED BY <3>1 DEF Below
    <2> QED BY <2>1, <1>1, <1>4, FS_EmptySet DEF T
<1>6. i - 1 \in Nat /\ i - 1 \notin T
    BY <1>4, <1>5
<1>7. Cardinality(Below(S, i - 1)) < k /\ Cardinality(Below(S, i)) >= k
    BY <1>1, <1>2, <1>4, <1>6 DEF T
<1>8. i \in S
    <2>0. SUFFICES ASSUME i \notin S PROVE FALSE
        OBVIOUS
    <2>1. \A j \in S : j <= i <=> j <= i - 1
        BY <1>0, <1>5, <2>0
    <2>2. Below(S, i) = Below(S, i - 1)
        BY <2>1 DEF Below
    <2> QED BY <1>1, <1>2, <1>7, <2>2
<1>9. Cardinality(Below(S, i)) = Cardinality(Below(S, i - 1)) + 1
    <2>1. ~ (i <= i - 1) /\ i <= i /\ \A j \in S : j <= i <=> j <= i - 1 \/ j = i
        BY <1>0, <1>5
    <2>2. Below(S, i) = Below(S, i - 1) \cup {i} /\ i \notin Below(S, i - 1)
        BY <1>8, <2>1 DEF Below
    <2> QED BY <1>2, <2>2, FS_AddElement
<1>10. Cardinality(Below(S, i)) = k
    BY <1>1, <1>2, <1>7, <1>9
<1> QED BY <1>8, <1>10

\* The places of the others, counted from the first.
At(S, n) == CHOOSE i \in S : Cardinality(Below(S, i)) = n

LEMMA AtIs ==
    ASSUME NEW l \in Nat, NEW S \in SUBSET (1 .. l)
    PROVE  /\ Cardinality(S) \in Nat
           /\ \A n \in 1 .. Cardinality(S) : At(S, n) \in S
           /\ \A n \in 1 .. Cardinality(S) : \A m \in 1 .. n - 1 : At(S, m) < At(S, n)
           /\ \A i \in S : \E n \in 1 .. Cardinality(S) : i = At(S, n)
<1>0. \A j \in S : j \in Nat
    OBVIOUS
<1>1. IsFiniteSet(S) /\ Cardinality(S) \in Nat
    <2>1. IsFiniteSet(1 .. l)
        BY FS_Interval
    <2> QED BY <2>1, FS_Subset, FS_CardinalityType
<1>2. \A i : Below(S, i) \subseteq S /\ IsFiniteSet(Below(S, i)) /\ Cardinality(Below(S, i)) \in Nat
             /\ Cardinality(Below(S, i)) <= Cardinality(S)
    BY <1>1, FS_Subset, FS_CardinalityType DEF Below
<1>3. ASSUME NEW n \in 1 .. Cardinality(S)
      PROVE  At(S, n) \in S /\ Cardinality(Below(S, At(S, n))) = n
    <2>1. \E i \in S : Cardinality(Below(S, i)) = n
        BY Ranked
    <2> QED BY <2>1 DEF At
<1>4. ASSUME NEW i \in S, NEW j \in S, i < j
      PROVE  Cardinality(Below(S, i)) < Cardinality(Below(S, j))
    <2>1. Below(S, i) \subseteq Below(S, j) /\ j \in Below(S, j) /\ j \notin Below(S, i)
        <3>1. j <= j /\ ~ (j <= i) /\ \A x \in S : x <= i => x <= j
            BY <1>0, <1>4
        <3> QED BY <3>1 DEF Below
    <2>2. Below(S, i) # Below(S, j)
        BY <2>1
    <2> QED BY <1>2, <2>1, <2>2, FS_Subset
<1>5. ASSUME NEW n \in 1 .. Cardinality(S), NEW m \in 1 .. n - 1 PROVE At(S, m) < At(S, n)
    <2>1. m \in 1 .. Cardinality(S) /\ m \in Nat /\ n \in Nat /\ m < n
        BY <1>1
    <2>2. /\ At(S, m) \in S /\ Cardinality(Below(S, At(S, m))) = m
          /\ At(S, n) \in S /\ Cardinality(Below(S, At(S, n))) = n
        BY <1>3, <2>1
    <2>3. At(S, m) \in Nat /\ At(S, n) \in Nat /\ At(S, m) # At(S, n)
        <3>1. m # n
            BY <2>1
        <3>2. At(S, m) # At(S, n)
            BY <2>2, <3>1
        <3> QED BY <1>0, <2>2, <3>2
    <2>4. ~ (At(S, n) < At(S, m))
        <3>1. ~ (n < m)
            BY <2>1
        <3> QED BY <1>4, <2>2, <3>1
    <2> QED BY <2>3, <2>4
<1>6. ASSUME NEW i \in S PROVE \E n \in 1 .. Cardinality(S) : i = At(S, n)
    <2> DEFINE n == Cardinality(Below(S, i))
    <2>1. n \in 1 .. Cardinality(S)
        <3>1. i \in Below(S, i)
            BY <1>1 DEF Below
        <3>2. n # 0
            BY <1>2, <3>1, FS_EmptySet
        <3> QED BY <1>1, <1>2, <3>2
    <2>2. At(S, n) \in S /\ Cardinality(Below(S, At(S, n))) = n
        BY <1>3, <2>1
    <2>3. ~ (i < At(S, n)) /\ ~ (At(S, n) < i)
        <3>1. n \in Nat /\ ~ (n < n)
            BY <1>2
        <3>2. ASSUME NEW j \in S, Cardinality(Below(S, j)) = n PROVE ~ (i < j) /\ ~ (j < i)
            BY <1>4, <3>1, <3>2
        <3> QED BY <2>2, <3>2
    <2>4. i = At(S, n)
        <3>1. i \in Nat /\ At(S, n) \in Nat
            BY <1>0, <2>2
        <3> HIDE DEF n
        <3> QED BY <2>3, <3>1
    <2> QED BY <2>1, <2>4
<1> QED BY <1>1, <1>3, <1>5, <1>6

Leaves(s, old, k) ==
    /\ s \in Seq(Kid)
    /\ \E p \in [1 .. Len(s) -> 1 .. Len(old)] :
          /\ \A n \in 1 .. Len(s) : s[n] = old[p[n]] /\ s[n] # k
          /\ \A n \in 1 .. Len(s) : \A m \in 1 .. n - 1 : p[m] < p[n]
          /\ \A i \in 1 .. Len(old) : old[i] # k => \E n \in 1 .. Len(s) : i = p[n]

LEMMA DestroyedIs ==
    ASSUME NEW old \in Seq(Kid), NEW k
    PROVE  Leaves(Destroyed(old, k), old, k)
<1> DEFINE S == {i \in DOMAIN old : old[i] # k}
           c == Cardinality(S)
           s == Destroyed(old, k)
           p == [n \in 1 .. c |-> At(S, n)]
<1>1. Len(old) \in Nat /\ S \in SUBSET (1 .. Len(old)) /\ \A i \in 1 .. Len(old) : old[i] \in Kid
    OBVIOUS
<1>2. \A i \in S : old[i] # k
    OBVIOUS
<1>3. \A i \in 1 .. Len(old) : old[i] # k => i \in S
    OBVIOUS
<1>4. s = [n \in 1 .. c |-> old[At(S, n)]]
    BY DEF Destroyed, At, Below
<1> HIDE DEF S
<1>5. /\ c \in Nat /\ (\A n \in 1 .. c : At(S, n) \in S)
      /\ (\A n \in 1 .. c : \A m \in 1 .. n - 1 : At(S, m) < At(S, n))
      /\ \A i \in S : \E n \in 1 .. c : i = At(S, n)
    BY <1>1, AtIs
<1> HIDE DEF c, s
<1>6. \A n \in 1 .. c : old[At(S, n)] \in Kid
    BY <1>1, <1>5
<1>7. s \in Seq(Kid) /\ Len(s) = c /\ \A n \in 1 .. c : s[n] = old[At(S, n)]
    BY <1>4, <1>5, <1>6
<1>8. p \in [1 .. Len(s) -> 1 .. Len(old)] /\ \A n \in 1 .. c : p[n] = At(S, n)
    BY <1>1, <1>5, <1>7
<1>9. \A n \in 1 .. c : \A m \in 1 .. n - 1 : m \in 1 .. c
    BY <1>5
<1> HIDE DEF p
<1>10. /\ \A n \in 1 .. Len(s) : s[n] = old[p[n]] /\ s[n] # k
       /\ \A n \in 1 .. Len(s) : \A m \in 1 .. n - 1 : p[m] < p[n]
       /\ \A i \in 1 .. Len(old) : old[i] # k => \E n \in 1 .. Len(s) : i = p[n]
    BY <1>2, <1>3, <1>5, <1>7, <1>8, <1>9
<1>11. Leaves(s, old, k)
    BY <1>7, <1>8, <1>10 DEF Leaves
<1> QED BY <1>11 DEF s

Without(a, k) == [a EXCEPT !.old = Destroyed(@, k)]

\* A retired key destroyed: given up, and the others stay in line.
LEMMA DestroyedSound ==
    ASSUME NEW b \in Books, NEW c \in Books, NEW a \in Account, NEW k \in ToSet(a.old),
           Grows(b, c), k \in c.lost, Kept(b), c.open \subseteq b.open, c.back \subseteq b.back, Sound(b, a)
    PROVE  /\ Without(a, k) \in Account /\ Sound(c, Without(a, k))
           /\ Held(a) \subseteq Held(Without(a, k)) \cup {k}
           /\ Held(Without(a, k)) \subseteq Held(a)
<1> DEFINE r == Without(a, k)
<1>0. /\ a.cur \in Kid /\ Held(a) \subseteq Kid /\ a.cur \in Held(a) /\ Len(a.old) \in Nat
      /\ a.old \in Seq(Kid) /\ \A n \in 1 .. Len(a.old) : a.old[n] \in Held(a)
    BY HeldIs
<1>1. r.cur = a.cur /\ r.old = Destroyed(a.old, k) /\ r = [cur |-> a.cur, old |-> Destroyed(a.old, k)]
    BY DEF Without, Account
<1> HIDE DEF r
<1>2. Leaves(r.old, a.old, k)
    BY <1>0, <1>1, DestroyedIs
<1>3. r \in Account
    BY <1>0, <1>1, <1>2 DEF Account, Leaves
<1>4. PICK p \in [1 .. Len(r.old) -> 1 .. Len(a.old)] :
         /\ \A n \in 1 .. Len(r.old) : r.old[n] = a.old[p[n]] /\ r.old[n] # k
         /\ \A n \in 1 .. Len(r.old) : \A m \in 1 .. n - 1 : p[m] < p[n]
         /\ \A i \in 1 .. Len(a.old) : a.old[i] # k => \E n \in 1 .. Len(r.old) : i = p[n]
    BY <1>2 DEF Leaves
<1>5. \A n \in 1 .. Len(r.old) : p[n] \in 1 .. Len(a.old)
    OBVIOUS
<1>6. Held(r) \subseteq Held(a)
    <2>1. \A n \in 1 .. Len(r.old) : r.old[n] \in Held(a)
        BY <1>0, <1>4, <1>5
    <2> QED BY <1>0, <1>1, <1>3, <2>1, HeldIs
<1>7. Held(a) \subseteq Held(r) \cup {k}
    <2> SUFFICES ASSUME NEW x \in Held(a), x # k PROVE x \in Held(r)
        OBVIOUS
    <2>1. r.cur \in Held(r) /\ \A n \in 1 .. Len(r.old) : r.old[n] \in Held(r)
        BY <1>3, HeldIs
    <2>2. CASE x = a.cur
        BY <1>1, <2>1, <2>2
    <2>3. CASE \E n \in 1 .. Len(a.old) : x = a.old[n]
        BY <1>4, <2>1, <2>3
    <2> QED BY <2>2, <2>3, HeldIs
\* The first place stays the first, unless the key destroyed was there.
<1>8. a.old[1] # k /\ r.old # <<>> => r.old[1] = a.old[1]
    <2> SUFFICES ASSUME a.old[1] # k, r.old # <<>> PROVE r.old[1] = a.old[1]
        OBVIOUS
    <2>1. 1 \in 1 .. Len(a.old) /\ 1 \in 1 .. Len(r.old)
        <3>1. 1 \in 1 .. Len(r.old)
            BY <1>2
        <3> QED BY <1>0, <1>5, <3>1
    <2>2. PICK n \in 1 .. Len(r.old) : p[n] = 1
        BY <1>4, <2>1
    <2>3. ~ (p[1] < p[n])
        BY <1>5, <2>1, <2>2
    <2>4. n = 1
        BY <1>4, <2>1, <2>3
    <2> QED BY <1>4, <2>1, <2>2, <2>4
<1>9. Sound(c, a)
    BY GrowsSound
<1>10. /\ \A x \in Held(r) : x <= c.last
       /\ Backed(c, Held(r)) /\ c.sent \subseteq Held(r) \cup c.lost /\ Settled(c, r)
    BY <1>1, <1>6, <1>7, <1>9 DEF Sound, Backed, Settled, Unsettled
<1>11. Undoable(c, r)
    <2> SUFFICES ASSUME r.cur \in c.back, r.old # <<>> PROVE Returns(c, Held(r), r.old[1], r.cur)
        BY DEF Undoable
    <2>1. Returns(c, Held(a), a.old[1], a.cur)
        <3>1. a.old # <<>>
            BY DEF ToSet
        <3> QED BY <1>1, <1>9, <3>1 DEF Sound, Undoable
    <2> QED BY <1>1, <1>7, <1>8, <2>1 DEF Returns, Unsettled, Off
<1>12. ASSUME NEW z \in c.open, z \in Held(r), z \notin c.lost PROVE InLine(r, z) /\ Ahead(c, r, z)
    <2>1. InLine(a, z) /\ Ahead(c, a, z) /\ z # k
        BY <1>6, <1>9, <1>12 DEF Sound
    <2>2. InLine(r, z)
        <3> SUFFICES ASSUME NEW n \in 1 .. Len(r.old), r.old[n] = z
                     PROVE  r.cur > z /\ \A m \in 1 .. n - 1 : r.old[m] > z
            BY <1>3, HeldIs DEF InLine
        <3>1. p[n] \in DOMAIN a.old /\ a.old[p[n]] = z
            BY <1>0, <1>4, <1>5
        <3>2. a.cur > z /\ \A m \in 1 .. p[n] - 1 : a.old[m] > z
            BY <2>1, <3>1 DEF InLine
        <3>3. ASSUME NEW m \in 1 .. n - 1 PROVE r.old[m] > z
            <4>1. m \in 1 .. Len(r.old)
                BY <1>2
            <4>2. p[m] < p[n] /\ p[m] \in 1 .. Len(a.old) /\ p[n] \in 1 .. Len(a.old)
                BY <1>4, <1>5, <4>1
            <4>3. p[m] \in 1 .. p[n] - 1
                BY <1>0, <4>2
            <4> QED BY <1>4, <3>2, <4>1, <4>3
        <3> QED BY <1>1, <3>2, <3>3
    <2>3. Ahead(c, r, z)
        <3>1. CASE a.old[1] = z
            <4>1. r.old # <<>> => r.old[1] = z
                BY <1>8, <2>1, <3>1
            <4>2. z \in Held(r) => r.cur = z \/ r.old # <<>>
                BY <1>3, HeldIs
            <4> QED BY <1>1, <1>12, <2>1, <3>1, <4>1, <4>2 DEF Ahead
        <3>2. CASE a.old[1] # z
            <4>1. r.old # <<>> /\ a.old[1] # k => r.old[1] = a.old[1]
                BY <1>8
            <4>2. z \in Held(r) => r.cur = z \/ r.old # <<>>
                BY <1>3, HeldIs
            <4> QED BY <1>1, <1>12, <2>1, <3>2, <4>1, <4>2 DEF Ahead, Younger
        <3> QED BY <3>1, <3>2
    <2> QED BY <2>2, <2>3
<1> QED BY <1>3, <1>6, <1>7, <1>10, <1>11, <1>12 DEF r, Sound

----------------------------------------------------------------------------
(* The invariant *)

Accounts == UNION {[D -> Account] : D \in SUBSET Id}
Vault == [acc : Accounts, active : Id \cup {NoId}, trust : SUBSET Site, auto : SUBSET Site]
Memory == [open : BOOLEAN, key : BOOLEAN, v : Vault]
Handler ==
    [kind : {"none", "create", "select", "delete", "import", "destroy", "connect", "login", "rotate",
             "revert", "add", "remove", "autosign", "granted"},
     stage : {"idle", "opening", "asked", "saving", "sent", "after", "event"},
     id : Id \cup {NoId}, key : 0 .. MaxKey, from : 0 .. MaxKey, site : Site \cup {NoSite}, snap : Vault]
Syncing == [stage : {"idle", "check", "saving"}, todo : SUBSET Site, changed : BOOLEAN,
            boot : BOOLEAN, snap : Vault]
Toolbar ==
    {p \in [at : {"closed", "open", "waiting", "granted"}, dialog : BOOLEAN, site : Site \cup {NoSite}] :
        p.site \in Site \/ (p.at = "closed" /\ ~ p.dialog)}

ShapeInv ==
    /\ disk \in [made : BOOLEAN, v : Vault] /\ mem \in Memory /\ session \in BOOLEAN
    /\ undo \in [site : Site \cup {NoSite}, key : 0 .. MaxKey]
    /\ grant \in Site \cup {NoSite} /\ host \subseteq Site /\ scripts \subseteq Site
    /\ popup \in Toolbar /\ sync \in Syncing /\ op \in [Op -> Handler]
    /\ server \in [Id -> 0 .. MaxKey] /\ file \in Accounts /\ lastKey \in 0 .. MaxKey
    /\ born \subseteq Id /\ deeds \in 0 .. MaxDeeds
    /\ forgone \in [Id -> SUBSET Kid] /\ unsure \in [Id -> SUBSET Kid] /\ stray \subseteq Id

Tidy(v) == v.auto \subseteq v.trust
Keyless == mem.open /\ ~ mem.key

SessionInv ==
    /\ Tidy(disk.v) /\ Tidy(mem.v) /\ Tidy(sync.snap) /\ \A o \in Op : Tidy(op[o].snap)
    /\ \A o \in Op : op[o].kind = "connect" => op[o].site \in Site
    /\ session = mem.key /\ (mem.key => mem.open) /\ (~ mem.open => mem = Locked)
    /\ ~ disk.made => /\ disk.v = Empty /\ ~ mem.open /\ scripts = {} /\ sync.stage = "idle"
                      /\ \A o \in Op : op[o].stage \in {"idle", "event"}

\* One write at a time, and what it leaves in memory and on disk.
InFlight == {"saving", "after"}
FlightInv ==
    /\ \A o, x \in Op : o # x /\ op[o].stage \in InFlight => op[x].stage \notin InFlight
    /\ sync.stage = "saving" => sync.snap.acc = disk.v.acc /\ \A o \in Op : op[o].stage \notin InFlight
    /\ mem.key /\ (\A o \in Op : op[o].stage # "saving") => mem.v.acc = disk.v.acc
    /\ \A o \in Op : op[o].stage = "saving" =>
         /\ mem.key => mem.v.acc = op[o].snap.acc
         /\ \A i \in Id : HeldIn(disk.v, i) \subseteq HeldIn(op[o].snap, i) \cup forgone[i]

\* Nothing is known of an identity before it is made.
Made(acc) == \A i \in DOMAIN acc : i \in born /\ \A k \in Held(acc[i]) : k <= lastKey
BirthInv ==
    /\ Made(file) /\ Made(mem.v.acc)
    /\ DOMAIN disk.v.acc \subseteq born /\ \A o \in Op : DOMAIN op[o].snap.acc \subseteq born
    /\ \A i \in Id \ born : server[i] = 0

\* Scripts run where the vault trusts them, or are being withdrawn.
Leaving == {op[o].site : o \in {x \in Op : op[x].kind = "remove" /\ op[x].stage \in InFlight}}
TrustInv ==
    mem.key =>
      /\ sync.stage = "idle" => scripts \subseteq mem.v.trust \cup Leaving
      /\ \A o \in Op : op[o].kind = "add" /\ op[o].stage \in InFlight => op[o].site \in mem.v.trust \cap host

\* Rotations, and undos, on their way.
Turn(o) == op[o].kind \in {"rotate", "revert"} /\ op[o].stage \in {"saving", "sent"}
Opened(o, i) == op[o].kind = "rotate" /\ op[o].stage \in {"saving", "sent"} /\ op[o].id = i
Backable(o) == op[o].stage = "saving" \/ undo.key = op[o].key

Book(i) ==
    [served |-> server[i], lost |-> forgone[i], doubt |-> unsure[i], stray |-> i \in stray, last |-> lastKey,
     sent |-> {op[o].key : o \in {x \in Op : Opened(x, i) /\ op[x].stage = "sent"}},
     open |-> {op[o].key : o \in {x \in Op : Opened(x, i)}},
     back |-> {op[o].key : o \in {x \in Op : Opened(x, i) /\ Backable(x)}}]

TurnInv ==
    /\ \A i \in Id : unsure[i] \subseteq 1 .. lastKey
    /\ \A o \in Op : op[o].stage = "sent" => op[o].kind = "rotate"
    /\ \A o \in Op : Turn(o) => /\ op[o].id \in born /\ op[o].from >= 1
                                /\ op[o].from < op[o].key /\ op[o].key <= lastKey
    /\ \A o, x \in Op : o # x /\ Turn(o) /\ Turn(x) =>
         op[o].key # op[x].key /\ (op[o].stage = "saving" => op[x].key < op[o].key)
    /\ undo.key # 0 => \A o \in Op : op[o].stage = "sent" => op[o].key <= undo.key
    /\ \A o \in Op : Turn(o) /\ op[o].kind = "rotate" /\ Backable(o) => op[o].key \in unsure[op[o].id]
    /\ \A o \in Op : Turn(o) /\ op[o].stage = "saving" =>
         LET a == op[o].snap.acc[op[o].id] IN
         /\ op[o].id \in DOMAIN op[o].snap.acc
         /\ op[o].kind = "rotate" => a.cur = op[o].key
         /\ op[o].kind = "revert" => undo.key = 0 /\ Undone(Book(op[o].id), a, op[o].key)

\* An identity without an account there: a copy elsewhere brings nothing younger.
Absent(i) ==
    /\ i \in DOMAIN file => Backed(Book(i), Held(file[i]))
    /\ Keyless /\ i \in DOMAIN mem.v.acc => Backed(Book(i), Held(mem.v.acc[i]))
    /\ Book(i).sent \subseteq forgone[i]
Entry(i, acc) == IF i \in DOMAIN acc THEN Sound(Book(i), acc[i]) ELSE Absent(i)
CopiesInv ==
    /\ \A i \in Id : Entry(i, disk.v.acc)
    /\ \A o \in Op : op[o].stage = "saving" => \A i \in Id : Entry(i, op[o].snap.acc)

Inv == ShapeInv /\ SessionInv /\ FlightInv /\ BirthInv /\ TrustInv /\ TurnInv /\ CopiesInv

LEMMA AccountsAre ==
    ASSUME NEW f PROVE f \in Accounts <=> DOMAIN f \subseteq Id /\ f \in [DOMAIN f -> Account]
<1>1. ASSUME f \in Accounts PROVE DOMAIN f \subseteq Id /\ f \in [DOMAIN f -> Account]
    <2>1. PICK D \in SUBSET Id : f \in [D -> Account]
        BY <1>1 DEF Accounts
    <2>2. DOMAIN f = D
        BY <2>1
    <2> QED BY <2>1, <2>2
<1>2. ASSUME DOMAIN f \subseteq Id, f \in [DOMAIN f -> Account] PROVE f \in Accounts
    BY <1>2 DEF Accounts
<1> QED BY <1>1, <1>2

LEMMA Ground ==
    ASSUME ExtensionConstants
    PROVE
    /\ <<>> \in Accounts /\ Empty \in Vault /\ Locked \in Memory /\ Resting \in Handler /\ NoSync \in Syncing
    /\ NoUndo \in [site : {NoSite}, key : {0}]
    /\ Tidy(Empty) /\ DOMAIN Empty.acc = {} /\ Empty.trust = {}
<1>1. <<>> \in [{} -> Account] /\ DOMAIN <<>> = {}
    OBVIOUS
<1>2. <<>> \in Accounts
    BY <1>1 DEF Accounts
<1>3. Empty \in Vault /\ DOMAIN Empty.acc = {}
    BY <1>1, <1>2 DEF Empty, Vault
<1>4. Locked \in Memory
    BY <1>3 DEF Locked, Memory
<1>5. Resting \in Handler
    BY <1>3 DEF Resting, Handler, ExtensionConstants
<1>6. NoSync \in Syncing
    BY <1>3 DEF NoSync, Syncing
<1>7. Tidy(Empty) /\ Empty.trust = {}
    BY DEF Empty, Tidy
<1>8. NoUndo \in [site : {NoSite}, key : {0}]
    BY DEF NoUndo
<1> QED BY <1>2, <1>3, <1>4, <1>5, <1>6, <1>7, <1>8

\* The state, taken apart.
LEMMA Shape ==
    ASSUME ShapeInv
    PROVE  /\ disk.v \in Vault /\ mem.v \in Vault /\ sync.snap \in Vault
           /\ disk.v.acc \in Accounts /\ mem.v.acc \in Accounts
           /\ \A o \in Op : op[o] \in Handler /\ op[o].snap \in Vault /\ op[o].snap.acc \in Accounts
           /\ \A i \in Id : Book(i) \in Books
<1>1. ASSUME NEW i \in Id PROVE Book(i) \in Books
    <2>1. \A o \in Op : op[o].key \in Nat
        BY DEF ShapeInv, Handler
    <2>2. /\ server[i] \in Nat /\ forgone[i] \in SUBSET Kid /\ unsure[i] \in SUBSET Kid
          /\ lastKey \in Nat /\ (i \in stray) \in BOOLEAN
        BY DEF ShapeInv
    <2> QED BY <2>1, <2>2 DEF Book, Books
<1> QED BY <1>1 DEF ShapeInv, Vault, Memory, Syncing, Handler

LEMMA ShapeNext ==
    ASSUME ShapeInv'
    PROVE  /\ disk'.v \in Vault /\ mem'.v \in Vault /\ sync'.snap \in Vault
           /\ disk'.v.acc \in Accounts /\ mem'.v.acc \in Accounts
           /\ \A o \in Op : op'[o] \in Handler /\ op'[o].snap \in Vault /\ op'[o].snap.acc \in Accounts
           /\ \A i \in Id : Book(i)' \in Books
<1>1. ASSUME NEW i \in Id PROVE Book(i)' \in Books
    <2>1. \A o \in Op : op'[o].key \in Nat
        BY DEF ShapeInv, Handler
    <2>2. /\ server'[i] \in Nat /\ forgone'[i] \in SUBSET Kid /\ unsure'[i] \in SUBSET Kid
          /\ lastKey' \in Nat /\ (i \in stray') \in BOOLEAN
        BY DEF ShapeInv
    <2> QED BY <2>1, <2>2 DEF Book, Books
<1> QED BY <1>1 DEF ShapeInv, Vault, Memory, Syncing, Handler

LEMMA BookIs ==
    ASSUME NEW i
    PROVE  /\ Book(i).served = server[i] /\ Book(i).lost = forgone[i] /\ Book(i).doubt = unsure[i]
           /\ Book(i).stray = (i \in stray) /\ Book(i).last = lastKey
           /\ \A k : k \in Book(i).sent <=> \E o \in Op : op[o].key = k /\ Opened(o, i) /\ op[o].stage = "sent"
           /\ \A k : k \in Book(i).open <=> \E o \in Op : op[o].key = k /\ Opened(o, i)
           /\ \A k : k \in Book(i).back <=> \E o \in Op : op[o].key = k /\ Opened(o, i) /\ Backable(o)
BY DEF Book


LEMMA BookNext ==
    ASSUME NEW i
    PROVE  /\ Book(i)'.served = server'[i] /\ Book(i)'.lost = forgone'[i] /\ Book(i)'.doubt = unsure'[i]
           /\ Book(i)'.stray = (i \in stray') /\ Book(i)'.last = lastKey'
           /\ \A k : k \in Book(i)'.sent <=> \E o \in Op : op'[o].key = k /\ Opened(o, i)' /\ op'[o].stage = "sent"
           /\ \A k : k \in Book(i)'.open <=> \E o \in Op : op'[o].key = k /\ Opened(o, i)'
           /\ \A k : k \in Book(i)'.back <=> \E o \in Op : op'[o].key = k /\ Opened(o, i)' /\ Backable(o)'
BY DEF Book

LEMMA BookKept == ASSUME ShapeInv, TurnInv, NEW i \in Id PROVE Kept(Book(i))
<1>1. \A o \in Op : Opened(o, i) => op[o].key <= lastKey
    BY DEF TurnInv, Opened, Turn
<1>2. unsure[i] \subseteq 1 .. lastKey
    BY DEF TurnInv
<1> QED BY <1>1, <1>2, BookIs DEF Kept

----------------------------------------------------------------------------
(* Steps that touch no rotation on its way *)

\* Nothing about the rotations changes but that some end.
Calm ==
    /\ \A x \in Op : Turn(x)' => op'[x] = op[x]
    /\ undo' \in {undo, NoUndo}
    /\ server' = server /\ lastKey <= lastKey' /\ stray' = stray
    /\ \A i \in Id : forgone[i] \subseteq forgone'[i] /\ unsure[i] \subseteq unsure'[i]

LEMMA CalmBooks ==
    ASSUME ShapeInv, ShapeInv', TurnInv, Calm, NEW i \in Id
    PROVE  /\ Grows(Book(i), Book(i)') /\ Book(i)'.open \subseteq Book(i).open
           /\ Book(i)'.back \subseteq Book(i).back
<1>1. \A x \in Op : Opened(x, i)' => op'[x] = op[x] /\ Opened(x, i)
    BY DEF Calm, Opened, Turn
<1>2. \A x \in Op : Opened(x, i)' /\ Backable(x)' => Backable(x)
    <2> SUFFICES ASSUME NEW x \in Op, Opened(x, i)', Backable(x)' PROVE Backable(x)
        OBVIOUS
    <2>1. op'[x] = op[x] /\ Opened(x, i)
        BY <1>1
    <2>2. op[x].key # 0
        BY <2>1 DEF TurnInv, Opened, Turn, ShapeInv, Handler
    <2> QED BY <2>1, <2>2 DEF Backable, Calm, NoUndo
<1>3. \A k \in Book(i)'.open : k \in Book(i).open
    BY <1>1, BookIs, BookNext
<1>4. \A k \in Book(i)'.back : k \in Book(i).back
    BY <1>1, <1>2, BookIs, BookNext
<1>5. \A k \in Book(i)'.sent : k \in Book(i).sent
    BY <1>1, BookIs, BookNext
<1> QED BY <1>3, <1>4, <1>5, BookIs, BookNext DEF Calm, Grows

LEMMA UndoneGrows ==
    ASSUME NEW b \in Books, NEW c \in Books, NEW a, NEW r, Grows(b, c), Undone(b, a, r)
    PROVE  Undone(c, a, r)
BY DEF Undone, Returns, Off, Unsettled, Grows

LEMMA CalmTurns ==
    ASSUME ShapeInv, ShapeInv', TurnInv, Calm, born \subseteq born',
           \A i \in Id : unsure'[i] \subseteq 1 .. lastKey',
           \A x \in Op : op'[x].stage = "sent" => op'[x] = op[x]
    PROVE  TurnInv'
<1>0. \A x \in Op : Turn(x)' => Turn(x) /\ op'[x] = op[x] /\ (Backable(x)' => Backable(x))
    <2> SUFFICES ASSUME NEW x \in Op, Turn(x)' PROVE Turn(x) /\ op'[x] = op[x] /\ (Backable(x)' => Backable(x))
        OBVIOUS
    <2>1. op'[x] = op[x] /\ Turn(x)
        BY DEF Calm, Turn
    <2>2. op[x].key # 0
        BY <2>1 DEF TurnInv, ShapeInv, Handler
    <2> QED BY <2>1, <2>2 DEF Backable, Calm, NoUndo
<1>1. \A x \in Op : op'[x].stage = "sent" => op'[x].kind = "rotate"
    BY DEF TurnInv
<1>2. \A x \in Op : Turn(x)' => /\ op'[x].id \in born' /\ op'[x].from >= 1
                                /\ op'[x].from < op'[x].key /\ op'[x].key <= lastKey'
    <2>1. \A x \in Op : Turn(x) => op[x].key \in Nat
        BY DEF ShapeInv, Handler
    <2>2. lastKey \in Nat /\ lastKey' \in Nat /\ lastKey <= lastKey'
        BY DEF ShapeInv, Calm
    <2> QED BY <1>0, <2>1, <2>2 DEF TurnInv
<1>3. \A o, x \in Op : o # x /\ Turn(o)' /\ Turn(x)' =>
         op'[o].key # op'[x].key /\ (op'[o].stage = "saving" => op'[x].key < op'[o].key)
    BY <1>0 DEF TurnInv
<1>4. undo'.key # 0 => \A o \in Op : op'[o].stage = "sent" => op'[o].key <= undo'.key
    BY DEF TurnInv, Calm, NoUndo
<1>5. \A o \in Op : Turn(o)' /\ op'[o].kind = "rotate" /\ Backable(o)' => op'[o].key \in unsure'[op'[o].id]
    <2>1. \A o \in Op : Turn(o) => op[o].id \in Id
        BY DEF TurnInv, ShapeInv
    <2> QED BY <1>0, <2>1 DEF TurnInv, Calm
<1>6. ASSUME NEW o \in Op, Turn(o)', op'[o].stage = "saving", NEW i, i = op'[o].id,
             NEW a, a = op'[o].snap.acc[i]
      PROVE  /\ i \in DOMAIN op'[o].snap.acc
             /\ op'[o].kind = "rotate" => a.cur = op'[o].key
             /\ op'[o].kind = "revert" => undo'.key = 0 /\ Undone(Book(i)', a, op'[o].key)
    <2>1. Turn(o) /\ op'[o] = op[o] /\ op[o].stage = "saving" /\ i \in Id
        BY <1>0, <1>6 DEF TurnInv, ShapeInv
    <2>2. /\ i \in DOMAIN op[o].snap.acc /\ (op[o].kind = "rotate" => a.cur = op[o].key)
          /\ op[o].kind = "revert" => undo.key = 0 /\ Undone(Book(i), a, op[o].key)
        BY <1>6, <2>1 DEF TurnInv
    <2>3. Grows(Book(i), Book(i)') /\ Book(i) \in Books /\ Book(i)' \in Books
        BY <2>1, CalmBooks, Shape, ShapeNext
    <2>4. op[o].kind = "revert" => undo'.key = 0
        BY <2>2 DEF Calm, NoUndo
    <2>5. op[o].kind = "revert" => Undone(Book(i)', a, op[o].key)
        BY <2>2, <2>3, UndoneGrows
    <2> QED BY <2>1, <2>2, <2>4, <2>5
<1> QED BY <1>1, <1>2, <1>3, <1>4, <1>5, <1>6 DEF TurnInv

LEMMA GrowsBacked ==
    ASSUME NEW b \in Books, NEW c \in Books, NEW held, Grows(b, c), Backed(b, held)
    PROVE  Backed(c, held)
BY DEF Grows, Backed

\* Other copies of an identity stay what they were, or are as well backed.
LEMMA AbsentStays ==
    ASSUME ShapeInv, ShapeInv', TurnInv, Calm, NEW i \in Id, Absent(i),
           i \in DOMAIN file' => i \in DOMAIN file /\ file'[i] = file[i],
           Keyless' /\ i \in DOMAIN mem'.v.acc => Keyless /\ i \in DOMAIN mem.v.acc /\ mem'.v.acc[i] = mem.v.acc[i]
    PROVE  Absent(i)'
<1>1. Grows(Book(i), Book(i)') /\ Book(i) \in Books /\ Book(i)' \in Books
    BY CalmBooks, Shape, ShapeNext
<1>2. Book(i)'.sent \subseteq forgone'[i]
    BY <1>1, BookIs, BookNext DEF Absent, Grows
<1> QED BY <1>1, <1>2, GrowsBacked DEF Absent

LEMMA EntryGrows ==
    ASSUME ShapeInv, ShapeInv', TurnInv, Calm, NEW i \in Id, NEW acc \in Accounts, Entry(i, acc),
           i \notin DOMAIN acc /\ Absent(i) => Absent(i)'
    PROVE  IF i \in DOMAIN acc THEN Sound(Book(i)', acc[i]) ELSE Absent(i)'
<1>1. Grows(Book(i), Book(i)') /\ Book(i) \in Books /\ Book(i)' \in Books
    BY CalmBooks, Shape, ShapeNext
<1>2. i \in DOMAIN acc => acc[i] \in Account
    BY AccountsAre
<1> QED BY <1>1, <1>2, GrowsSound DEF Entry

LEMMA CalmCopies ==
    ASSUME ShapeInv, ShapeInv', TurnInv, CopiesInv, Calm,
           disk'.v.acc = disk.v.acc,
           \A x \in Op : op'[x].stage = "saving" =>
              op'[x].snap.acc = disk.v.acc \/ (op[x].stage = "saving" /\ op'[x].snap.acc = op[x].snap.acc),
           \A i \in Id : Absent(i) => Absent(i)'
    PROVE  CopiesInv'
<1>1. disk.v.acc \in Accounts /\ \A x \in Op : op[x].snap.acc \in Accounts
    BY Shape
<1>2. ASSUME NEW i \in Id
      PROVE  IF i \in DOMAIN disk.v.acc THEN Sound(Book(i)', disk.v.acc[i]) ELSE Absent(i)'
    BY <1>1, EntryGrows DEF CopiesInv
<1>3. ASSUME NEW i \in Id, NEW x \in Op, op[x].stage = "saving"
      PROVE  IF i \in DOMAIN op[x].snap.acc THEN Sound(Book(i)', op[x].snap.acc[i]) ELSE Absent(i)'
    BY <1>1, <1>3, EntryGrows DEF CopiesInv
<1>4. \A i \in Id : Entry(i, disk.v.acc)'
    BY <1>2 DEF Entry
<1>5. ASSUME NEW x \in Op, op'[x].stage = "saving", NEW i \in Id PROVE Entry(i, op[x].snap.acc)'
    BY <1>2, <1>3, <1>5 DEF Entry
<1> QED BY <1>4, <1>5 DEF CopiesInv

\* A step of a handler, of Chrome or of the popup that writes nothing and leaves the
\* vault and the rotations alone.
LEMMA LocalStep ==
    ASSUME ExtensionConstants, Inv, ShapeInv',
           UNCHANGED <<disk, mem, session, sync, scripts, server, file, lastKey, born, forgone, unsure, stray>>,
           undo' \in {undo, NoUndo}, host \subseteq host' \/ Quiet,
           \A x \in Op : \/ op'[x] = op[x]
                         \/ /\ {op[x].stage, op'[x].stage} \cap {"saving", "after"} = {}
                            /\ op'[x].stage # "sent" /\ op'[x].snap \in {op[x].snap, Empty}
                            /\ op'[x].kind = "connect" => op'[x].site \in Site,
           mem.open \/ \A x \in Op : op'[x].stage \in {op[x].stage, "idle", "event"}
    PROVE  Inv'
<1>0. Tidy(Empty) /\ DOMAIN Empty.acc = {}
    BY Ground
<1>1. Calm
    <2>1. \A x \in Op : op'[x].stage \in {"saving", "sent"} => op'[x] = op[x]
        OBVIOUS
    <2>2. lastKey <= lastKey'
        BY DEF Inv, ShapeInv
    <2> QED BY <2>1, <2>2 DEF Calm, Turn
<1>2. TurnInv'
    <2>1. \A i \in Id : unsure'[i] \subseteq 1 .. lastKey'
        BY DEF Inv, TurnInv
    <2> QED BY <1>1, <2>1, CalmTurns DEF Inv
<1>3. CopiesInv'
    <2>1. \A i \in Id : Absent(i) => Absent(i)'
        BY <1>1, AbsentStays DEF Inv, Keyless
    <2>2. \A x \in Op : op'[x].stage = "saving" => op[x].stage = "saving" /\ op'[x].snap.acc = op[x].snap.acc
        OBVIOUS
    <2> QED BY <1>1, <2>1, <2>2, CalmCopies DEF Inv
<1>4. SessionInv'
    BY <1>0 DEF Inv, SessionInv
<1>5. FlightInv'
    <2>1. \A x \in Op : op'[x].stage \in InFlight \/ op[x].stage \in InFlight => op'[x] = op[x]
        BY DEF InFlight
    <2>2. \A x \in Op : op'[x].stage = "saving" <=> op[x].stage = "saving"
        OBVIOUS
    <2> QED BY <2>1, <2>2 DEF Inv, FlightInv, InFlight, HeldIn
<1>6. BirthInv'
    BY <1>0 DEF Inv, BirthInv, Made
<1>7. TrustInv'
    <2>1. \A x \in Op : op'[x].stage \in InFlight \/ op[x].stage \in InFlight => op'[x] = op[x]
        BY DEF InFlight
    <2>2. \A s : s \in Leaving => s \in Leaving'
        BY <2>1 DEF Leaving
    <2>3. Quiet => \A x \in Op : op[x].stage \notin InFlight
        BY DEF Quiet, InFlight
    <2> QED BY <2>1, <2>2, <2>3 DEF Inv, TrustInv
<1> QED BY <1>2, <1>3, <1>4, <1>5, <1>6, <1>7 DEF Inv

\* One handler changes, and its record has the right form.
LEMMA OneHandler ==
    ASSUME ShapeInv, NEW o \in Op, NEW r \in Handler, op' = [op EXCEPT ![o] = r]
    PROVE  /\ op' \in [Op -> Handler] /\ op'[o] = r /\ \A x \in Op : x # o => op'[x] = op[x]
BY DEF ShapeInv

\* A handler that starts or ends, with nothing in flight.
LEMMA HandlerStep ==
    ASSUME ExtensionConstants, Inv, NEW o \in Op, NEW r \in Handler, op' = [op EXCEPT ![o] = r],
           UNCHANGED <<disk, mem, session, sync, scripts, server, file, lastKey, born, forgone, unsure, stray>>,
           undo' \in {undo, NoUndo}, host \subseteq host' \/ Quiet,
           {op[o].stage, r.stage} \cap {"saving", "after"} = {}, r.stage # "sent", r.snap \in {op[o].snap, Empty},
           mem.open \/ r.stage \in {op[o].stage, "idle", "event"}, r.kind = "connect" => r.site \in Site,
           grant' \in Site \cup {NoSite}, host' \subseteq Site, popup' \in Toolbar,
           deeds' \in 0 .. MaxDeeds
    PROVE  Inv'
<1>1. op' \in [Op -> Handler] /\ op'[o] = r /\ \A x \in Op : x # o => op'[x] = op[x]
    BY OneHandler DEF Inv
<1>2. undo' \in [site : Site \cup {NoSite}, key : 0 .. MaxKey]
    BY DEF Inv, ShapeInv, NoUndo, ExtensionConstants
<1>3. ShapeInv'
    BY <1>1, <1>2 DEF Inv, ShapeInv
<1>4. \A x \in Op : \/ op'[x] = op[x]
                    \/ /\ {op[x].stage, op'[x].stage} \cap {"saving", "after"} = {}
                       /\ op'[x].stage # "sent" /\ op'[x].snap \in {op[x].snap, Empty}
                       /\ op'[x].kind = "connect" => op'[x].site \in Site
    BY <1>1
<1>5. mem.open \/ \A x \in Op : op'[x].stage \in {op[x].stage, "idle", "event"}
    BY <1>1
<1> QED BY <1>3, <1>4, <1>5, LocalStep

\* Nothing a handler holds changes.
LEMMA OutsideStep ==
    ASSUME ExtensionConstants, Inv,
           UNCHANGED <<disk, mem, session, undo, host, scripts, sync, op, server, file, lastKey, born, forgone, unsure, stray>>,
           grant' \in Site \cup {NoSite}, popup' \in Toolbar, deeds' \in 0 .. MaxDeeds
    PROVE  Inv'
<1>1. ShapeInv'
    BY DEF Inv, ShapeInv
<1> QED BY <1>1, LocalStep

LEMMA DeedIs == ASSUME ExtensionConstants, Inv, NEW kind, Deed(kind) PROVE deeds' \in 0 .. MaxDeeds
BY DEF Deed, Inv, ShapeInv, ExtensionConstants

LEMMA Outside ==
    ASSUME ExtensionConstants, Inv,
           HourPasses \/ PopupCloses \/ Authorize \/ Denied \/ GrantExpires \/ \E s \in Site : OpenPopup(s)
    PROVE  Inv'
<1>0. popup \in Toolbar /\ grant \in Site \cup {NoSite} /\ deeds \in 0 .. MaxDeeds
    BY DEF Inv, ShapeInv
<1>1. CASE HourPasses
    BY <1>0, <1>1, OutsideStep DEF HourPasses, chrome, keys
<1>2. CASE PopupCloses
    <2>1. popup' \in Toolbar
        BY <1>0, <1>2 DEF PopupCloses, Toolbar
    <2> QED BY <1>0, <1>2, <2>1, OutsideStep DEF PopupCloses, keys
<1>3. CASE Denied
    <2>1. popup' \in Toolbar
        BY <1>0, <1>3 DEF Denied, Toolbar
    <2> QED BY <1>0, <1>3, <2>1, OutsideStep DEF Denied, keys
<1>4. CASE GrantExpires
    BY <1>0, <1>4, OutsideStep DEF GrantExpires, keys
<1>5. CASE \E s \in Site : OpenPopup(s)
    <2>1. popup' \in Toolbar
        BY <1>0, <1>5 DEF OpenPopup, Toolbar
    <2> QED BY <1>0, <1>5, <2>1, OutsideStep DEF OpenPopup, keys
<1>6. CASE Authorize
    <2>1. popup' \in Toolbar /\ grant' \in Site \cup {NoSite}
        BY <1>0, <1>6 DEF Authorize, Toolbar
    <2>2. deeds' \in 0 .. MaxDeeds
        BY <1>6, DeedIs DEF Authorize
    <2> QED BY <1>0, <1>6, <2>1, <2>2, OutsideStep DEF Authorize, keys
<1> QED BY <1>1, <1>2, <1>3, <1>4, <1>5, <1>6

\* The records handlers start with.
LEMMA Starts ==
    ASSUME ExtensionConstants
    PROVE  /\ Resting \in Handler /\ Resting.stage = "idle" /\ Resting.snap = Empty /\ Resting.kind = "none"
           /\ \A s \in Site \cup {NoSite} :
                /\ Adding(s) \in Handler /\ Adding(s).stage = "opening" /\ Adding(s).snap = Empty /\ Adding(s).kind = "add"
                /\ Event(s) \in Handler /\ Event(s).stage = "event" /\ Event(s).snap = Empty /\ Event(s).kind = "granted"
           /\ [Did("import") EXCEPT !.stage = "opening"] \in Handler
           /\ [Did("import") EXCEPT !.stage = "opening"].stage = "opening"
           /\ [Did("import") EXCEPT !.stage = "opening"].kind = "import"
           /\ [Did("import") EXCEPT !.stage = "opening"].snap = Empty
<1>1. Resting \in Handler
    BY Ground
<1> QED BY <1>1 DEF Adding, Event, Did, Resting, Handler

LEMMA Handlers ==
    ASSUME ExtensionConstants, Inv, NEW o \in Op,
           ImportStart(o) \/ Ask(o) \/ Refuse(o) \/ Unanswered(o) \/ AddSite(o) \/ Granted(o) \/ Finish(o)
             \/ OnAdded(o) \/ SiteAccess(o)
    PROVE  Inv'
<1>0. /\ popup \in Toolbar /\ grant \in Site \cup {NoSite} /\ deeds \in 0 .. MaxDeeds
      /\ host \subseteq Site /\ mem.v \in Vault /\ NoSite \notin Site
    BY Shape DEF Inv, ShapeInv, ExtensionConstants
<1>1. CASE ImportStart(o)
    BY <1>0, <1>1, Starts, DeedIs, HandlerStep DEF ImportStart, ByUser, chrome, keys
<1>2. CASE Ask(o)
    <2>1. PICK kind \in {"connect", "login", "rotate"}, s \in Site :
            /\ ByPage(o, kind)
            /\ op' = [op EXCEPT ![o] = [Did(kind) EXCEPT !.stage = "asked", !.site = s, !.id = mem.v.active,
                                         !.key = IF Active(mem.v) THEN mem.v.acc[mem.v.active].cur ELSE 0]]
            /\ UNCHANGED <<disk, mem, session, undo, chrome, sync, keys>>
        BY <1>2 DEF Ask
    <2> DEFINE r == [Did(kind) EXCEPT !.stage = "asked", !.site = s, !.id = mem.v.active,
                                      !.key = IF Active(mem.v) THEN mem.v.acc[mem.v.active].cur ELSE 0]
    <2>2. (IF Active(mem.v) THEN mem.v.acc[mem.v.active].cur ELSE 0) \in 0 .. MaxKey
        <3>1. Active(mem.v) => mem.v.acc[mem.v.active] \in Account
            BY Shape, AccountsAre DEF Inv, Active
        <3>2. Active(mem.v) => mem.v.acc[mem.v.active].cur \in 1 .. MaxKey
            BY <3>1 DEF Account, Kid
        <3> QED BY <3>2 DEF ExtensionConstants
    <2>3. r \in Handler /\ r.stage = "asked" /\ r.snap = Empty /\ r.site \in Site
        <3>1. mem.v.active \in Id \cup {NoId}
            BY <1>0 DEF Vault
        <3> QED BY <2>2, <3>1, Ground DEF Did, Resting, Handler
    <2> HIDE DEF r
    <2>4. op' = [op EXCEPT ![o] = r]
        BY <2>1 DEF r
    <2>5. mem.open /\ op[o] = Resting /\ deeds' \in 0 .. MaxDeeds
        BY <2>1, DeedIs DEF ByPage
    <2> QED BY <1>0, <2>1, <2>3, <2>4, <2>5, Starts, HandlerStep DEF chrome, keys
<1>3. CASE Refuse(o)
    BY <1>0, <1>3, Starts, HandlerStep DEF Refuse, chrome, keys
<1>4. CASE Unanswered(o)
    BY <1>0, <1>4, Starts, HandlerStep DEF Unanswered, chrome, keys
<1>5. CASE AddSite(o)
    <2>1. PICK s \in Site : ByUser(o, "add") /\ host' = host \cup {s} /\ op' = [op EXCEPT ![o] = Adding(s)]
                            /\ UNCHANGED <<disk, mem, session, undo, grant, scripts, popup, sync, keys>>
        BY <1>5 DEF AddSite
    <2> QED BY <1>0, <2>1, Starts, DeedIs, HandlerStep DEF ByUser, keys
<1>6. CASE Granted(o)
    <2>1. popup' \in Toolbar
        BY <1>0, <1>6 DEF Granted, Toolbar
    <2>2. popup.site \in Site
        BY <1>0, <1>6 DEF Granted, Toolbar
    <2> QED BY <1>0, <1>6, <2>1, <2>2, Starts, HandlerStep DEF Granted, keys
<1>7. CASE Finish(o)
    <2>1. popup' \in Toolbar /\ popup.site \in Site
        BY <1>0, <1>7 DEF Finish, Toolbar
    <2>2. (op' = [op EXCEPT ![o] = Adding(popup.site)] /\ mem.open) \/ op' = [op EXCEPT ![o] = Resting]
        BY <1>7 DEF Finish, StartAdd
    <2> QED BY <1>0, <1>7, <2>1, <2>2, Starts, HandlerStep DEF Finish, keys
<1>8. CASE OnAdded(o)
    <2>1. op[o].site \in Site \cup {NoSite} /\ op[o].stage = "event"
        BY <1>8 DEF OnAdded, Inv, ShapeInv, Handler
    <2>2. (op' = [op EXCEPT ![o] = Adding(op[o].site)] /\ mem.open) \/ op' = [op EXCEPT ![o] = Resting]
        BY <1>8 DEF OnAdded, StartAdd
    <2>3. grant' \in Site \cup {NoSite}
        BY <1>0, <1>8 DEF OnAdded
    <2> QED BY <1>0, <1>8, <2>1, <2>2, <2>3, Starts, HandlerStep DEF OnAdded, keys
<1>9. CASE SiteAccess(o)
    <2>1. PICK s \in Site : /\ Deed("access") /\ op[o] = Resting /\ Quiet
                            /\ \/ host' = host \ {s} /\ UNCHANGED op
                               \/ host' = host \cup {s} /\ op' = [op EXCEPT ![o] = Event(s)]
                            /\ UNCHANGED <<disk, mem, session, idle, undo, grant, scripts, popup, sync, keys>>
        BY <1>9 DEF SiteAccess
    <2>2. op' = [op EXCEPT ![o] = Resting] \/ op' = [op EXCEPT ![o] = Event(s)]
        BY <2>1 DEF Inv, ShapeInv
    <2> QED BY <1>0, <2>1, <2>2, Starts, DeedIs, HandlerStep DEF keys
<1> QED BY <1>1, <1>2, <1>3, <1>4, <1>5, <1>6, <1>7, <1>8, <1>9

----------------------------------------------------------------------------
(* Steps that save *)

\* A change in memory and the save asked for in the same run.
LEMMA SavingIs ==
    ASSUME ExtensionConstants, Inv, NEW o \in Op, NEW r \in Handler, NEW v \in Vault, Saving(o, r, v)
    PROVE  /\ mem' \in Memory /\ mem'.v = v /\ mem'.open = mem.open /\ mem'.key = mem.key
           /\ op' \in [Op -> Handler] /\ \A x \in Op : x # o => op'[x] = op[x]
           /\ mem.key => /\ op'[o].stage = "saving" /\ op'[o].snap = v /\ op'[o].kind = r.kind
                         /\ op'[o].id = r.id /\ op'[o].key = r.key /\ op'[o].from = r.from
                         /\ op'[o].site = r.site
           /\ ~ mem.key => op'[o] = Resting
           /\ (\A x \in Op : op[x].stage \notin InFlight) /\ sync.stage # "saving"
           /\ mem.key => mem.v.acc = disk.v.acc
<1> DEFINE s == [r EXCEPT !.stage = "saving", !.snap = v]
<1>1. /\ s \in Handler /\ s.stage = "saving" /\ s.snap = v /\ s.kind = r.kind
      /\ s.id = r.id /\ s.key = r.key /\ s.from = r.from /\ s.site = r.site
    BY DEF Handler
<1> HIDE DEF s
<1>2. op' = [op EXCEPT ![o] = IF mem.key THEN s ELSE Resting]
    BY DEF Saving, s
<1>3. Resting \in Handler /\ (IF mem.key THEN s ELSE Resting) \in Handler
    BY <1>1, Ground
<1>4. /\ op' \in [Op -> Handler] /\ (\A x \in Op : x # o => op'[x] = op[x])
      /\ op'[o] = IF mem.key THEN s ELSE Resting
    BY <1>2, <1>3, OneHandler DEF Inv
<1>5. mem' = [mem EXCEPT !.v = v] /\ mem \in Memory
    BY DEF Saving, Inv, ShapeInv
<1>6. mem' \in Memory /\ mem'.v = v /\ mem'.open = mem.open /\ mem'.key = mem.key
    BY <1>5 DEF Memory
<1>7. (\A x \in Op : op[x].stage \notin InFlight) /\ sync.stage # "saving"
    BY DEF Saving, SaveFree, InFlight
<1>8. mem.key => mem.v.acc = disk.v.acc
    BY <1>7 DEF Inv, FlightInv, InFlight
<1> QED BY <1>1, <1>4, <1>6, <1>7, <1>8

LEMMA SavedWorld ==
    ASSUME ExtensionConstants, Inv, NEW o \in Op, NEW r \in Handler, NEW v \in Vault, Saving(o, r, v),
           UNCHANGED <<disk, session, sync, host, scripts, server, file>>, mem.open, Tidy(v),
           born \subseteq born', lastKey <= lastKey', ShapeInv',
           \A i \in DOMAIN v.acc : i \in born' /\ \A k \in Held(v.acc[i]) : k <= lastKey',
           \A i \in Id : /\ forgone[i] \subseteq forgone'[i]
                         /\ HeldIn(mem.v, i) \subseteq HeldIn(v, i) \cup forgone'[i],
           \A s \in mem.v.trust : s \in v.trust \/ (r.kind = "remove" /\ s = r.site),
           r.kind = "add" => r.site \in v.trust \cap host, r.kind = "connect" => r.site \in Site
    PROVE  SessionInv' /\ FlightInv' /\ BirthInv' /\ TrustInv'
<1>1. /\ mem' \in Memory /\ mem'.v = v /\ mem'.open = mem.open /\ mem'.key = mem.key
      /\ op' \in [Op -> Handler] /\ \A x \in Op : x # o => op'[x] = op[x]
    BY SavingIs
<1>2. mem.key => /\ op'[o].stage = "saving" /\ op'[o].snap = v /\ op'[o].kind = r.kind /\ op'[o].site = r.site
    BY SavingIs
<1>3. ~ mem.key => op'[o] = Resting
    BY SavingIs
<1>4. (\A x \in Op : op[x].stage \notin InFlight) /\ sync.stage # "saving"
    BY SavingIs
<1>5. mem.key => mem.v.acc = disk.v.acc
    BY SavingIs
<1>6. Resting.snap = Empty /\ Resting.stage = "idle" /\ Tidy(Empty) /\ DOMAIN Empty.acc = {} /\ Resting.kind = "none"
    BY Ground DEF Resting
<1>7. disk.made
    BY DEF Inv, SessionInv
<1>8. \A x \in Op : op'[x].stage = "saving" => x = o /\ mem.key
    BY <1>1, <1>3, <1>4, <1>6 DEF InFlight
<1>9. SessionInv'
    BY <1>1, <1>2, <1>3, <1>6, <1>7 DEF Inv, SessionInv
<1>10. FlightInv'
    <2>1. \A x \in Op : op'[x].stage \in InFlight => x = o /\ mem.key
        BY <1>1, <1>3, <1>4, <1>6 DEF InFlight
    <2>2. mem'.key /\ (\A x \in Op : op'[x].stage # "saving") => mem'.v.acc = disk'.v.acc
        BY <1>1, <1>2
    <2>3. \A x \in Op : op'[x].stage = "saving" =>
            /\ mem'.key => mem'.v.acc = op'[x].snap.acc
            /\ \A i \in Id : HeldIn(disk'.v, i) \subseteq HeldIn(op'[x].snap, i) \cup forgone'[i]
        <3>1. mem.key => \A i \in Id : HeldIn(disk.v, i) = HeldIn(mem.v, i)
            BY <1>5 DEF HeldIn
        <3> QED BY <1>1, <1>2, <1>8, <3>1
    <2>4. sync'.stage # "saving"
        BY <1>4
    <2> QED BY <2>1, <2>2, <2>3, <2>4 DEF FlightInv
<1>11. BirthInv'
    <2>1. Made(mem.v.acc)'
        BY <1>1 DEF Made
    <2>2. Made(file)'
        <3>1. file \in Accounts /\ lastKey \in Nat /\ lastKey' \in Nat
            BY DEF Inv, ShapeInv
        <3>2. \A i \in DOMAIN file : \A k \in Held(file[i]) : k \in Nat
            BY <3>1, AccountsAre, HeldIs DEF Kid
        <3> QED BY <3>1, <3>2 DEF Made, Inv, BirthInv
    <2>3. \A x \in Op : DOMAIN op'[x].snap.acc \subseteq born'
        BY <1>1, <1>2, <1>3, <1>6 DEF Inv, BirthInv
    <2>4. DOMAIN disk'.v.acc \subseteq born' /\ \A i \in Id \ born' : server'[i] = 0
        BY DEF Inv, BirthInv
    <2> QED BY <2>1, <2>2, <2>3, <2>4 DEF BirthInv
<1>12. TrustInv'
    <2> SUFFICES ASSUME mem'.key
                 PROVE  /\ sync'.stage = "idle" => scripts' \subseteq mem'.v.trust \cup Leaving'
                        /\ \A x \in Op : op'[x].kind = "add" /\ op'[x].stage \in InFlight
                                           => op'[x].site \in mem'.v.trust \cap host'
        BY DEF TrustInv
    <2>1. \A s : s \notin Leaving
        BY <1>4 DEF Leaving
    <2>2. r.kind = "remove" => r.site \in Leaving'
        BY <1>1, <1>2 DEF Leaving, InFlight
    <2>3. sync.stage = "idle" => scripts \subseteq mem.v.trust
        BY <1>1, <2>1 DEF Inv, TrustInv
    <2>4. sync'.stage = "idle" => scripts' \subseteq mem'.v.trust \cup Leaving'
        BY <1>1, <2>2, <2>3
    <2>5. \A x \in Op : op'[x].stage \in InFlight => x = o
        BY <1>1, <1>4
    <2> QED BY <1>1, <1>2, <2>4, <2>5
<1> QED BY <1>9, <1>10, <1>11, <1>12

\* The save of a handler that is no rotation leaves the rotations alone.
LEMMA SavedCalm ==
    ASSUME ExtensionConstants, Inv, NEW o \in Op, NEW r \in Handler, NEW v \in Vault, Saving(o, r, v),
           r.kind \notin {"rotate", "revert"}, UNCHANGED <<undo, server, stray>>, lastKey <= lastKey',
           \A i \in Id : forgone[i] \subseteq forgone'[i] /\ unsure[i] \subseteq unsure'[i]
    PROVE  Calm /\ \A x \in Op : op'[x].stage = "sent" => op'[x] = op[x]
<1>1. \A x \in Op : x # o => op'[x] = op[x]
    BY SavingIs
<1>2. op'[o].kind \notin {"rotate", "revert"} /\ op'[o].stage # "sent"
    <2>1. Resting.kind = "none" /\ Resting.stage = "idle"
        BY DEF Resting
    <2>2. mem.key => op'[o].stage = "saving" /\ op'[o].kind = r.kind
        BY SavingIs
    <2>3. ~ mem.key => op'[o] = Resting
        BY SavingIs
    <2>4. mem.key \in BOOLEAN
        BY DEF Inv, ShapeInv, Memory
    <2> QED BY <2>1, <2>2, <2>3, <2>4
<1> QED BY <1>1, <1>2 DEF Calm, Turn

\* A save that changes no account.
LEMMA SavedSame ==
    ASSUME ExtensionConstants, Inv, NEW o \in Op, NEW r \in Handler, NEW v \in Vault, Saving(o, r, v),
           UNCHANGED <<disk, session, undo, grant, host, scripts, popup, sync>>,
           UNCHANGED <<server, file, lastKey, born, forgone, unsure, stray>>,
           deeds' \in 0 .. MaxDeeds, mem.open, Tidy(v), v.acc = mem.v.acc, r.kind \notin {"rotate", "revert"},
           \A s \in mem.v.trust : s \in v.trust \/ (r.kind = "remove" /\ s = r.site),
           r.kind = "add" => r.site \in v.trust \cap host, r.kind = "connect" => r.site \in Site
    PROVE  Inv'
<1>1. ShapeInv'
    <2>1. mem' \in Memory /\ op' \in [Op -> Handler]
        BY SavingIs
    <2> QED BY <2>1 DEF Inv, ShapeInv
<1>2. SessionInv' /\ FlightInv' /\ BirthInv' /\ TrustInv'
    <2>1. \A i \in DOMAIN v.acc : i \in born' /\ \A k \in Held(v.acc[i]) : k <= lastKey'
        BY DEF Inv, BirthInv, Made
    <2>2. \A i \in Id : HeldIn(mem.v, i) \subseteq HeldIn(v, i) \cup forgone'[i]
        BY DEF HeldIn
    <2>3. lastKey <= lastKey'
        BY DEF Inv, ShapeInv
    <2> QED BY <1>1, <2>1, <2>2, <2>3, SavedWorld
<1>3. Calm /\ \A x \in Op : op'[x].stage = "sent" => op'[x] = op[x]
    <2>1. lastKey <= lastKey'
        BY DEF Inv, ShapeInv
    <2> QED BY <2>1, SavedCalm
<1>4. TurnInv'
    <2>1. \A i \in Id : unsure'[i] \subseteq 1 .. lastKey'
        BY DEF Inv, TurnInv
    <2> QED BY <1>1, <1>3, <2>1, CalmTurns DEF Inv
<1>5. CopiesInv'
    <2>0. mem'.v = v /\ mem'.open = mem.open /\ mem'.key = mem.key
        BY SavingIs
    <2>1. mem'.v.acc = mem.v.acc /\ mem'.open = mem.open /\ mem'.key = mem.key
        BY <2>0
    <2>2. \A i \in Id : Absent(i) => Absent(i)'
        BY <1>1, <1>3, <2>1, AbsentStays DEF Inv, Keyless
    <2>3. \A x \in Op : op'[x].stage = "saving" => op'[x].snap.acc = disk.v.acc
        <3>1. \A x \in Op : op[x].stage # "saving" /\ (x # o => op'[x] = op[x])
            BY SavingIs DEF InFlight
        <3>2. mem.key => op'[o].snap = v /\ mem.v.acc = disk.v.acc
            BY SavingIs
        <3>3. ~ mem.key => op'[o].stage # "saving"
            <4>1. ~ mem.key => op'[o] = Resting
                BY SavingIs
            <4> QED BY <4>1, Starts
        <3> QED BY <3>1, <3>2, <3>3
    <2> QED BY <1>1, <1>3, <2>2, <2>3, CalmCopies DEF Inv
<1> QED BY <1>1, <1>2, <1>4, <1>5 DEF Inv

LEMMA ChangedVault ==
    ASSUME NEW v \in Vault
    PROVE  /\ \A a \in Id \cup {NoId} : /\ [v EXCEPT !.active = a] \in Vault
                                        /\ [v EXCEPT !.active = a].acc = v.acc
                                        /\ [v EXCEPT !.active = a].trust = v.trust
                                        /\ [v EXCEPT !.active = a].auto = v.auto
           /\ \A S \in SUBSET Site : /\ [v EXCEPT !.trust = S] \in Vault
                                     /\ [v EXCEPT !.trust = S].acc = v.acc
                                     /\ [v EXCEPT !.trust = S].trust = S
                                     /\ [v EXCEPT !.trust = S].auto = v.auto
                                     /\ [v EXCEPT !.auto = S] \in Vault
                                     /\ [v EXCEPT !.auto = S].acc = v.acc
                                     /\ [v EXCEPT !.auto = S].trust = v.trust
                                     /\ [v EXCEPT !.auto = S].auto = S
BY DEF Vault

LEMMA DidIs ==
    ASSUME ExtensionConstants, NEW kind \in {"create", "select", "delete", "destroy", "remove", "autosign"}
    PROVE  /\ Did(kind) \in Handler /\ Did(kind).kind = kind
           /\ \A s \in Site : /\ [Did(kind) EXCEPT !.site = s] \in Handler
                              /\ [Did(kind) EXCEPT !.site = s].kind = kind
                              /\ [Did(kind) EXCEPT !.site = s].site = s
<1>1. Empty \in Vault
    BY Ground
<1>2. Resting \in Handler
    BY Ground
<1>3. Did(kind) \in Handler /\ Did(kind).kind = kind
    BY <1>2 DEF Did, Handler
<1>4. ASSUME NEW s \in Site
      PROVE  /\ [Did(kind) EXCEPT !.site = s] \in Handler
             /\ [Did(kind) EXCEPT !.site = s].kind = kind
             /\ [Did(kind) EXCEPT !.site = s].site = s
    BY <1>3 DEF Handler
<1> QED BY <1>3, <1>4

LEMMA Settings ==
    ASSUME ExtensionConstants, Inv, NEW o \in Op,
           Select(o) \/ Connect(o) \/ AddCheck(o) \/ RemoveSite(o) \/ SetAutoSign(o)
    PROVE  Inv'
<1>0. /\ mem.v \in Vault /\ Tidy(mem.v) /\ op[o] \in Handler /\ deeds \in 0 .. MaxDeeds /\ host \subseteq Site
      /\ mem.v.trust \subseteq Site /\ mem.v.auto \subseteq Site
    BY Shape DEF Inv, SessionInv, ShapeInv, Vault
<1>1. CASE Select(o)
    <2>1. PICK i \in born : Saving(o, Did("select"), [mem.v EXCEPT !.active = i])
        BY <1>1 DEF Select
    <2>2. i \in Id
        BY DEF Inv, ShapeInv
    <2> DEFINE v == [mem.v EXCEPT !.active = i]
    <2>3. v \in Vault /\ v.acc = mem.v.acc /\ v.trust = mem.v.trust /\ v.auto = mem.v.auto
        BY <1>0, <2>2, ChangedVault
    <2>4. Did("select") \in Handler /\ Did("select").kind = "select"
        BY DidIs
    <2> HIDE DEF v
    <2>5. Saving(o, Did("select"), v)
        BY <2>1 DEF v
    <2> QED BY <1>0, <1>1, <2>3, <2>4, <2>5, SavedSame, DeedIs DEF Select, ByUser, chrome, keys, Tidy
<1>2. CASE Connect(o)
    <2> DEFINE S == mem.v.trust \cup {op[o].site}
               v == [mem.v EXCEPT !.trust = S]
    <2>1. Saving(o, op[o], v) /\ op[o].kind = "connect" /\ mem.open
        BY <1>2 DEF Connect, Approvable
    <2>2. op[o].site \in Site
        BY <1>2 DEF Connect, Approvable, Inv, SessionInv
    <2>4. S \in SUBSET Site /\ mem.v.trust \subseteq S
        BY <1>0, <2>2
    <2> HIDE DEF S
    <2>3. v \in Vault /\ v.acc = mem.v.acc /\ v.trust = S /\ v.auto = mem.v.auto
        BY <1>0, <2>4, ChangedVault
    <2> HIDE DEF v
    <2>5. Tidy(v) /\ \A t \in mem.v.trust : t \in v.trust
        BY <1>0, <2>3, <2>4 DEF Tidy
    <2> QED BY <1>0, <1>2, <2>1, <2>2, <2>3, <2>5, SavedSame DEF Connect, chrome, keys
<1>3. CASE AddCheck(o)
    <2> DEFINE s == op[o].site
               S == mem.v.trust \cup {s}
               v == [mem.v EXCEPT !.trust = S]
    <2>0. op[o].kind = "add" /\ op[o].stage = "opening"
        BY <1>3 DEF AddCheck
    <2>1. CASE mem.open /\ s \in host
        <3>1. Saving(o, op[o], v)
            BY <1>3, <2>1 DEF AddCheck
        <3>3. S \in SUBSET Site /\ mem.v.trust \subseteq S /\ s \in S
            BY <1>0, <2>1
        <3> HIDE DEF S
        <3>2. v \in Vault /\ v.acc = mem.v.acc /\ v.trust = S /\ v.auto = mem.v.auto
            BY <1>0, <3>3, ChangedVault
        <3> HIDE DEF v
        <3>4. Tidy(v) /\ \A t \in mem.v.trust : t \in v.trust
            BY <1>0, <3>2, <3>3 DEF Tidy
        <3>5. op[o].site \in v.trust \cap host /\ op[o].kind # "connect"
            BY <2>0, <2>1, <3>2, <3>3
        <3> QED BY <1>0, <1>3, <2>0, <2>1, <3>1, <3>2, <3>4, <3>5, SavedSame DEF AddCheck, chrome, keys
    <2>2. CASE ~ (mem.open /\ s \in host)
        <3>1. op' = [op EXCEPT ![o] = Resting] /\ mem' = mem
            BY <1>3, <2>2 DEF AddCheck
        <3>2. popup \in Toolbar /\ grant \in Site \cup {NoSite}
            BY DEF Inv, ShapeInv
        <3> QED BY <1>0, <1>3, <2>0, <3>1, <3>2, Starts, HandlerStep DEF AddCheck, chrome, keys
    <2> QED BY <2>1, <2>2
<1>4. CASE RemoveSite(o)
    <2>1. PICK s \in Site :
            /\ ByUser(o, "remove")
            /\ Saving(o, [Did("remove") EXCEPT !.site = s],
                      [mem.v EXCEPT !.trust = @ \ {s}, !.auto = @ \ {s}])
            /\ UNCHANGED <<disk, session, undo, chrome, sync, keys>>
        BY <1>4 DEF RemoveSite
    <2> DEFINE r == [Did("remove") EXCEPT !.site = s]
               w == [mem.v EXCEPT !.trust = mem.v.trust \ {s}]
               v == [mem.v EXCEPT !.trust = @ \ {s}, !.auto = @ \ {s}]
    <2>2. /\ v \in Vault /\ v.acc = mem.v.acc /\ v.trust = mem.v.trust \ {s}
          /\ v.auto = mem.v.auto \ {s}
        BY <1>0 DEF Vault
    <2>3. r \in Handler /\ r.kind = "remove" /\ r.site = s
        BY DidIs
    <2>4. Saving(o, r, v)
        BY <2>1
    <2> HIDE DEF v, r
    <2>5. \A t \in mem.v.trust : t \in v.trust \/ t = s
        BY <2>2
    <2>6. mem.open /\ deeds' \in 0 .. MaxDeeds
        BY <2>1, DeedIs DEF ByUser
    <2>7. Tidy(v)
        BY <1>0, <2>2 DEF Tidy
    <2> QED BY <2>1, <2>2, <2>3, <2>4, <2>5, <2>6, <2>7, SavedSame DEF chrome, keys
<1>5. CASE SetAutoSign(o)
    <2>1. PICK s \in mem.v.trust :
            /\ ByUser(o, "autosign")
            /\ Saving(o, Did("autosign"), [mem.v EXCEPT !.auto = IF s \in @ THEN @ \ {s} ELSE @ \cup {s}])
            /\ UNCHANGED <<disk, session, undo, chrome, sync, keys>>
        BY <1>5 DEF SetAutoSign
    <2> DEFINE S == IF s \in mem.v.auto THEN mem.v.auto \ {s} ELSE mem.v.auto \cup {s}
               v == [mem.v EXCEPT !.auto = S]
    <2>2. v \in Vault /\ v.acc = mem.v.acc /\ v.trust = mem.v.trust /\ v.auto = S
        <3>1. S \in SUBSET Site
            BY <1>0
        <3> HIDE DEF S
        <3> QED BY <1>0, <3>1, ChangedVault
    <2>3. Did("autosign") \in Handler /\ Did("autosign").kind = "autosign"
        BY DidIs
    <2>4. Saving(o, Did("autosign"), v)
        BY <2>1
    <2>5. S \subseteq mem.v.trust
        BY <1>0 DEF Tidy
    <2> HIDE DEF v, S
    <2>6. mem.open /\ deeds' \in 0 .. MaxDeeds
        BY <2>1, DeedIs DEF ByUser
    <2> QED BY <2>1, <2>2, <2>3, <2>4, <2>5, <2>6, SavedSame DEF chrome, keys, Tidy
<1> QED BY <1>1, <1>2, <1>3, <1>4, <1>5

\* A save that changes accounts: what leaves the vault is given up, and what is new
\* or changed in it is sound.
LEMMA SavedAccounts ==
    ASSUME ExtensionConstants, Inv, NEW o \in Op, NEW r \in Handler, NEW v \in Vault, Saving(o, r, v),
           UNCHANGED <<disk, session, undo, chrome, sync, server, file, stray>>, ShapeInv',
           mem.open, v.trust = mem.v.trust, v.auto = mem.v.auto,
           r.kind \in {"create", "delete", "import", "destroy"},
           born \subseteq born', lastKey <= lastKey',
           \A i \in Id : /\ forgone[i] \subseteq forgone'[i] /\ unsure[i] \subseteq unsure'[i]
                         /\ unsure'[i] \subseteq 1 .. lastKey'
                         /\ HeldIn(mem.v, i) \subseteq HeldIn(v, i) \cup forgone'[i],
           \A i \in DOMAIN v.acc :
              \/ i \in DOMAIN mem.v.acc /\ v.acc[i] = mem.v.acc[i]
              \/ /\ i \in born' /\ \A k \in Held(v.acc[i]) : k <= lastKey'
                 /\ mem.key => Sound(Book(i)', v.acc[i])
                 /\ ~ mem.key /\ Absent(i) => Backed(Book(i)', Held(v.acc[i]))
    PROVE  Inv'
<1>0. /\ disk.v.acc \in Accounts /\ mem.v.acc \in Accounts /\ v.acc \in Accounts /\ DOMAIN v.acc \subseteq Id
      /\ lastKey \in Nat /\ lastKey' \in Nat
    BY Shape, AccountsAre DEF Inv, ShapeInv, Vault
<1>1. /\ mem'.v = v /\ mem'.open = mem.open /\ mem'.key = mem.key
      /\ \A x \in Op : x # o => op'[x] = op[x]
    BY SavingIs
<1>2. /\ mem.key => op'[o].snap = v /\ mem.v.acc = disk.v.acc
      /\ \A x \in Op : op'[x].stage = "saving" => x = o /\ mem.key
    <2>1. ~ mem.key => op'[o].stage = "idle"
        <3>1. ~ mem.key => op'[o] = Resting
            BY SavingIs
        <3> QED BY <3>1, Starts
    <2>2. (\A x \in Op : op[x].stage \notin InFlight) /\ (mem.key => op'[o].snap = v /\ mem.v.acc = disk.v.acc)
        BY SavingIs
    <2> QED BY <1>1, <2>1, <2>2 DEF InFlight
<1>3. Calm /\ \A x \in Op : op'[x].stage = "sent" => op'[x] = op[x]
    BY SavedCalm
<1>4. \A i \in Id : Grows(Book(i), Book(i)') /\ Book(i) \in Books /\ Book(i)' \in Books
    BY <1>3, CalmBooks, Shape, ShapeNext DEF Inv
<1>5. SessionInv' /\ FlightInv' /\ BirthInv' /\ TrustInv'
    <2>1. \A i \in DOMAIN v.acc : i \in born' /\ \A k \in Held(v.acc[i]) : k <= lastKey'
        <3>1. \A i \in DOMAIN mem.v.acc : i \in born /\ \A k \in Held(mem.v.acc[i]) : k <= lastKey /\ k \in Nat
            BY <1>0, AccountsAre, HeldIs DEF Inv, BirthInv, Made, Kid
        <3> QED BY <1>0, <3>1
    <2>2. Tidy(v)
        BY DEF Inv, SessionInv, Tidy
    <2>3. UNCHANGED <<disk, session, sync, host, scripts, server, file>>
        BY DEF chrome
    <2> QED BY <2>1, <2>2, <2>3, SavedWorld
<1>6. TurnInv'
    BY <1>3, CalmTurns DEF Inv
<1>7. ASSUME NEW i \in Id, Absent(i) PROVE Absent(i)'
    <2>1. i \in DOMAIN file' => Backed(Book(i)', Held(file'[i]))
        BY <1>4, <1>7, GrowsBacked DEF Absent
    <2>2. Keyless' /\ i \in DOMAIN mem'.v.acc => Backed(Book(i)', Held(mem'.v.acc[i]))
        BY <1>1, <1>4, <1>7, GrowsBacked DEF Absent, Keyless
    <2>3. Book(i)'.sent \subseteq forgone'[i]
        BY <1>4, <1>7, BookIs DEF Absent, Grows
    <2> QED BY <2>1, <2>2, <2>3 DEF Absent
<1>8. ASSUME NEW i \in Id
      PROVE  IF i \in DOMAIN disk.v.acc THEN Sound(Book(i)', disk.v.acc[i]) ELSE Absent(i)'
    BY <1>0, <1>3, <1>7, EntryGrows DEF Inv, CopiesInv
<1>9. ASSUME mem.key, NEW i \in Id
      PROVE  IF i \in DOMAIN v.acc THEN Sound(Book(i)', v.acc[i]) ELSE Absent(i)'
    <2>0. mem.v.acc = disk.v.acc
        BY <1>2, <1>9
    <2>1. CASE i \in DOMAIN v.acc
        BY <1>8, <2>0, <2>1, <1>9
    <2>2. CASE i \notin DOMAIN v.acc /\ i \notin DOMAIN mem.v.acc
        BY <1>8, <2>0, <2>2
    <2>3. CASE i \notin DOMAIN v.acc /\ i \in DOMAIN mem.v.acc
        <3>1. Sound(Book(i)', disk.v.acc[i]) /\ Held(disk.v.acc[i]) \subseteq forgone'[i]
            BY <1>8, <2>0, <2>3 DEF HeldIn
        <3>2. Book(i)'.lost = forgone'[i]
            BY BookNext
        <3>3. \A held : Backed(Book(i)', held)
            BY <3>1, <3>2 DEF Sound, Backed
        <3>4. Book(i)'.sent \subseteq forgone'[i]
            BY <3>1, <3>2 DEF Sound
        <3> QED BY <2>3, <3>3, <3>4 DEF Absent
    <2> QED BY <2>1, <2>2, <2>3
<1>10. CopiesInv'
    <2>1. \A i \in Id : Entry(i, disk.v.acc)'
        BY <1>8 DEF Entry
    <2>2. ASSUME NEW x \in Op, op'[x].stage = "saving", NEW i \in Id PROVE Entry(i, op[x].snap.acc)'
        <3>1. op'[x].snap = v /\ mem.key
            BY <1>2, <2>2
        <3> QED BY <1>9, <3>1 DEF Entry
    <2> QED BY <2>1, <2>2 DEF CopiesInv
<1> QED BY <1>5, <1>6, <1>10 DEF Inv

LEMMA CreateKeeps ==
    ASSUME ExtensionConstants, Inv, NEW o \in Op, Create(o)
    PROVE  Inv'
<1> DEFINE f(i) == [j \in DOMAIN mem.v.acc \cup {i} |->
                       IF j = i THEN NewAccount(lastKey + 1) ELSE mem.v.acc[j]]
           g(i) == [mem.v EXCEPT !.acc = f(i), !.active = IF @ = NoId THEN i ELSE @]
<1>1. PICK i \in Id \ born : Saving(o, Did("create"), g(i)) /\ born' = born \cup {i}
    BY DEF Create
<1> DEFINE a == NewAccount(lastKey + 1)
           v == g(i)
<1>2. /\ UNCHANGED <<disk, session, undo, chrome, sync, server, file, forgone, unsure, stray>>
      /\ lastKey' = lastKey + 1 /\ lastKey < MaxKey /\ mem.open /\ deeds' \in 0 .. MaxDeeds
    BY DeedIs DEF Create, ByUser
<1>3. /\ mem.v \in Vault /\ mem.v.acc \in Accounts /\ lastKey \in Nat /\ lastKey + 1 \in Kid
      /\ DOMAIN mem.v.acc \subseteq Id /\ MaxKey \in Nat /\ i \in Id
      /\ \A j \in DOMAIN mem.v.acc : j \in born /\ mem.v.acc[j] \in Account
    BY <1>2, Shape, AccountsAre DEF Inv, ShapeInv, ExtensionConstants, Kid, BirthInv, Made
<1>4. a \in Account /\ Held(a) = {lastKey + 1}
    BY <1>3 DEF NewAccount, Account, Held, ToSet
<1> HIDE DEF a
<1>5. /\ f(i) \in Accounts /\ DOMAIN f(i) = DOMAIN mem.v.acc \cup {i} /\ f(i)[i] = a
      /\ \A j \in DOMAIN mem.v.acc : f(i)[j] = mem.v.acc[j]
    <2>1. DOMAIN f(i) = DOMAIN mem.v.acc \cup {i} /\ f(i)[i] = a
        BY DEF a
    <2>2. \A j \in DOMAIN mem.v.acc : f(i)[j] = mem.v.acc[j]
        BY <1>1, <1>3
    <2>3. f(i) \in [DOMAIN mem.v.acc \cup {i} -> Account]
        BY <1>3, <1>4 DEF a
    <2> HIDE DEF f
    <2> QED BY <1>3, <2>1, <2>2, <2>3, AccountsAre
<1> HIDE DEF f
<1>6. v \in Vault /\ v.acc = f(i) /\ v.trust = mem.v.trust /\ v.auto = mem.v.auto
    BY <1>3, <1>5 DEF Vault
<1>7. Saving(o, Did("create"), v)
    BY <1>1
<1> HIDE DEF v
<1>8. Did("create") \in Handler /\ Did("create").kind = "create"
    BY DidIs
<1>9. ShapeInv'
    <2>1. mem' \in Memory /\ op' \in [Op -> Handler]
        BY <1>6, <1>7, <1>8, SavingIs
    <2>2. born' \subseteq Id /\ lastKey' \in 0 .. MaxKey
        BY <1>1, <1>2, <1>3 DEF Inv, ShapeInv, Kid
    <2> QED BY <1>2, <2>1, <2>2 DEF Inv, ShapeInv, chrome
<1>10. ASSUME mem.key PROVE Sound(Book(i)', a)
    <2>1. Book(i)' \in Books /\ Book(i) \in Books
        BY <1>3, <1>9, Shape, ShapeNext DEF Inv
    <2>2. Calm
        BY <1>2, <1>3, <1>6, <1>7, <1>8, SavedCalm DEF Inv, ShapeInv
    <2>3. Book(i)'.open \subseteq Book(i).open /\ Book(i)'.back \subseteq Book(i).back
          /\ Grows(Book(i), Book(i)')
        BY <1>3, <1>9, <2>2, CalmBooks DEF Inv
    <2>4. \A x \in Op : ~ Opened(x, i)
        BY <1>1 DEF Inv, TurnInv, Opened, Turn
    <2>5. Book(i).open = {} /\ Book(i).sent = {} /\ Book(i).back = {}
        BY <2>4 DEF Book
    <2>6. Book(i)'.served = 0 /\ Book(i)'.last = lastKey + 1
        BY <1>1, <1>2, BookNext DEF Inv, BirthInv
    <2>7. Book(i)'.sent = {} /\ Book(i)'.open = {} /\ Book(i)'.back = {}
        BY <2>3, <2>5 DEF Grows
    <2>8. \A k \in Held(a) : k <= Book(i)'.last
        BY <1>3, <1>4, <2>6
    <2>9. Backed(Book(i)', Held(a))
        BY <2>6 DEF Backed
    <2> QED BY <1>4, <2>1, <2>6, <2>7, <2>8, <2>9, NewSound
<1>11. \A held : Backed(Book(i)', held)
    BY <1>1, <1>2, BookNext DEF Backed, Inv, BirthInv
<1>12. \A j \in DOMAIN v.acc :
         \/ j \in DOMAIN mem.v.acc /\ v.acc[j] = mem.v.acc[j]
         \/ /\ j \in born' /\ \A k \in Held(v.acc[j]) : k <= lastKey'
            /\ mem.key => Sound(Book(j)', v.acc[j])
            /\ ~ mem.key /\ Absent(j) => Backed(Book(j)', Held(v.acc[j]))
    <2>1. \A k \in Held(a) : k <= lastKey'
        BY <1>2, <1>3, <1>4
    <2> QED BY <1>1, <1>5, <1>6, <1>10, <1>11, <2>1
<1>13. \A j \in Id : HeldIn(mem.v, j) \subseteq HeldIn(v, j)
    BY <1>5, <1>6 DEF HeldIn
<1>14. \A j \in Id : unsure'[j] \subseteq 1 .. lastKey'
    <2>1. \A j \in Id : unsure[j] \subseteq 1 .. lastKey
        BY DEF Inv, TurnInv
    <2> QED BY <1>2, <1>3, <2>1
<1>15. lastKey <= lastKey' /\ born \subseteq born'
    BY <1>1, <1>2, <1>3
<1> QED BY <1>2, <1>6, <1>7, <1>8, <1>9, <1>12, <1>13, <1>14, <1>15, SavedAccounts

LEMMA DeleteKeeps ==
    ASSUME ExtensionConstants, Inv, NEW o \in Op, Delete(o)
    PROVE  Inv'
<1>1. PICK i \in DOMAIN mem.v.acc :
        /\ \E a \in IF mem.v.active # i THEN {mem.v.active}
                    ELSE IF DOMAIN mem.v.acc \ {i} = {} THEN {NoId} ELSE DOMAIN mem.v.acc \ {i} :
             Saving(o, Did("delete"),
                    [mem.v EXCEPT !.acc = [j \in DOMAIN mem.v.acc \ {i} |-> mem.v.acc[j]], !.active = a])
        /\ forgone' = [forgone EXCEPT ![i] = @ \cup Held(mem.v.acc[i])]
    BY DEF Delete
<1> DEFINE left == DOMAIN mem.v.acc \ {i}
           f == [j \in left |-> mem.v.acc[j]]
<1>2. /\ UNCHANGED <<disk, session, undo, chrome, sync, server, file, lastKey, born, unsure, stray>>
      /\ mem.open /\ deeds' \in 0 .. MaxDeeds
    BY DeedIs DEF Delete, ByUser
<1>3. /\ mem.v \in Vault /\ mem.v.acc \in Accounts /\ lastKey \in Nat /\ DOMAIN mem.v.acc \subseteq Id
      /\ mem.v.active \in Id \cup {NoId} /\ \A j \in DOMAIN mem.v.acc : mem.v.acc[j] \in Account
    BY Shape, AccountsAre DEF Inv, ShapeInv, Vault
<1>4. PICK a \in Id \cup {NoId} : Saving(o, Did("delete"), [mem.v EXCEPT !.acc = f, !.active = a])
    <2>1. PICK a \in IF mem.v.active # i THEN {mem.v.active} ELSE IF left = {} THEN {NoId} ELSE left :
            Saving(o, Did("delete"), [mem.v EXCEPT !.acc = f, !.active = a])
        BY <1>1
    <2>2. a \in Id \cup {NoId}
        BY <1>3, <2>1
    <2> QED BY <2>1, <2>2
<1> DEFINE v == [mem.v EXCEPT !.acc = f, !.active = a]
<1>5. /\ f \in Accounts /\ DOMAIN f = DOMAIN mem.v.acc \ {i}
      /\ \A j \in DOMAIN f : j \in DOMAIN mem.v.acc /\ f[j] = mem.v.acc[j]
    <2>1. DOMAIN f = DOMAIN mem.v.acc \ {i} /\ \A j \in DOMAIN f : f[j] = mem.v.acc[j]
        OBVIOUS
    <2>2. f \in [left -> Account]
        BY <1>3
    <2> HIDE DEF f
    <2> QED BY <1>3, <2>1, <2>2, AccountsAre
<1> HIDE DEF f
<1>6. v \in Vault /\ v.acc = f /\ v.trust = mem.v.trust /\ v.auto = mem.v.auto
    BY <1>3, <1>5 DEF Vault
<1>7. Saving(o, Did("delete"), v)
    BY <1>4
<1> HIDE DEF v
<1>8. Did("delete") \in Handler /\ Did("delete").kind = "delete"
    BY DidIs
<1>9. /\ forgone' \in [Id -> SUBSET Kid] /\ \A j \in Id : forgone[j] \subseteq forgone'[j]
      /\ Held(mem.v.acc[i]) \subseteq forgone'[i]
    <2>1. forgone \in [Id -> SUBSET Kid] /\ i \in Id /\ Held(mem.v.acc[i]) \subseteq Kid
        BY <1>3, HeldIs DEF Inv, ShapeInv
    <2> QED BY <1>1, <2>1
<1>10. ShapeInv'
    <2>1. mem' \in Memory /\ op' \in [Op -> Handler]
        BY <1>6, <1>7, <1>8, SavingIs
    <2> QED BY <1>2, <1>9, <2>1 DEF Inv, ShapeInv, chrome
<1>11. \A j \in Id : HeldIn(mem.v, j) \subseteq HeldIn(v, j) \cup forgone'[j]
    <2> SUFFICES ASSUME NEW j \in Id, NEW k \in HeldIn(mem.v, j) PROVE k \in HeldIn(v, j) \cup forgone'[j]
        OBVIOUS
    <2>1. j \in DOMAIN mem.v.acc /\ k \in Held(mem.v.acc[j])
        BY DEF HeldIn
    <2> QED BY <1>5, <1>6, <1>9, <2>1 DEF HeldIn
<1>12. (\A j \in Id : unsure'[j] \subseteq 1 .. lastKey') /\ lastKey <= lastKey'
    BY <1>2, <1>3 DEF Inv, TurnInv
<1> QED BY <1>2, <1>5, <1>6, <1>7, <1>8, <1>9, <1>10, <1>11, <1>12, SavedAccounts

\* A vault with one of its accounts replaced.
LEMMA ChangedAccount ==
    ASSUME NEW v \in Vault, NEW i \in DOMAIN v.acc, NEW a \in Account
    PROVE  LET w == [v EXCEPT !.acc = [v.acc EXCEPT ![i] = a]]
           IN  /\ w \in Vault /\ w.trust = v.trust /\ w.auto = v.auto /\ w.active = v.active
               /\ DOMAIN w.acc = DOMAIN v.acc /\ w.acc[i] = a
               /\ \A j \in DOMAIN v.acc : j # i => w.acc[j] = v.acc[j]
<1> DEFINE f == [v.acc EXCEPT ![i] = a]
<1>1. v.acc \in Accounts /\ DOMAIN v.acc \subseteq Id /\ v.acc \in [DOMAIN v.acc -> Account]
    BY AccountsAre DEF Vault
<1>2. f \in [DOMAIN v.acc -> Account] /\ DOMAIN f = DOMAIN v.acc /\ f[i] = a
      /\ \A j \in DOMAIN v.acc : j # i => f[j] = v.acc[j]
    BY <1>1
<1> HIDE DEF f
<1>3. f \in Accounts
    BY <1>1, <1>2, AccountsAre
<1>4. [v EXCEPT !.acc = f] \in Vault /\ [v EXCEPT !.acc = f].acc = f
      /\ [v EXCEPT !.acc = f].trust = v.trust /\ [v EXCEPT !.acc = f].auto = v.auto
      /\ [v EXCEPT !.acc = f].active = v.active
    BY <1>3 DEF Vault
<1> QED BY <1>2, <1>4 DEF f

LEMMA DestroyKeeps ==
    ASSUME ExtensionConstants, Inv, NEW o \in Op, Destroy(o)
    PROVE  Inv'
<1>0. PICK i : i = mem.v.active
    OBVIOUS
<1> DEFINE a == mem.v.acc[i]
<1>1. PICK k \in ToSet(a.old) :
        /\ Saving(o, Did("destroy"), [mem.v EXCEPT !.acc[i].old = Destroyed(@, k)])
        /\ forgone' = [forgone EXCEPT ![i] = @ \cup {k}]
    BY <1>0 DEF Destroy
<1> DEFINE w == Without(a, k)
           v == [mem.v EXCEPT !.acc = [mem.v.acc EXCEPT ![i] = w]]
<1>2. /\ UNCHANGED <<disk, session, undo, chrome, sync, server, file, lastKey, born, unsure, stray>>
      /\ mem.open /\ deeds' \in 0 .. MaxDeeds /\ i \in DOMAIN mem.v.acc
    BY <1>0, DeedIs DEF Destroy, ByUser, Active
<1>3. /\ mem.v \in Vault /\ mem.v.acc \in Accounts /\ lastKey \in Nat /\ DOMAIN mem.v.acc \subseteq Id
      /\ disk.v.acc \in Accounts /\ a \in Account /\ i \in Id
    BY <1>2, Shape, AccountsAre DEF Inv, ShapeInv
<1>4. Saving(o, Did("destroy"), v)
    BY <1>1 DEF Without
<1> HIDE DEF a
<1>5. k \in Kid /\ k \in Held(a)
    <2>1. \E n \in DOMAIN a.old : k = a.old[n]
        BY DEF ToSet
    <2> QED BY <1>3, <2>1, HeldIs
<1>6. /\ forgone' \in [Id -> SUBSET Kid] /\ \A j \in Id : forgone[j] \subseteq forgone'[j]
      /\ k \in forgone'[i]
    <2>1. forgone \in [Id -> SUBSET Kid]
        BY DEF Inv, ShapeInv
    <2> QED BY <1>1, <1>3, <1>5, <2>1
<1>7. Did("destroy") \in Handler /\ Did("destroy").kind = "destroy"
    BY DidIs
<1>8. Book(i) \in Books /\ Kept(Book(i)) /\ Book(i)'.lost = forgone'[i]
    BY <1>3, Shape, BookKept, BookNext DEF Inv
<1>9. w \in Account /\ Held(a) \subseteq Held(w) \cup {k} /\ Held(w) \subseteq Held(a)
    <2>0. /\ Len(a.old) \in Nat /\ a.old \in Seq(Kid) /\ a.cur \in Kid
        BY <1>3, HeldIs
    <2>1. w.cur = a.cur /\ w.old = Destroyed(a.old, k) /\ w = [cur |-> a.cur, old |-> Destroyed(a.old, k)]
        BY <1>3 DEF Without, Account
    <2> HIDE DEF w
    <2>2. Leaves(w.old, a.old, k)
        BY <2>0, <2>1, DestroyedIs
    <2>3. w \in Account
        BY <2>0, <2>1, <2>2 DEF Account, Leaves
    <2>4. /\ \A n \in 1 .. Len(w.old) : \E m \in 1 .. Len(a.old) : w.old[n] = a.old[m]
          /\ \A m \in 1 .. Len(a.old) : a.old[m] # k => \E n \in 1 .. Len(w.old) : w.old[n] = a.old[m]
        BY <2>2 DEF Leaves
    <2>5. \A x \in Held(w) : x \in Held(a)
        <3> SUFFICES ASSUME NEW x \in Held(w) PROVE x \in Held(a)
            OBVIOUS
        <3>1. a.cur \in Held(a) /\ \A m \in 1 .. Len(a.old) : a.old[m] \in Held(a)
            BY <1>3, HeldIs
        <3>2. x = w.cur \/ \E n \in 1 .. Len(w.old) : x = w.old[n]
            BY <2>3, HeldIs
        <3> QED BY <2>1, <2>4, <3>1, <3>2
    <2>6. \A x \in Held(a) : x # k => x \in Held(w)
        <3> SUFFICES ASSUME NEW x \in Held(a), x # k PROVE x \in Held(w)
            OBVIOUS
        <3>1. w.cur \in Held(w) /\ \A n \in 1 .. Len(w.old) : w.old[n] \in Held(w)
            BY <2>3, HeldIs
        <3>2. x = a.cur \/ \E m \in 1 .. Len(a.old) : x = a.old[m]
            BY <1>3, HeldIs
        <3> QED BY <2>1, <2>4, <3>1, <3>2
    <2> QED BY <2>3, <2>5, <2>6
<1> HIDE DEF w
<1>10. /\ v \in Vault /\ v.trust = mem.v.trust /\ v.auto = mem.v.auto
       /\ DOMAIN v.acc = DOMAIN mem.v.acc /\ v.acc[i] = w
       /\ \A j \in DOMAIN mem.v.acc : j # i => v.acc[j] = mem.v.acc[j]
    BY <1>2, <1>3, <1>9, ChangedAccount
<1> HIDE DEF v
<1>11. ShapeInv'
    <2>1. mem' \in Memory /\ op' \in [Op -> Handler]
        BY <1>4, <1>7, <1>10, SavingIs
    <2> QED BY <1>2, <1>6, <2>1 DEF Inv, ShapeInv, chrome
<1>12. /\ Book(i)' \in Books /\ Grows(Book(i), Book(i)')
       /\ Book(i)'.open \subseteq Book(i).open /\ Book(i)'.back \subseteq Book(i).back
    <2>1. Calm
        BY <1>2, <1>3, <1>4, <1>6, <1>7, <1>10, SavedCalm
    <2> QED BY <1>3, <1>11, <2>1, CalmBooks, ShapeNext DEF Inv
<1>13. ASSUME mem.key PROVE Sound(Book(i)', w)
    <2>1. mem.v.acc = disk.v.acc
        BY <1>4, <1>7, <1>10, <1>13, SavingIs
    <2>2. Sound(Book(i), a)
        BY <1>2, <1>3, <2>1 DEF Inv, CopiesInv, Entry, a
    <2> QED BY <1>3, <1>6, <1>8, <1>12, <2>2, DestroyedSound DEF w
<1>14. ASSUME ~ mem.key, Absent(i) PROVE Backed(Book(i)', Held(w))
    <2>1. Backed(Book(i), Held(a))
        BY <1>2, <1>14 DEF Absent, Keyless, a
    <2>2. Backed(Book(i)', Held(a))
        BY <1>8, <1>12, <2>1, GrowsBacked
    <2> QED BY <1>6, <1>8, <1>9, <2>2 DEF Backed
<1>15. \A j \in Id : HeldIn(mem.v, j) \subseteq HeldIn(v, j) \cup forgone'[j]
    <2>1. HeldIn(mem.v, i) = Held(a) /\ HeldIn(v, i) = Held(w)
        BY <1>2, <1>10 DEF HeldIn, a
    <2>2. \A j \in Id : j # i => HeldIn(v, j) = HeldIn(mem.v, j)
        BY <1>10 DEF HeldIn
    <2> QED BY <1>6, <1>9, <2>1, <2>2
<1>16. \A k1 \in Held(w) : k1 <= lastKey'
    BY <1>2, <1>9 DEF Inv, BirthInv, Made, a
<1>17. (\A j \in Id : unsure'[j] \subseteq 1 .. lastKey') /\ lastKey <= lastKey'
    BY <1>2, <1>3 DEF Inv, TurnInv
<1>18. i \in born'
    BY <1>2 DEF Inv, BirthInv, Made
<1>19. \A j \in DOMAIN v.acc :
         \/ j \in DOMAIN mem.v.acc /\ v.acc[j] = mem.v.acc[j]
         \/ /\ j \in born' /\ \A k1 \in Held(v.acc[j]) : k1 <= lastKey'
            /\ mem.key => Sound(Book(j)', v.acc[j])
            /\ ~ mem.key /\ Absent(j) => Backed(Book(j)', Held(v.acc[j]))
    BY <1>10, <1>13, <1>14, <1>16, <1>18
<1> QED BY <1>2, <1>4, <1>6, <1>7, <1>10, <1>11, <1>15, <1>17, <1>19, SavedAccounts

----------------------------------------------------------------------------
(* Steps of the memory: unlocked, locked, restarted, reconciled *)

LEMMA MemoryStep ==
    ASSUME ExtensionConstants, Inv, ShapeInv', TrustInv',
           UNCHANGED <<host, server, file, lastKey, born, forgone, unsure, stray>>,
           undo' \in {undo, NoUndo}, \A x \in Op : op'[x] \in {op[x], Resting},
           disk'.v.acc = disk.v.acc, Tidy(disk'.v), Tidy(mem'.v), Tidy(sync'.snap),
           disk'.made \/ (disk' = disk /\ mem' = Locked /\ sync'.stage = "idle" /\ scripts' = scripts),
           session' = mem'.key, mem'.key => mem'.open, ~ mem'.open => mem' = Locked,
           mem'.v.acc \in {mem.v.acc, disk.v.acc, file, Empty.acc},
           Keyless' => mem'.v.acc = file \/ (Keyless /\ mem'.v.acc = mem.v.acc),
           mem'.key => \/ mem.key /\ mem'.v.acc = mem.v.acc /\ op' = op
                       \/ mem'.v.acc = disk.v.acc /\ \A x \in Op : op[x].stage \notin InFlight,
           sync'.stage = "saving" => \/ sync' = sync
                                     \/ sync'.snap.acc = disk.v.acc /\ \A x \in Op : op[x].stage \notin InFlight
    PROVE  Inv'
<1>0. /\ Tidy(Empty) /\ DOMAIN Empty.acc = {} /\ Resting.snap = Empty /\ Resting.stage = "idle"
      /\ Resting.kind = "none"
    BY Ground, Starts
<1>1. Calm /\ \A x \in Op : op'[x].stage = "sent" => op'[x] = op[x]
    <2>1. \A x \in Op : op'[x] = op[x] \/ (op'[x].stage = "idle" /\ op'[x].kind = "none")
        BY <1>0
    <2>2. lastKey <= lastKey'
        BY DEF Inv, ShapeInv
    <2> QED BY <2>1, <2>2 DEF Calm, Turn
<1>2. TurnInv'
    <2>1. \A i \in Id : unsure'[i] \subseteq 1 .. lastKey'
        BY DEF Inv, TurnInv
    <2> QED BY <1>1, <2>1, CalmTurns DEF Inv
<1>3. CopiesInv'
    <2>1. ASSUME NEW i \in Id, Absent(i) PROVE Absent(i)'
        <3>1. Grows(Book(i), Book(i)') /\ Book(i) \in Books /\ Book(i)' \in Books
            BY <1>1, CalmBooks, Shape, ShapeNext DEF Inv
        <3>2. i \in DOMAIN file' => Backed(Book(i)', Held(file'[i]))
            BY <2>1, <3>1, GrowsBacked DEF Absent
        <3>3. Keyless' /\ i \in DOMAIN mem'.v.acc => Backed(Book(i)', Held(mem'.v.acc[i]))
            BY <2>1, <3>1, GrowsBacked DEF Absent
        <3>4. Book(i)'.sent \subseteq forgone'[i]
            BY <2>1, <3>1 DEF Absent, Grows
        <3> QED BY <3>2, <3>3, <3>4 DEF Absent
    <2>2. \A x \in Op : op'[x].stage = "saving" => op[x].stage = "saving" /\ op'[x].snap.acc = op[x].snap.acc
        BY <1>0
    <2> QED BY <1>1, <2>1, <2>2, CalmCopies DEF Inv
<1>4. SessionInv'
    <2>1. \A x \in Op : Tidy(op'[x].snap) /\ (op'[x].kind = "connect" => op'[x].site \in Site)
        BY <1>0 DEF Inv, SessionInv
    <2>2. ~ disk'.made => \A x \in Op : op'[x].stage \in {"idle", "event"}
        BY <1>0 DEF Inv, SessionInv
    <2>3. ~ disk'.made => disk'.v = Empty /\ ~ mem'.open /\ scripts' = {} /\ sync'.stage = "idle"
        BY DEF Inv, SessionInv, Locked
    <2> QED BY <2>1, <2>2, <2>3 DEF SessionInv
<1>5. FlightInv'
    <2>1. \A x \in Op : op'[x].stage \in InFlight => op'[x] = op[x]
        BY <1>0 DEF InFlight
    <2>2. \A i \in Id : HeldIn(disk'.v, i) = HeldIn(disk.v, i)
        BY DEF HeldIn
    <2>3. \A o, x \in Op : o # x /\ op'[o].stage \in InFlight => op'[x].stage \notin InFlight
        BY <2>1 DEF Inv, FlightInv
    <2>4. sync'.stage = "saving" => sync'.snap.acc = disk'.v.acc /\ \A o \in Op : op'[o].stage \notin InFlight
        BY <2>1 DEF Inv, FlightInv
    <2>5. mem'.key /\ (\A o \in Op : op'[o].stage # "saving") => mem'.v.acc = disk'.v.acc
        BY DEF Inv, FlightInv
    <2>6. \A o \in Op : op'[o].stage = "saving" =>
            /\ mem'.key => mem'.v.acc = op'[o].snap.acc
            /\ \A i \in Id : HeldIn(disk'.v, i) \subseteq HeldIn(op'[o].snap, i) \cup forgone'[i]
        BY <2>1, <2>2 DEF Inv, FlightInv, InFlight
    <2> QED BY <2>3, <2>4, <2>5, <2>6 DEF FlightInv
<1>6. BirthInv'
    <2>1. Made(disk.v.acc)
        <3>1. \A i \in DOMAIN disk.v.acc : i \in born /\ i \in Id
            BY Shape, AccountsAre DEF Inv, BirthInv
        <3>2. \A i \in DOMAIN disk.v.acc : Sound(Book(i), disk.v.acc[i])
            BY <3>1 DEF Inv, CopiesInv, Entry
        <3> QED BY <3>1, <3>2, BookIs DEF Made, Sound
    <2>2. Made(mem.v.acc) /\ Made(file) /\ Made(Empty.acc)
        BY <1>0 DEF Inv, BirthInv, Made
    <2>3. Made(file)' /\ Made(mem'.v.acc)
        BY <2>1, <2>2 DEF Made
    <2>4. \A x \in Op : DOMAIN op'[x].snap.acc \subseteq born'
        BY <1>0 DEF Inv, BirthInv
    <2>5. DOMAIN disk'.v.acc \subseteq born' /\ \A i \in Id \ born' : server'[i] = 0
        BY DEF Inv, BirthInv
    <2>6. Made(mem.v.acc)'
        BY <2>3 DEF Made
    <2> QED BY <2>3, <2>4, <2>5, <2>6 DEF BirthInv
<1> QED BY <1>2, <1>3, <1>4, <1>5, <1>6 DEF Inv

\* An unlocked vault, as it is stored.
LEMMA UnlockedIs ==
    ASSUME NEW v \in Vault
    PROVE  Unlocked(v) \in Memory /\ Unlocked(v).v = v /\ Unlocked(v).key /\ Unlocked(v).open
BY DEF Unlocked, Memory

LEMMA LockedIs ==
    ASSUME ExtensionConstants
    PROVE  Locked \in Memory /\ Locked.v = Empty /\ ~ Locked.key /\ ~ Locked.open /\ Tidy(Locked.v)
BY Ground DEF Locked

LEMMA ReconcileIs ==
    ASSUME ExtensionConstants, NEW v \in Vault, NEW b \in BOOLEAN
    PROVE  /\ Reconcile(v, b) \in Syncing /\ Reconcile(v, b).stage = "check" /\ Reconcile(v, b).snap = Empty
           /\ NoSync.stage = "idle" /\ NoSync.snap = Empty
<1>1. NoSync \in Syncing /\ v.trust \in SUBSET Site
    BY Ground DEF Vault
<1> QED BY <1>1 DEF Reconcile, NoSync, Syncing

LEMMA Unlocking ==
    ASSUME ExtensionConstants, Inv, Setup \/ Unlock
    PROVE  Inv'
<1>0. /\ disk.v \in Vault /\ Tidy(disk.v) /\ Tidy(sync.snap) /\ Tidy(Empty) /\ Empty \in Vault
    BY Shape, Ground DEF Inv, SessionInv
<1>1. CASE Setup
    <2>0. /\ ~ disk.made /\ disk' = [made |-> TRUE, v |-> Empty] /\ mem' = Unlocked(Empty) /\ session' = TRUE
          /\ UNCHANGED <<undo, host, grant, scripts, popup, sync, op>>
          /\ UNCHANGED <<server, file, lastKey, born, forgone, unsure, stray, deeds>>
        BY <1>1 DEF Setup, chrome, keys
    <2>1. /\ disk.v = Empty /\ scripts = {} /\ sync.stage = "idle"
          /\ \A x \in Op : op[x].stage \notin InFlight
        BY <2>0 DEF Inv, SessionInv, InFlight
    <2>2. mem' \in Memory /\ mem'.v = Empty /\ mem'.key /\ mem'.open
        BY <1>0, <2>0, UnlockedIs
    <2>3. disk' \in [made : BOOLEAN, v : Vault] /\ disk'.v = Empty /\ disk'.made
        BY <1>0, <2>0
    <2>4. ShapeInv'
        BY <2>0, <2>2, <2>3 DEF Inv, ShapeInv
    <2>5. TrustInv'
        BY <2>0, <2>1 DEF TrustInv
    <2> QED BY <1>0, <2>0, <2>1, <2>2, <2>3, <2>4, <2>5, MemoryStep DEF Keyless
<1>2. CASE Unlock
    <2>0. /\ disk.made /\ mem' = Unlocked(disk.v) /\ session' = TRUE /\ SaveFree
          /\ sync' = Reconcile(disk.v, FALSE)
          /\ UNCHANGED <<disk, undo, host, grant, scripts, popup, op>>
          /\ UNCHANGED <<server, file, lastKey, born, forgone, unsure, stray, deeds>>
        BY <1>2 DEF Unlock, chrome, keys
    <2>1. \A x \in Op : op[x].stage \notin InFlight
        BY <2>0 DEF SaveFree, InFlight
    <2>2. mem' \in Memory /\ mem'.v = disk.v /\ mem'.key /\ mem'.open
        BY <1>0, <2>0, UnlockedIs
    <2>3. sync' \in Syncing /\ sync'.stage = "check" /\ sync'.snap = Empty
        BY <1>0, <2>0, ReconcileIs
    <2>4. ShapeInv'
        BY <2>0, <2>2, <2>3 DEF Inv, ShapeInv
    <2>5. TrustInv'
        BY <2>0, <2>1, <2>3 DEF TrustInv
    <2> QED BY <1>0, <2>0, <2>1, <2>2, <2>3, <2>4, <2>5, MemoryStep DEF Keyless
<1> QED BY <1>1, <1>2

LEMMA Locking ==
    ASSUME ExtensionConstants, Inv, Lock \/ IdleAlarm \/ BrowserExit
    PROVE  Inv'
<1>0. /\ disk.v \in Vault /\ Tidy(disk.v) /\ Tidy(sync.snap) /\ Tidy(Empty) /\ deeds \in 0 .. MaxDeeds
      /\ NoUndo \in [site : {NoSite}, key : {0}] /\ NoSync \in Syncing /\ Resting \in Handler
      /\ NoSync.stage = "idle" /\ NoSync.snap = Empty
    BY Shape, Ground DEF Inv, SessionInv, ShapeInv, NoSync
<1>1. /\ mem' = Locked /\ session' = FALSE /\ undo' = NoUndo
      /\ UNCHANGED <<disk, host, scripts, server, file, lastKey, born, forgone, unsure, stray>>
    BY DEF Lock, IdleAlarm, BrowserExit, LockNow, chrome, keys
<1>2. /\ op' \in [Op -> Handler] /\ (\A x \in Op : op'[x] \in {op[x], Resting})
      /\ (sync' = sync \/ sync' = NoSync) /\ deeds' \in 0 .. MaxDeeds
      /\ grant' \in Site \cup {NoSite} /\ popup' \in Toolbar
    <2>1. CASE BrowserExit
        <3>1. deeds' \in 0 .. MaxDeeds
            BY <2>1, DeedIs DEF BrowserExit
        <3>2. popup' \in Toolbar
            BY <2>1 DEF BrowserExit, Toolbar
        <3> QED BY <1>0, <2>1, <3>1, <3>2 DEF BrowserExit
    <2>2. CASE Lock \/ IdleAlarm
        BY <1>0, <2>2 DEF Lock, IdleAlarm, chrome, Inv, ShapeInv
    <2> QED BY <2>1, <2>2
<1>3. mem' \in Memory /\ mem'.v = Empty /\ ~ mem'.key /\ ~ mem'.open
    BY <1>1, LockedIs
<1>4. ShapeInv'
    <2>1. sync' \in Syncing
        BY <1>0, <1>2 DEF Inv, ShapeInv
    <2>2. undo' \in [site : Site \cup {NoSite}, key : 0 .. MaxKey]
        BY <1>1 DEF NoUndo, ExtensionConstants
    <2> QED BY <1>1, <1>2, <1>3, <2>1, <2>2 DEF Inv, ShapeInv
<1>5. TrustInv'
    BY <1>3 DEF TrustInv
<1>6. disk'.made \/ (disk' = disk /\ mem' = Locked /\ sync'.stage = "idle" /\ scripts' = scripts)
    BY <1>0, <1>1, <1>2 DEF Inv, SessionInv
<1>7. sync'.stage = "saving" => sync' = sync
    BY <1>0, <1>2
<1>8. session' = mem'.key /\ Tidy(sync'.snap)
    BY <1>0, <1>1, <1>2 DEF Locked
<1>9. mem'.v.acc = Empty.acc /\ undo' \in {undo, NoUndo}
    BY <1>1, <1>3
<1> QED BY <1>0, <1>1, <1>2, <1>3, <1>4, <1>5, <1>6, <1>7, <1>8, <1>9, MemoryStep DEF Keyless

LEMMA Stopping ==
    ASSUME ExtensionConstants, Inv, StopWorker
    PROVE  Inv'
<1>0. /\ disk.v \in Vault /\ Tidy(disk.v) /\ Tidy(sync.snap) /\ Tidy(Empty) /\ sync \in Syncing
      /\ Resting \in Handler
    BY Shape, Ground DEF Inv, SessionInv, ShapeInv
<1>1. /\ disk.made /\ sync.stage = "idle" /\ undo' = NoUndo /\ session' = (session /\ ~ idle)
      /\ UNCHANGED <<disk, host, grant, popup, deeds, scripts, server, file, lastKey, born, forgone, unsure, stray>>
      /\ IF session /\ ~ idle THEN mem' = Unlocked(disk.v) /\ sync' = Reconcile(disk.v, TRUE)
         ELSE mem' = Locked /\ sync' = sync
    BY DEF StopWorker, chrome, keys
<1>2. op' \in [Op -> Handler] /\ \A x \in Op : op'[x] \in {op[x], Resting}
    BY <1>0 DEF StopWorker, Inv, ShapeInv
<1>3. \A x \in Op : op[x].stage \notin InFlight
    BY DEF StopWorker, InFlight
<1>4. undo' \in [site : Site \cup {NoSite}, key : 0 .. MaxKey]
    BY <1>1 DEF NoUndo, ExtensionConstants
<1>5. CASE session /\ ~ idle
    <2>1. mem' \in Memory /\ mem'.v = disk.v /\ mem'.key /\ mem'.open
        BY <1>0, <1>1, <1>5, UnlockedIs
    <2>2. sync' \in Syncing /\ sync'.stage = "check" /\ sync'.snap = Empty
        BY <1>0, <1>1, <1>5, ReconcileIs
    <2>3. ShapeInv'
        BY <1>1, <1>2, <1>4, <1>5, <2>1, <2>2 DEF Inv, ShapeInv
    <2>4. TrustInv'
        <3>1. \A x \in Op : op'[x].stage \notin InFlight
            BY <1>2, <1>3, Starts DEF InFlight
        <3> QED BY <2>2, <3>1 DEF TrustInv
    <2>5. session' = mem'.key
        BY <1>1, <1>5, <2>1 DEF Unlocked
    <2> QED BY <1>0, <1>1, <1>2, <1>3, <2>1, <2>2, <2>3, <2>4, <2>5, MemoryStep DEF Keyless
<1>6. CASE ~ (session /\ ~ idle)
    <2>1. mem' = Locked /\ mem' \in Memory /\ mem'.v = Empty /\ ~ mem'.key /\ ~ mem'.open /\ sync' = sync
        BY <1>1, <1>6, LockedIs
    <2>2. ShapeInv'
        BY <1>0, <1>1, <1>2, <1>4, <1>6, <2>1 DEF Inv, ShapeInv
    <2>3. TrustInv'
        BY <2>1 DEF TrustInv
    <2>4. session' = mem'.key
        BY <1>1, <1>6, <2>1 DEF Locked
    <2> QED BY <1>0, <1>1, <1>2, <2>1, <2>2, <2>3, <2>4, MemoryStep DEF Keyless
<1> QED BY <1>5, <1>6

LEMMA Reconciling ==
    ASSUME ExtensionConstants, Inv, SyncCheck \/ SyncLand
    PROVE  Inv'
<1>0. /\ disk \in [made : BOOLEAN, v : Vault] /\ Tidy(disk.v) /\ Tidy(mem.v) /\ Tidy(sync.snap)
      /\ sync \in Syncing /\ mem \in Memory /\ mem.v \in Vault /\ sync.snap \in Vault
      /\ NoSync \in Syncing /\ NoSync.stage = "idle" /\ NoSync.snap = Empty /\ Tidy(Empty)
    BY Shape, Ground DEF Inv, SessionInv, ShapeInv, NoSync
<1>1. /\ UNCHANGED <<session, host, undo, grant, popup, op, deeds>>
      /\ UNCHANGED <<server, file, lastKey, born, forgone, unsure, stray>>
    BY DEF SyncCheck, SyncLand, keys
<1>2. sync.stage \in {"check", "saving"} /\ disk.made
    BY DEF SyncCheck, SyncLand, Inv, SessionInv
<1>3. session = mem.key /\ (mem.key => mem.open) /\ (~ mem.open => mem = Locked)
    BY DEF Inv, SessionInv
<1>4. \A x \in Op : op[x].kind = "add" /\ op[x].stage \in InFlight /\ mem.key => op[x].site \in mem.v.trust \cap host
    BY DEF Inv, TrustInv
<1>5. CASE SyncCheck /\ ~ mem.open /\ SyncEnds /\ UNCHANGED <<mem, scripts>>
    <2>1. sync' = NoSync /\ UNCHANGED <<disk, mem, scripts>>
        BY <1>5 DEF SyncCheck, SyncEnds
    <2>2. ShapeInv'
        BY <1>0, <1>1, <2>1 DEF Inv, ShapeInv
    <2>3. TrustInv'
        BY <1>3, <1>5 DEF TrustInv
    <2> QED BY <1>0, <1>1, <1>2, <1>3, <1>5, <2>1, <2>2, <2>3, MemoryStep DEF Keyless
<1>6. CASE SyncCheck /\ mem.open /\ sync.todo # {}
    <2>1. PICK s \in sync.todo : LET gone == s \in mem.v.trust /\ s \notin host IN
            /\ sync' = [sync EXCEPT !.todo = @ \ {s}, !.changed = @ \/ gone]
            /\ mem' = IF gone THEN [mem EXCEPT !.v.trust = @ \ {s}, !.v.auto = @ \ {s}] ELSE mem
        BY <1>6 DEF SyncCheck
    <2>2. UNCHANGED <<disk, scripts>> /\ sync.stage = "check"
        BY <1>6 DEF SyncCheck
    <2>3. sync' \in Syncing /\ sync'.stage = "check" /\ sync'.snap = sync.snap
        <3>1. sync.changed \/ (s \in mem.v.trust /\ s \notin host) \in BOOLEAN
            OBVIOUS
        <3> QED BY <1>0, <2>1, <2>2, <3>1 DEF Syncing
    <2>4. /\ mem' \in Memory /\ mem'.open = mem.open /\ mem'.key = mem.key /\ mem'.v.acc = mem.v.acc
          /\ Tidy(mem'.v) /\ \A t \in mem.v.trust \cap host : t \in mem'.v.trust
        <3>1. CASE s \in mem.v.trust /\ s \notin host
            <4>1. mem' = [mem EXCEPT !.v.trust = @ \ {s}, !.v.auto = @ \ {s}]
                BY <2>1, <3>1
            <4> DEFINE w == [mem.v EXCEPT !.trust = mem.v.trust \ {s}, !.auto = mem.v.auto \ {s}]
            <4>2. w \in Vault /\ w.acc = mem.v.acc /\ w.trust = mem.v.trust \ {s} /\ w.auto = mem.v.auto \ {s}
                BY <1>0 DEF Vault
            <4>3. mem' = [mem EXCEPT !.v = w]
                BY <1>0, <4>1 DEF Memory, Vault
            <4> HIDE DEF w
            <4>4. mem' \in Memory /\ mem'.v = w /\ mem'.open = mem.open /\ mem'.key = mem.key
                BY <1>0, <4>2, <4>3 DEF Memory
            <4> QED BY <1>0, <3>1, <4>2, <4>4 DEF Tidy
        <3>2. CASE ~ (s \in mem.v.trust /\ s \notin host)
            BY <1>0, <2>1, <3>2
        <3> QED BY <3>1, <3>2
    <2>5. ShapeInv'
        BY <1>0, <1>1, <2>2, <2>3, <2>4 DEF Inv, ShapeInv
    <2>6. TrustInv'
        BY <1>1, <1>4, <2>3, <2>4 DEF TrustInv
    <2> QED BY <1>0, <1>1, <1>2, <1>3, <1>6, <2>2, <2>3, <2>4, <2>5, <2>6, MemoryStep DEF Keyless
<1>7. CASE SyncCheck /\ mem.open /\ sync.todo = {}
    <2>1. /\ SaveFree /\ mem' = mem /\ disk' = disk
          /\ IF ~ sync.changed THEN SyncRegister
             ELSE /\ scripts' = scripts
                  /\ IF mem.key THEN sync' = [sync EXCEPT !.stage = "saving", !.snap = mem.v]
                     ELSE SyncEnds
        BY <1>7 DEF SyncCheck
    <2>2. \A x \in Op : op[x].stage \notin InFlight
        BY <2>1 DEF SaveFree, InFlight
    <2>3. CASE ~ sync.changed
        <3>1. sync' = NoSync /\ scripts' \subseteq mem.v.trust /\ mem.v.trust \subseteq Site
            BY <1>0, <2>1, <2>3 DEF SyncRegister, SyncEnds, Vault
        <3>2. ShapeInv'
            BY <1>0, <1>1, <2>1, <3>1 DEF Inv, ShapeInv
        <3>3. TrustInv'
            BY <1>1, <1>4, <2>1, <3>1 DEF TrustInv
        <3> QED BY <1>0, <1>1, <1>2, <1>3, <1>7, <2>1, <2>2, <3>1, <3>2, <3>3, MemoryStep DEF Keyless
    <2>4. CASE sync.changed /\ mem.key
        <3>1. sync' = [sync EXCEPT !.stage = "saving", !.snap = mem.v] /\ scripts' = scripts
            BY <2>1, <2>4
        <3>2. sync' \in Syncing /\ sync'.stage = "saving" /\ sync'.snap = mem.v
            BY <1>0, <3>1 DEF Syncing
        <3>3. mem.v.acc = disk.v.acc
            BY <2>2, <2>4 DEF Inv, FlightInv, InFlight
        <3>4. ShapeInv'
            BY <1>0, <1>1, <2>1, <3>1, <3>2 DEF Inv, ShapeInv
        <3>5. TrustInv'
            BY <1>1, <1>4, <2>1, <3>2 DEF TrustInv
        <3> QED BY <1>0, <1>1, <1>2, <1>3, <1>7, <2>1, <2>2, <2>4, <3>1, <3>2, <3>3, <3>4, <3>5, MemoryStep DEF Keyless
    <2>5. CASE sync.changed /\ ~ mem.key
        <3>1. sync' = NoSync /\ scripts' = scripts
            BY <2>1, <2>5 DEF SyncEnds
        <3>2. ShapeInv'
            BY <1>0, <1>1, <2>1, <3>1 DEF Inv, ShapeInv
        <3>3. TrustInv'
            BY <2>1, <2>5 DEF TrustInv
        <3> QED BY <1>0, <1>1, <1>2, <1>3, <1>7, <2>1, <2>5, <3>1, <3>2, <3>3, MemoryStep DEF Keyless
    <2> QED BY <2>3, <2>4, <2>5
<1>8. CASE SyncLand
    <2>1. /\ sync.stage = "saving" /\ disk' = [disk EXCEPT !.v = sync.snap] /\ mem' = mem
          /\ IF mem.open THEN SyncRegister ELSE SyncEnds /\ UNCHANGED scripts
        BY <1>8 DEF SyncLand
    <2>2. /\ disk' \in [made : BOOLEAN, v : Vault] /\ disk'.v = sync.snap /\ disk'.made = disk.made
        BY <1>0, <2>1
    <2>3. sync.snap.acc = disk.v.acc /\ \A x \in Op : op[x].stage \notin InFlight
        BY <2>1 DEF Inv, FlightInv
    <2>4. sync' = NoSync /\ (mem.open => scripts' \subseteq mem.v.trust) /\ (~ mem.open => scripts' = scripts)
          /\ mem.v.trust \subseteq Site
        BY <1>0, <2>1 DEF SyncRegister, SyncEnds, Vault
    <2>5. ShapeInv'
        BY <1>0, <1>1, <2>1, <2>2, <2>4 DEF Inv, ShapeInv
    <2>6. TrustInv'
        BY <1>1, <1>3, <1>4, <2>1, <2>4 DEF TrustInv
    <2> QED BY <1>0, <1>1, <1>2, <1>3, <2>1, <2>2, <2>3, <2>4, <2>5, <2>6, MemoryStep DEF Keyless
<1>9. SyncCheck => (~ mem.open /\ SyncEnds /\ UNCHANGED <<mem, scripts>>) \/ mem.open
    BY DEF SyncCheck
<1> QED BY <1>5, <1>6, <1>7, <1>8, <1>9

LEMMA ExportKeeps ==
    ASSUME ExtensionConstants, Inv, Export
    PROVE  Inv'
<1>1. PICK i \in DOMAIN mem.v.acc : file' = [j \in {i} |-> mem.v.acc[i]]
    BY DEF Export, Active
<1>2. /\ UNCHANGED <<disk, mem, session, undo, grant, host, scripts, popup, sync, op>>
      /\ UNCHANGED <<server, lastKey, born, forgone, unsure, stray>>
      /\ mem.open /\ SaveFree /\ deeds' \in 0 .. MaxDeeds
    BY DeedIs DEF Export, chrome
<1>3. /\ mem.v.acc \in Accounts /\ disk.v.acc \in Accounts /\ mem.v.acc[i] \in Account /\ i \in Id
      /\ mem.key \in BOOLEAN /\ lastKey \in Nat
    BY Shape, AccountsAre DEF Inv, ShapeInv, Memory
<1>4. DOMAIN file' = {i} /\ file'[i] = mem.v.acc[i] /\ file' \in Accounts
    <2>1. DOMAIN file' = {i} /\ file'[i] = mem.v.acc[i] /\ file' \in [{i} -> Account]
        BY <1>1, <1>3
    <2> QED BY <1>3, <2>1, AccountsAre
<1>5. ShapeInv'
    BY <1>2, <1>4 DEF Inv, ShapeInv
<1>6. Calm
    <2>1. lastKey <= lastKey'
        BY <1>2, <1>3
    <2> QED BY <1>2, <2>1 DEF Calm
<1>7. TurnInv'
    <2>1. \A j \in Id : unsure'[j] \subseteq 1 .. lastKey'
        BY <1>2 DEF Inv, TurnInv
    <2> QED BY <1>2, <1>5, <1>6, <2>1, CalmTurns DEF Inv
<1>8. \A x \in Op : op[x].stage \notin InFlight
    BY <1>2 DEF SaveFree, InFlight
<1>9. ASSUME NEW j \in Id, j \notin DOMAIN disk.v.acc PROVE Absent(j)'
    <2>1. Absent(j)
        BY <1>9 DEF Inv, CopiesInv, Entry
    <2>2. Grows(Book(j), Book(j)') /\ Book(j) \in Books /\ Book(j)' \in Books
        BY <1>5, <1>6, CalmBooks, Shape, ShapeNext DEF Inv
    <2>3. j = i => ~ mem.key
        BY <1>8, <1>9 DEF Inv, FlightInv, InFlight
    <2>4. j \in DOMAIN file' => Backed(Book(j)', Held(file'[j]))
        <3> SUFFICES ASSUME j \in DOMAIN file' PROVE Backed(Book(j)', Held(file'[j]))
            OBVIOUS
        <3>1. j = i
            BY <1>4
        <3>2. Backed(Book(j), Held(mem.v.acc[j]))
            BY <1>2, <2>1, <2>3, <3>1 DEF Absent, Keyless
        <3>3. Backed(Book(j)', Held(mem.v.acc[j]))
            BY <2>2, <3>2, GrowsBacked
        <3> QED BY <1>4, <3>1, <3>3
    <2>5. Keyless' /\ j \in DOMAIN mem'.v.acc => Backed(Book(j)', Held(mem'.v.acc[j]))
        BY <1>2, <2>1, <2>2, GrowsBacked DEF Absent, Keyless
    <2>6. Book(j)'.sent \subseteq forgone'[j]
        BY <1>2, <2>1, <2>2 DEF Absent, Grows
    <2> QED BY <2>4, <2>5, <2>6 DEF Absent
<1>10. CopiesInv'
    <2>1. ASSUME NEW j \in Id
          PROVE  IF j \in DOMAIN disk.v.acc THEN Sound(Book(j)', disk.v.acc[j]) ELSE Absent(j)'
        BY <1>3, <1>5, <1>6, <1>9, EntryGrows DEF Inv, CopiesInv
    <2>2. \A j \in Id : Entry(j, disk.v.acc)'
        BY <1>2, <2>1 DEF Entry
    <2> QED BY <1>2, <1>8, <2>2 DEF CopiesInv, InFlight
<1>11. BirthInv'
    <2>1. Made(mem.v.acc)' /\ Made(file)'
        BY <1>2, <1>4 DEF Inv, BirthInv, Made
    <2> QED BY <1>2, <2>1 DEF Inv, BirthInv
<1>12. SessionInv' /\ FlightInv' /\ TrustInv'
    BY <1>2 DEF Inv, SessionInv, FlightInv, TrustInv, HeldIn, Leaving
<1> QED BY <1>5, <1>7, <1>10, <1>11, <1>12 DEF Inv

\* The accounts of a backup beside those of a vault.
LEMMA MergedIs ==
    ASSUME NEW acc \in Accounts, file \in Accounts
    PROVE  /\ Merged(acc) \in Accounts /\ DOMAIN Merged(acc) = DOMAIN acc \cup DOMAIN file
           /\ \A i \in DOMAIN acc : Merged(acc)[i] = acc[i]
           /\ \A i \in DOMAIN file \ DOMAIN acc : Merged(acc)[i] = file[i]
<1>1. /\ DOMAIN Merged(acc) = DOMAIN acc \cup DOMAIN file
      /\ \A i \in DOMAIN acc : Merged(acc)[i] = acc[i]
      /\ \A i \in DOMAIN file \ DOMAIN acc : Merged(acc)[i] = file[i]
    BY DEF Merged
<1>2. /\ DOMAIN acc \subseteq Id /\ DOMAIN file \subseteq Id
      /\ acc \in [DOMAIN acc -> Account] /\ file \in [DOMAIN file -> Account]
    BY AccountsAre
<1>3. Merged(acc) \in [DOMAIN acc \cup DOMAIN file -> Account]
    BY <1>2 DEF Merged
<1> QED BY <1>1, <1>2, <1>3, AccountsAre

LEMMA ImportKeeps ==
    ASSUME ExtensionConstants, Inv, NEW o \in Op, ImportMerge(o)
    PROVE  Inv'
<1>0. /\ mem.v \in Vault /\ mem.v.acc \in Accounts /\ disk.v.acc \in Accounts /\ file \in Accounts
      /\ lastKey \in Nat /\ deeds \in 0 .. MaxDeeds /\ op[o] \in Handler /\ mem.key \in BOOLEAN
      /\ Tidy(mem.v) /\ Tidy(disk.v) /\ Tidy(sync.snap)
    BY Shape DEF Inv, ShapeInv, SessionInv, Memory
<1>1. /\ UNCHANGED <<disk, session, undo, chrome, sync, server, file, lastKey, born, deeds, forgone, stray>>
      /\ op[o].kind = "import" /\ op[o].stage = "opening"
    BY DEF ImportMerge
<1>2. \A i \in DOMAIN file : file[i] \in Account /\ i \in Id /\ i \in born /\ \A k \in Held(file[i]) : k <= lastKey
    BY <1>0, AccountsAre DEF Inv, BirthInv, Made
<1>3. CASE mem.open
    <2> DEFINE f == Merged(mem.v.acc)
               v == [mem.v EXCEPT !.acc = f]
    <2>1. /\ Saving(o, op[o], v)
          /\ unsure' = [i \in Id |-> unsure[i] \cup {file[j].cur : j \in {i} \cap (DOMAIN file \ DOMAIN mem.v.acc)}]
        BY <1>3 DEF ImportMerge
    <2>2. /\ f \in Accounts /\ DOMAIN f = DOMAIN mem.v.acc \cup DOMAIN file
          /\ \A i \in DOMAIN mem.v.acc : f[i] = mem.v.acc[i]
          /\ \A i \in DOMAIN file \ DOMAIN mem.v.acc : f[i] = file[i]
        BY <1>0, MergedIs
    <2> HIDE DEF f
    <2>3. v \in Vault /\ v.acc = f /\ v.trust = mem.v.trust /\ v.auto = mem.v.auto
        BY <1>0, <2>2 DEF Vault
    <2> HIDE DEF v
    <2>4. /\ unsure' \in [Id -> SUBSET Kid] /\ \A i \in Id : unsure[i] \subseteq unsure'[i]
          /\ \A i \in Id : unsure'[i] \subseteq 1 .. lastKey'
          /\ \A i \in DOMAIN file \ DOMAIN mem.v.acc : file[i].cur \in unsure'[i]
        <3>1. unsure \in [Id -> SUBSET Kid] /\ \A i \in Id : unsure[i] \subseteq 1 .. lastKey
            BY DEF Inv, ShapeInv, TurnInv
        <3>2. \A j \in DOMAIN file : file[j].cur \in Kid /\ file[j].cur \in 1 .. lastKey
            <4>1. \A j \in DOMAIN file : file[j].cur \in Kid /\ file[j].cur <= lastKey
                BY <1>2, HeldIs
            <4> QED BY <1>0, <4>1 DEF Kid
        <3>3. \A i \in Id : unsure'[i] = unsure[i] \cup {file[j].cur : j \in {i} \cap (DOMAIN file \ DOMAIN mem.v.acc)}
            BY <2>1
        <3>4. \A i \in Id : {file[j].cur : j \in {i} \cap (DOMAIN file \ DOMAIN mem.v.acc)} \subseteq Kid \cap 1 .. lastKey
            BY <3>2
        <3>5. \A i \in Id : unsure[i] \cup {file[j].cur : j \in {i} \cap (DOMAIN file \ DOMAIN mem.v.acc)} \in SUBSET Kid
            BY <3>1, <3>4
        <3>6. unsure' \in [Id -> SUBSET Kid]
            BY <2>1, <3>5
        <3>7. \A i \in DOMAIN file \ DOMAIN mem.v.acc : file[i].cur \in unsure'[i]
            BY <1>2, <3>3
        <3> QED BY <1>1, <3>1, <3>3, <3>4, <3>6, <3>7
    <2>5. ShapeInv'
        <3>1. mem' \in Memory /\ op' \in [Op -> Handler]
            BY <1>0, <2>1, <2>3, SavingIs
        <3> QED BY <1>1, <2>4, <3>1 DEF Inv, ShapeInv, chrome
    <2>6. /\ \A x \in Op : op[x].stage \notin InFlight
          /\ mem.key => mem.v.acc = disk.v.acc
        BY <1>0, <2>1, <2>3, SavingIs
    <2>7. Calm
        BY <1>0, <1>1, <2>1, <2>3, <2>4, SavedCalm
    <2>8. \A i \in Id : /\ Book(i) \in Books /\ Book(i)' \in Books /\ Grows(Book(i), Book(i)')
                        /\ Book(i)'.open \subseteq Book(i).open /\ Book(i)'.back \subseteq Book(i).back
        BY <2>5, <2>7, CalmBooks, Shape, ShapeNext DEF Inv
    <2>9. ASSUME mem.key, NEW i \in DOMAIN file \ DOMAIN mem.v.acc PROVE Sound(Book(i)', file[i])
        <3>1. i \in Id /\ i \notin DOMAIN disk.v.acc /\ file[i] \in Account
            BY <1>2, <2>6, <2>9
        <3>2. Absent(i)
            BY <3>1 DEF Inv, CopiesInv, Entry
        <3>3. Backed(Book(i), Held(file[i])) /\ Book(i).sent \subseteq forgone[i]
            BY <3>2 DEF Absent
        <3>4. Book(i).open \subseteq Book(i).sent /\ Book(i).back \subseteq Book(i).sent
            <4>1. \A x \in Op : Opened(x, i) => op[x].stage = "sent"
                BY <2>6 DEF Opened, InFlight
            <4> QED BY <4>1, BookIs
        <3>5. Backed(Book(i)', Held(file[i]))
            BY <2>8, <3>1, <3>3, GrowsBacked
        <3>6. Book(i)'.lost = forgone[i] /\ Book(i)'.doubt = unsure'[i] /\ Book(i)'.last = lastKey
            BY <1>1, BookNext
        <3>7. Book(i)'.sent \subseteq Book(i).sent
            BY <2>8, <3>1 DEF Grows
        <3>8. /\ Book(i)'.sent \subseteq Book(i)'.lost /\ Book(i)'.open \subseteq Book(i)'.lost
              /\ Book(i)'.back \subseteq Book(i)'.lost /\ file[i].cur \in Book(i)'.doubt
              /\ \A k \in Held(file[i]) : k <= Book(i)'.last
            BY <1>2, <2>4, <2>8, <3>1, <3>3, <3>4, <3>6, <3>7
        <3> QED BY <2>8, <3>1, <3>5, <3>8, NewSound
    <2>10. ASSUME ~ mem.key, NEW i \in DOMAIN file \ DOMAIN mem.v.acc, Absent(i)
           PROVE  Backed(Book(i)', Held(file[i]))
        BY <1>2, <2>8, <2>10, GrowsBacked DEF Absent
    <2>11. \A i \in DOMAIN v.acc :
             \/ i \in DOMAIN mem.v.acc /\ v.acc[i] = mem.v.acc[i]
             \/ /\ i \in born' /\ \A k \in Held(v.acc[i]) : k <= lastKey'
                /\ mem.key => Sound(Book(i)', v.acc[i])
                /\ ~ mem.key /\ Absent(i) => Backed(Book(i)', Held(v.acc[i]))
        BY <1>1, <1>2, <2>2, <2>3, <2>9, <2>10
    <2>12. \A i \in Id : HeldIn(mem.v, i) \subseteq HeldIn(v, i)
        BY <2>2, <2>3 DEF HeldIn
    <2>13. lastKey <= lastKey' /\ born \subseteq born' /\ \A i \in Id : forgone[i] \subseteq forgone'[i]
        BY <1>0, <1>1
    <2> QED BY <1>0, <1>1, <1>3, <2>1, <2>3, <2>4, <2>5, <2>11, <2>12, <2>13, SavedAccounts
<1>4. CASE ~ mem.open
    <2>1. PICK i \in DOMAIN file :
            mem' = [open |-> TRUE, key |-> FALSE, v |-> [Empty EXCEPT !.acc = file, !.active = i]]
        BY <1>4 DEF ImportMerge
    <2>2. op' = [op EXCEPT ![o] = Resting] /\ unsure' = unsure
        BY <1>4 DEF ImportMerge
    <2> DEFINE v == [Empty EXCEPT !.acc = file, !.active = i]
    <2>3. v \in Vault /\ v.acc = file /\ v.trust = {} /\ v.auto = {}
        BY <1>0, <1>2 DEF Empty, Vault
    <2>4. mem' = [open |-> TRUE, key |-> FALSE, v |-> v]
        BY <2>1
    <2> HIDE DEF v
    <2>5. mem' \in Memory /\ mem'.v = v /\ mem'.open /\ ~ mem'.key /\ mem'.key = FALSE
        BY <2>3, <2>4 DEF Memory
    <2>6. op' \in [Op -> Handler] /\ op'[o] = Resting /\ \A x \in Op : x # o => op'[x] = op[x]
        BY <2>2, Starts, OneHandler DEF Inv
    <2>7. ShapeInv'
        BY <1>1, <2>2, <2>5, <2>6 DEF Inv, ShapeInv, chrome
    <2>8. TrustInv'
        BY <2>5 DEF TrustInv
    <2>9. disk.made /\ session = FALSE
        BY <1>1, <1>4 DEF Inv, SessionInv, Locked
    <2>10. Tidy(mem'.v)
        BY <2>3, <2>5 DEF Tidy
    <2> QED BY <1>0, <1>1, <2>2, <2>3, <2>5, <2>6, <2>7, <2>8, <2>9, <2>10, MemoryStep DEF chrome
<1> QED BY <1>3, <1>4

----------------------------------------------------------------------------
(* Rotations and undos *)

\* A save that replaces an account by one that holds its keys, as a rotation or
\* an undo does.
LEMMA TurnedAccount ==
    ASSUME ExtensionConstants, Inv, NEW o \in Op, NEW r \in Handler, NEW v \in Vault, Saving(o, r, v),
           NEW i \in DOMAIN mem.v.acc, NEW w \in Account,
           v = [mem.v EXCEPT !.acc = [mem.v.acc EXCEPT ![i] = w]],
           r.kind \in {"rotate", "revert"}, mem.open, lastKey <= lastKey', ShapeInv', TurnInv',
           UNCHANGED <<disk, session, chrome, sync, server, file, born, forgone, stray>>,
           \A j \in Id : Grows(Book(j), Book(j)'),
           Held(mem.v.acc[i]) \subseteq Held(w), \A k \in Held(w) : k <= lastKey',
           mem.key => Sound(Book(i)', w)
    PROVE  Inv'
<1>0. /\ mem.v \in Vault /\ disk.v.acc \in Accounts /\ mem.v.acc \in Accounts /\ v.acc \in Accounts
      /\ lastKey \in Nat /\ lastKey' \in Nat /\ i \in Id
    BY Shape, AccountsAre DEF Inv, ShapeInv, Vault
<1>1. /\ mem'.v = v /\ mem'.open = mem.open /\ mem'.key = mem.key
      /\ \A x \in Op : x # o => op'[x] = op[x]
    BY SavingIs
<1>2. /\ mem.key => op'[o].snap = v /\ mem.v.acc = disk.v.acc
      /\ \A x \in Op : op'[x].stage = "saving" => x = o /\ mem.key
    <2>1. ~ mem.key => op'[o].stage = "idle"
        <3>1. ~ mem.key => op'[o] = Resting
            BY SavingIs
        <3> QED BY <3>1, Starts
    <2>2. (\A x \in Op : op[x].stage \notin InFlight) /\ (mem.key => op'[o].snap = v /\ mem.v.acc = disk.v.acc)
        BY SavingIs
    <2> QED BY <1>1, <2>1, <2>2 DEF InFlight
<1>3. /\ v.trust = mem.v.trust /\ v.auto = mem.v.auto /\ DOMAIN v.acc = DOMAIN mem.v.acc /\ v.acc[i] = w
      /\ \A j \in DOMAIN mem.v.acc : j # i => v.acc[j] = mem.v.acc[j]
    BY <1>0, ChangedAccount
<1>4. \A j \in Id : Book(j) \in Books /\ Book(j)' \in Books
    BY Shape, ShapeNext DEF Inv
<1>5. \A j \in Id : HeldIn(mem.v, j) \subseteq HeldIn(v, j)
    <2>1. HeldIn(mem.v, i) = Held(mem.v.acc[i]) /\ HeldIn(v, i) = Held(w)
        BY <1>3 DEF HeldIn
    <2>2. \A j \in Id : j # i => HeldIn(v, j) = HeldIn(mem.v, j)
        BY <1>3 DEF HeldIn
    <2> QED BY <2>1, <2>2
<1>6. SessionInv' /\ FlightInv' /\ BirthInv' /\ TrustInv'
    <2>1. \A j \in DOMAIN v.acc : j \in born' /\ \A k \in Held(v.acc[j]) : k <= lastKey'
        <3>1. \A j \in DOMAIN mem.v.acc : j \in born /\ \A k \in Held(mem.v.acc[j]) : k <= lastKey /\ k \in Nat
            BY <1>0, AccountsAre, HeldIs DEF Inv, BirthInv, Made, Kid
        <3> QED BY <1>0, <1>3, <3>1
    <2>2. Tidy(v)
        BY <1>3 DEF Inv, SessionInv, Tidy
    <2>3. UNCHANGED <<disk, session, sync, host, scripts, server, file>> /\ born \subseteq born'
        BY DEF chrome
    <2>4. \A j \in Id : forgone[j] \subseteq forgone'[j]
        OBVIOUS
    <2>5. r.kind # "add" /\ r.kind # "connect" /\ \A s \in mem.v.trust : s \in v.trust
        BY <1>3
    <2> QED BY <1>5, <2>1, <2>2, <2>3, <2>4, <2>5, SavedWorld
<1>7. ASSUME NEW j \in Id, Absent(j) PROVE Absent(j)'
    <2>1. j \in DOMAIN file' => Backed(Book(j)', Held(file'[j]))
        BY <1>4, <1>7, GrowsBacked DEF Absent
    <2>2. Keyless' /\ j \in DOMAIN mem'.v.acc => Backed(Book(j)', Held(mem'.v.acc[j]))
        <3> SUFFICES ASSUME Keyless', j \in DOMAIN mem'.v.acc PROVE Backed(Book(j)', Held(mem'.v.acc[j]))
            OBVIOUS
        <3>1. Backed(Book(j), Held(mem.v.acc[j]))
            BY <1>1, <1>3, <1>7 DEF Absent, Keyless
        <3>2. Backed(Book(j)', Held(mem.v.acc[j]))
            BY <1>4, <3>1, GrowsBacked
        <3>3. Held(mem.v.acc[j]) \subseteq Held(v.acc[j])
            BY <1>1, <1>3
        <3> QED BY <1>1, <3>2, <3>3 DEF Backed
    <2>3. Book(j)'.sent \subseteq forgone'[j]
        BY <1>7 DEF Absent, Grows
    <2> QED BY <2>1, <2>2, <2>3 DEF Absent
<1>8. ASSUME NEW j \in Id
      PROVE  IF j \in DOMAIN disk.v.acc THEN Sound(Book(j)', disk.v.acc[j]) ELSE Absent(j)'
    <2>1. Entry(j, disk.v.acc)
        BY DEF Inv, CopiesInv
    <2>2. j \in DOMAIN disk.v.acc => disk.v.acc[j] \in Account
        BY <1>0, AccountsAre
    <2> QED BY <1>4, <1>7, <2>1, <2>2, GrowsSound DEF Entry
<1>9. CopiesInv'
    <2>1. \A j \in Id : Entry(j, disk.v.acc)'
        BY <1>8 DEF Entry
    <2>2. ASSUME NEW x \in Op, op'[x].stage = "saving", NEW j \in Id PROVE Entry(j, op[x].snap.acc)'
        <3>1. op'[x].snap = v /\ mem.key /\ mem.v.acc = disk.v.acc
            BY <1>2, <2>2
        <3>2. IF j \in DOMAIN v.acc THEN Sound(Book(j)', v.acc[j]) ELSE Absent(j)'
            BY <1>3, <1>8, <3>1
        <3> QED BY <3>1, <3>2 DEF Entry
    <2> QED BY <2>1, <2>2 DEF CopiesInv
<1> QED BY <1>6, <1>9 DEF Inv

LEMMA RotateKeeps ==
    ASSUME ExtensionConstants, Inv, NEW o \in Op, Rotate(o)
    PROVE  Inv'
<1>0. PICK i, y : i = op[o].id /\ y = lastKey + 1
    OBVIOUS
<1> DEFINE a == mem.v.acc[i]
           r == [op[o] EXCEPT !.key = y, !.from = a.cur]
           w == Rotated(a, y)
           v == [mem.v EXCEPT !.acc = [mem.v.acc EXCEPT ![i] = w]]
<1>1. /\ UNCHANGED <<disk, session, undo, chrome, sync, server, file, born, deeds, forgone, stray>>
      /\ lastKey' = y /\ lastKey < MaxKey /\ mem.open /\ i \in DOMAIN mem.v.acc
      /\ op[o].kind = "rotate" /\ op[o].stage = "asked"
      /\ unsure' = [unsure EXCEPT ![i] = @ \cup {y}]
    BY <1>0 DEF Rotate, Approvable, Active
<1>2. Saving(o, r, v)
    BY <1>0 DEF Rotate
<1>3. /\ mem.v \in Vault /\ mem.v.acc \in Accounts /\ disk.v.acc \in Accounts /\ lastKey \in Nat /\ y \in Kid
      /\ y > lastKey /\ a \in Account /\ i \in Id /\ i \in born /\ a.cur \in Kid /\ a.cur <= lastKey
      /\ (\A k \in Held(a) : k <= lastKey) /\ op[o] \in Handler /\ mem.key \in BOOLEAN
    <2>1. /\ mem.v \in Vault /\ mem.v.acc \in Accounts /\ disk.v.acc \in Accounts /\ lastKey \in Nat /\ y \in Kid
          /\ y > lastKey /\ op[o] \in Handler /\ mem.key \in BOOLEAN
        BY <1>0, <1>1, Shape DEF Inv, ShapeInv, Kid, ExtensionConstants, Memory
    <2>2. a \in Account /\ i \in Id
        BY <1>1, <2>1, AccountsAre
    <2>3. i \in born /\ \A k \in Held(a) : k <= lastKey
        BY <1>1 DEF Inv, BirthInv, Made
    <2> QED BY <2>1, <2>2, <2>3, HeldIs
<1>4. w \in Account /\ w.cur = y /\ Held(w) = Held(a) \cup {y}
    BY <1>3, RotatedIs
<1>5. r \in Handler /\ r.kind = "rotate" /\ r.id = i /\ r.key = y /\ r.from = a.cur
    <2>1. y \in 0 .. MaxKey /\ a.cur \in 0 .. MaxKey
        BY <1>3 DEF Kid
    <2> HIDE DEF a, v, w
    <2>2. op[o] \in Handler /\ op[o].kind = "rotate" /\ op[o].id = i
        BY <1>0, <1>1, <1>3
    <2> QED BY <2>1, <2>2 DEF Handler
<1>6. v \in Vault /\ i \in DOMAIN v.acc /\ v.acc[i] = w
    BY <1>1, <1>3, <1>4, ChangedAccount
<1> HIDE DEF r, w
<1>7. /\ mem' \in Memory /\ op' \in [Op -> Handler] /\ \A x \in Op : x # o => op'[x] = op[x]
      /\ mem.key => /\ op'[o].stage = "saving" /\ op'[o].snap = v /\ op'[o].kind = "rotate"
                    /\ op'[o].id = i /\ op'[o].key = y /\ op'[o].from = a.cur
      /\ ~ mem.key => op'[o].stage = "idle" /\ op'[o].kind = "none"
      /\ \A x \in Op : op[x].stage \notin InFlight
      /\ mem.key => mem.v.acc = disk.v.acc
    <2>1. Resting.stage = "idle" /\ Resting.kind = "none"
        BY Starts
    <2>2. ~ mem.key => op'[o] = Resting
        BY <1>2, <1>5, <1>6, SavingIs
    <2> HIDE DEF v
    <2> QED BY <1>2, <1>5, <1>6, <2>1, <2>2, SavingIs
<1> HIDE DEF a
<1>8. /\ unsure' \in [Id -> SUBSET Kid] /\ y \in unsure'[i]
      /\ \A j \in Id : unsure[j] \subseteq unsure'[j] /\ unsure'[j] \subseteq unsure[j] \cup {y}
    <2>1. unsure \in [Id -> SUBSET Kid]
        BY DEF Inv, ShapeInv
    <2> QED BY <1>1, <1>3, <2>1
<1>9. ShapeInv'
    <2>1. lastKey' \in 0 .. MaxKey
        BY <1>0, <1>1, <1>3 DEF ExtensionConstants
    <2> QED BY <1>1, <1>7, <1>8, <2>1 DEF Inv, ShapeInv, chrome
<1>10. \A x \in Op, j \in Id : Opened(x, j)' => /\ (x = o /\ j = i /\ mem.key) \/ (x # o /\ Opened(x, j))
                                                /\ Backable(x)' => x = o \/ Backable(x)
    BY <1>1, <1>7 DEF Opened, Backable
<1>11. \A j \in Id : /\ Book(j) \in Books /\ Book(j)' \in Books /\ Grows(Book(j), Book(j)')
                     /\ Book(j)'.open \subseteq Book(j).open \cup {y}
    <2> SUFFICES ASSUME NEW j \in Id
                 PROVE  /\ Book(j) \in Books /\ Book(j)' \in Books /\ Grows(Book(j), Book(j)')
                        /\ Book(j)'.open \subseteq Book(j).open \cup {y}
        OBVIOUS
    <2>1. Book(j) \in Books /\ Book(j)' \in Books
        BY <1>9, Shape, ShapeNext DEF Inv
    <2>2. \A k \in Book(j)'.open : k \in Book(j).open \/ k = y
        BY <1>7, <1>10, BookIs, BookNext
    <2>3. \A k \in Book(j)'.back : k \in Book(j).back \/ k = y
        BY <1>7, <1>10, BookIs, BookNext
    <2>4. \A k \in Book(j)'.sent : k \in Book(j).sent
        BY <1>7, <1>10, BookIs, BookNext
    <2>5. /\ Book(j)'.served = Book(j).served /\ Book(j).lost \subseteq Book(j)'.lost
          /\ Book(j).doubt \subseteq Book(j)'.doubt /\ (Book(j).stray => Book(j)'.stray)
          /\ Book(j).last = lastKey /\ Book(j)'.last = y /\ lastKey <= y
        BY <1>0, <1>1, <1>3, <1>8, BookIs, BookNext
    <2> QED BY <1>3, <2>1, <2>2, <2>3, <2>4, <2>5 DEF Grows
<1>12. ASSUME mem.key PROVE Sound(Book(i)', w)
    <2>1. Sound(Book(i), a)
        BY <1>1, <1>3, <1>7, <1>12 DEF Inv, CopiesInv, Entry, a
    <2>2. Kept(Book(i)) /\ Book(i).last = lastKey /\ Book(i)'.last = y /\ y \in Book(i)'.doubt
        BY <1>1, <1>3, <1>8, BookKept, BookIs, BookNext DEF Inv
    <2>3. y <= Book(i)'.last /\ y > Book(i).last
        BY <1>3, <2>2 DEF Kid
    <2> QED BY <1>3, <1>11, <2>1, <2>2, <2>3, RotatedSound DEF w
<1>13. TurnInv'
    <2>0. \A x \in Op : Turn(x)' => \/ x = o /\ mem.key
                                    \/ x # o /\ Turn(x) /\ op'[x] = op[x] /\ op[x].stage = "sent"
        BY <1>7 DEF Turn, InFlight
    <2>1. \A j \in Id : unsure'[j] \subseteq 1 .. lastKey'
        <3>1. \A j \in Id : unsure[j] \subseteq 1 .. lastKey
            BY DEF Inv, TurnInv
        <3>2. \A k \in 1 .. lastKey : k \in 1 .. y
            BY <1>3 DEF Kid
        <3>3. y \in 1 .. y
            BY <1>3 DEF Kid
        <3> QED BY <1>1, <1>8, <3>1, <3>2, <3>3
    <2>2. \A x \in Op : op'[x].stage = "sent" => op'[x].kind = "rotate" /\ op'[x] = op[x]
        BY <1>7 DEF Inv, TurnInv
    <2>3. \A x \in Op : Turn(x) => op[x].key \in Nat /\ op[x].key <= lastKey
        BY DEF Inv, TurnInv, ShapeInv, Handler
    <2>4. \A x \in Op : Turn(x)' => /\ op'[x].id \in born' /\ op'[x].from >= 1
                                    /\ op'[x].from < op'[x].key /\ op'[x].key <= lastKey'
        <3> SUFFICES ASSUME NEW x \in Op, Turn(x)'
                     PROVE  /\ op'[x].id \in born' /\ op'[x].from >= 1
                            /\ op'[x].from < op'[x].key /\ op'[x].key <= lastKey'
            OBVIOUS
        <3>1. CASE x = o
            <4>1. a.cur >= 1 /\ a.cur < y /\ y <= y
                BY <1>3 DEF Kid
            <4> QED BY <1>1, <1>3, <1>7, <2>0, <3>1, <4>1
        <3>2. CASE x # o
            <4>1. op[x].key <= y
                BY <1>3, <2>0, <2>3, <3>2 DEF Kid
            <4> QED BY <1>1, <2>0, <3>2, <4>1 DEF Inv, TurnInv
        <3> QED BY <3>1, <3>2
    <2>5. \A z, x \in Op : z # x /\ Turn(z)' /\ Turn(x)' =>
             op'[z].key # op'[x].key /\ (op'[z].stage = "saving" => op'[x].key < op'[z].key)
        <3> SUFFICES ASSUME NEW z \in Op, NEW x \in Op, z # x, Turn(z)', Turn(x)'
                     PROVE  op'[z].key # op'[x].key /\ (op'[z].stage = "saving" => op'[x].key < op'[z].key)
            OBVIOUS
        <3>1. CASE z = o
            <4>1. op'[x] = op[x] /\ op[x].key \in Nat /\ op[x].key <= lastKey /\ op'[z].key = y
                BY <1>7, <2>0, <2>3, <3>1
            <4> QED BY <1>3, <4>1 DEF Kid
        <3>2. CASE x = o
            <4>1. op'[z] = op[z] /\ op[z].key \in Nat /\ op[z].key <= lastKey /\ op'[x].key = y
                  /\ op'[z].stage = "sent"
                BY <1>7, <2>0, <2>3, <3>2
            <4> QED BY <1>3, <4>1 DEF Kid
        <3>3. CASE z # o /\ x # o
            BY <2>0, <3>3 DEF Inv, TurnInv
        <3> QED BY <3>1, <3>2, <3>3
    <2>6. undo'.key # 0 => \A x \in Op : op'[x].stage = "sent" => op'[x].key <= undo'.key
        BY <1>1, <2>2 DEF Inv, TurnInv
    <2>7. \A x \in Op : Turn(x)' /\ op'[x].kind = "rotate" /\ Backable(x)' => op'[x].key \in unsure'[op'[x].id]
        <3> SUFFICES ASSUME NEW x \in Op, Turn(x)', op'[x].kind = "rotate", Backable(x)'
                     PROVE  op'[x].key \in unsure'[op'[x].id]
            OBVIOUS
        <3>1. CASE x = o
            BY <1>7, <1>8, <2>0, <3>1
        <3>2. CASE x # o
            <4>1. op'[x] = op[x] /\ Turn(x) /\ Backable(x)
                BY <1>1, <2>0, <3>2 DEF Backable
            <4>2. op[x].id \in Id
                BY <4>1 DEF Inv, TurnInv, ShapeInv
            <4> QED BY <1>8, <4>1, <4>2 DEF Inv, TurnInv
        <3> QED BY <3>1, <3>2
    <2>8. ASSUME NEW x \in Op, Turn(x)', op'[x].stage = "saving", NEW j, j = op'[x].id,
                 NEW b, b = op'[x].snap.acc[j]
          PROVE  /\ j \in DOMAIN op'[x].snap.acc
                 /\ op'[x].kind = "rotate" => b.cur = op'[x].key
                 /\ op'[x].kind = "revert" => undo'.key = 0 /\ Undone(Book(j)', b, op'[x].key)
        <3>1. x = o /\ mem.key
            BY <2>0, <2>8
        <3>2. j = i /\ op'[x].snap = v /\ op'[x].kind = "rotate" /\ op'[x].key = y
            BY <1>7, <2>8, <3>1
        <3> QED BY <1>4, <1>6, <2>8, <3>2
    <2> QED BY <2>1, <2>2, <2>4, <2>5, <2>6, <2>7, <2>8 DEF TurnInv
<1>14. lastKey <= lastKey' /\ \A k \in Held(w) : k <= lastKey'
    BY <1>1, <1>3, <1>4, HeldIs DEF Kid
<1>15. Held(mem.v.acc[i]) \subseteq Held(w)
    BY <1>4 DEF a
<1>16. v = [mem.v EXCEPT !.acc = [mem.v.acc EXCEPT ![i] = w]]
    OBVIOUS
<1> HIDE DEF v
<1> QED BY <1>1, <1>2, <1>4, <1>5, <1>6, <1>9, <1>11, <1>12, <1>13, <1>14, <1>15, <1>16, TurnedAccount

LEMMA RevertKeeps ==
    ASSUME ExtensionConstants, Inv, NEW o \in Op, Revert(o)
    PROVE  Inv'
<1>0. PICK i, y : i = op[o].id /\ y = op[o].key
    OBVIOUS
<1> DEFINE a == mem.v.acc[i]
           r == [op[o] EXCEPT !.kind = "revert"]
           w == Reverted(a)
           v == [mem.v EXCEPT !.acc = [mem.v.acc EXCEPT ![i] = w]]
<1>1. /\ UNCHANGED <<disk, session, chrome, sync, server, file, lastKey, born, deeds, forgone, unsure, stray>>
      /\ mem.open /\ op[o].stage = "sent" /\ undo.key = y /\ undo' = NoUndo
    BY <1>0 DEF Revert, keys
<1>2. /\ op[o] \in Handler /\ mem.v \in Vault /\ mem.v.acc \in Accounts /\ disk.v.acc \in Accounts
      /\ lastKey \in Nat /\ deeds \in 0 .. MaxDeeds /\ host \subseteq Site /\ mem.key \in BOOLEAN
      /\ popup \in Toolbar /\ grant \in Site \cup {NoSite}
    BY Shape DEF Inv, ShapeInv, Memory
<1>3. CASE ~ (Active(mem.v) /\ mem.v.active = i /\ a.cur = y /\ a.old # <<>>)
    <2>1. op' = [op EXCEPT ![o] = Resting] /\ mem' = mem
        BY <1>0, <1>3 DEF Revert
    <2> QED BY <1>1, <1>2, <2>1, Starts, HandlerStep DEF chrome
<1>4. CASE Active(mem.v) /\ mem.v.active = i /\ a.cur = y /\ a.old # <<>>
    <2>1. Saving(o, r, v)
        BY <1>0, <1>4 DEF Revert
    <2>2. i \in DOMAIN mem.v.acc /\ a \in Account /\ i \in Id /\ a.cur = y /\ a.old # <<>>
        BY <1>2, <1>4, AccountsAre DEF Active
    <2>3. w \in Account /\ Held(w) = Held(a)
        BY <2>2, RevertedIs
    <2>4. v \in Vault /\ i \in DOMAIN v.acc /\ v.acc[i] = w
        BY <1>2, <2>2, <2>3, ChangedAccount
    <2>5. op[o].kind = "rotate" /\ Turn(o) /\ Opened(o, i) /\ Backable(o)
        BY <1>0, <1>1 DEF Inv, TurnInv, Turn, Opened, Backable
    <2>6. r \in Handler /\ r.kind = "revert" /\ r.id = i /\ r.key = y /\ r.from = op[o].from
        <3> HIDE DEF a, v, w
        <3> QED BY <1>0, <1>2, <2>5 DEF Handler
    <2> HIDE DEF r, w
    <2>7. /\ mem' \in Memory /\ op' \in [Op -> Handler] /\ \A x \in Op : x # o => op'[x] = op[x]
          /\ mem.key => /\ op'[o].stage = "saving" /\ op'[o].snap = v /\ op'[o].kind = "revert"
                        /\ op'[o].id = i /\ op'[o].key = y /\ op'[o].from = op[o].from
          /\ ~ mem.key => op'[o].stage = "idle" /\ op'[o].kind = "none"
          /\ \A x \in Op : op[x].stage \notin InFlight
          /\ mem.key => mem.v.acc = disk.v.acc
        <3>1. Resting.stage = "idle" /\ Resting.kind = "none"
            BY Starts
        <3>2. ~ mem.key => op'[o] = Resting
            BY <2>1, <2>4, <2>6, SavingIs
        <3> HIDE DEF v
        <3> QED BY <2>1, <2>4, <2>6, <3>1, <3>2, SavingIs
    <2> HIDE DEF a
    <2>8. ShapeInv'
        <3>1. undo' \in [site : Site \cup {NoSite}, key : 0 .. MaxKey]
            BY <1>1 DEF NoUndo, ExtensionConstants
        <3> QED BY <1>1, <2>7, <3>1 DEF Inv, ShapeInv, chrome
    <2>9. \A x \in Op : Turn(x) => /\ op[x].key \in Nat /\ op[x].key # 0 /\ op[x].stage = "sent"
                                   /\ op[x].kind = "rotate" /\ op[x].key <= y /\ (x # o => op[x].key < y)
        <3> SUFFICES ASSUME NEW x \in Op, Turn(x)
                     PROVE  /\ op[x].key \in Nat /\ op[x].key # 0 /\ op[x].stage = "sent"
                            /\ op[x].kind = "rotate" /\ op[x].key <= y /\ (x # o => op[x].key < y)
            OBVIOUS
        <3>1. op[x].key \in Nat /\ op[x].from \in Nat /\ y \in Nat /\ op[o].from \in Nat
            BY <1>0 DEF Inv, ShapeInv, Handler
        <3>2. op[x].stage = "sent" /\ op[x].kind = "rotate"
            BY <2>7 DEF Turn, InFlight, Inv, TurnInv
        <3>3. op[x].key # 0 /\ y # 0
            BY <1>0, <2>5, <3>1 DEF Inv, TurnInv
        <3>4. op[x].key <= y
            BY <1>1, <3>2, <3>3 DEF Inv, TurnInv
        <3>5. x # o => op[x].key # y
            BY <1>0, <2>5 DEF Inv, TurnInv
        <3> QED BY <3>1, <3>2, <3>3, <3>4, <3>5
    <2>10. \A x \in Op, j \in Id : Opened(x, j)' => x # o /\ Opened(x, j) /\ Turn(x) /\ op'[x] = op[x]
        BY <2>7 DEF Opened, Turn
    <2>11. \A x \in Op, j \in Id : Opened(x, j)' => ~ Backable(x)'
        BY <1>1, <2>9, <2>10 DEF Backable, NoUndo
    <2>12. \A j \in Id : /\ Book(j) \in Books /\ Book(j)' \in Books /\ Grows(Book(j), Book(j)')
                         /\ Book(j)'.back = {} /\ \A k \in Book(j)'.open : k \in Book(j).open /\ k < y
        <3> SUFFICES ASSUME NEW j \in Id
                     PROVE  /\ Book(j) \in Books /\ Book(j)' \in Books /\ Grows(Book(j), Book(j)')
                            /\ Book(j)'.back = {} /\ \A k \in Book(j)'.open : k \in Book(j).open /\ k < y
            OBVIOUS
        <3>1. Book(j) \in Books /\ Book(j)' \in Books
            BY <2>8, Shape, ShapeNext DEF Inv
        <3>2. \A k \in Book(j)'.open : k \in Book(j).open /\ k < y
            BY <2>9, <2>10, BookIs, BookNext
        <3>3. \A k : k \notin Book(j)'.back
            BY <2>11, BookNext
        <3>4. \A k \in Book(j)'.sent : k \in Book(j).sent
            BY <2>10, BookIs, BookNext
        <3>5. /\ Book(j)'.served = Book(j).served /\ Book(j).lost \subseteq Book(j)'.lost
              /\ Book(j).doubt \subseteq Book(j)'.doubt /\ (Book(j).stray => Book(j)'.stray)
              /\ Book(j).last <= Book(j)'.last
            BY <1>1, <1>2, BookIs, BookNext
        <3> QED BY <3>1, <3>2, <3>3, <3>4, <3>5 DEF Grows
    <2>13. ASSUME mem.key PROVE Sound(Book(i)', w) /\ Undone(Book(i)', w, y)
        <3>1. Sound(Book(i), a)
            BY <2>2, <2>7, <2>13 DEF Inv, CopiesInv, Entry, a
        <3>2. y \in Book(i).open /\ y \in Book(i).back
            BY <1>0, <2>5, BookIs
        <3>3. y \in Book(i).doubt
            BY <1>0, <2>5, BookIs DEF Inv, TurnInv
        <3> QED BY <2>2, <2>12, <3>1, <3>2, <3>3, RevertedSound DEF w
    <2>14. TurnInv'
        <3>0. \A x \in Op : Turn(x)' => \/ x = o /\ mem.key
                                        \/ x # o /\ Turn(x) /\ op'[x] = op[x]
            BY <2>7 DEF Turn
        <3>1. \A j \in Id : unsure'[j] \subseteq 1 .. lastKey'
            BY <1>1 DEF Inv, TurnInv
        <3>2. \A x \in Op : op'[x].stage = "sent" => op'[x].kind = "rotate"
            BY <2>7 DEF Inv, TurnInv
        <3>3. \A x \in Op : Turn(x)' => /\ op'[x].id \in born' /\ op'[x].from >= 1
                                        /\ op'[x].from < op'[x].key /\ op'[x].key <= lastKey'
            BY <1>0, <1>1, <2>5, <2>7, <3>0 DEF Inv, TurnInv
        <3>4. \A z, x \in Op : z # x /\ Turn(z)' /\ Turn(x)' =>
                 op'[z].key # op'[x].key /\ (op'[z].stage = "saving" => op'[x].key < op'[z].key)
            <4> SUFFICES ASSUME NEW z \in Op, NEW x \in Op, z # x, Turn(z)', Turn(x)'
                         PROVE  op'[z].key # op'[x].key /\ (op'[z].stage = "saving" => op'[x].key < op'[z].key)
                OBVIOUS
            <4>1. CASE z = o
                BY <1>0, <2>7, <2>9, <3>0, <4>1
            <4>2. CASE x = o
                BY <1>0, <2>7, <2>9, <3>0, <4>2
            <4>3. CASE z # o /\ x # o
                BY <3>0, <4>3 DEF Inv, TurnInv
            <4> QED BY <4>1, <4>2, <4>3
        <3>5. \A x \in Op : Turn(x)' /\ op'[x].kind = "rotate" => ~ Backable(x)'
            <4> SUFFICES ASSUME NEW x \in Op, Turn(x)', op'[x].kind = "rotate" PROVE ~ Backable(x)'
                OBVIOUS
            <4>1. x # o /\ Turn(x) /\ op'[x] = op[x]
                BY <2>7, <3>0
            <4> QED BY <1>1, <2>9, <4>1 DEF Backable, NoUndo
        <3>6. undo'.key = 0
            BY <1>1 DEF NoUndo
        <3>7. ASSUME NEW x \in Op, Turn(x)', op'[x].stage = "saving", NEW j, j = op'[x].id,
                     NEW b, b = op'[x].snap.acc[j]
              PROVE  /\ j \in DOMAIN op'[x].snap.acc
                     /\ op'[x].kind = "rotate" => b.cur = op'[x].key
                     /\ op'[x].kind = "revert" => undo'.key = 0 /\ Undone(Book(j)', b, op'[x].key)
            <4>1. x = o /\ mem.key
                <5>1. x # o => op'[x].stage = "sent"
                    BY <2>9, <3>0, <3>7
                <5> QED BY <3>0, <3>7, <5>1
            <4>2. j = i /\ op'[x].snap = v /\ op'[x].kind = "revert" /\ op'[x].key = y
                BY <2>7, <3>7, <4>1
            <4>3. b = w /\ i \in DOMAIN v.acc
                BY <2>4, <3>7, <4>2
            <4> QED BY <2>13, <3>6, <4>1, <4>2, <4>3
        <3> QED BY <3>1, <3>2, <3>3, <3>4, <3>5, <3>6, <3>7 DEF TurnInv
    <2>15. lastKey <= lastKey' /\ \A k \in Held(w) : k <= lastKey'
        <3>1. \A k \in Held(a) : k <= lastKey
            BY <2>2 DEF Inv, BirthInv, Made, a
        <3> QED BY <1>1, <1>2, <2>3, <3>1
    <2>16. Held(mem.v.acc[i]) \subseteq Held(w)
        BY <2>3 DEF a
    <2>17. v = [mem.v EXCEPT !.acc = [mem.v.acc EXCEPT ![i] = w]]
        OBVIOUS
    <2> HIDE DEF v
    <2> QED BY <1>1, <2>1, <2>2, <2>3, <2>4, <2>6, <2>8, <2>12, <2>13, <2>14, <2>15, <2>16, <2>17, TurnedAccount
<1> QED BY <1>3, <1>4

----------------------------------------------------------------------------
(* What the server takes *)

\* A handler that wrote nothing ends.
LEMMA Ended ==
    ASSUME ExtensionConstants, Inv, NEW o \in Op, op' = [op EXCEPT ![o] = Resting],
           op[o].stage \notin InFlight, UNCHANGED <<disk, mem, session, sync, host, scripts, forgone>>
    PROVE  /\ op' \in [Op -> Handler] /\ op'[o].stage = "idle" /\ op'[o].kind = "none" /\ op'[o].snap = Empty
           /\ \A x \in Op : x # o => op'[x] = op[x]
           /\ SessionInv' /\ FlightInv' /\ TrustInv'
<1>1. op' \in [Op -> Handler] /\ op'[o] = Resting /\ \A x \in Op : x # o => op'[x] = op[x]
    BY Starts, OneHandler DEF Inv
<1>2. /\ Resting.stage = "idle" /\ Resting.snap = Empty /\ Resting.kind = "none" /\ Tidy(Empty)
    BY Starts, Ground
<1>3. SessionInv'
    BY <1>1, <1>2 DEF Inv, SessionInv
<1>4. \A x \in Op : op'[x].stage \in InFlight \/ op[x].stage \in InFlight => op'[x] = op[x]
    BY <1>1, <1>2 DEF InFlight
<1>5. FlightInv'
    <2>1. \A x \in Op : op'[x].stage = "saving" <=> op[x].stage = "saving"
        BY <1>1, <1>2, <1>4 DEF InFlight
    <2> QED BY <1>4, <2>1 DEF Inv, FlightInv, InFlight, HeldIn
<1>6. TrustInv'
    <2>1. \A s : s \in Leaving => s \in Leaving'
        BY <1>4 DEF Leaving
    <2> QED BY <1>4, <2>1 DEF Inv, TrustInv
<1> QED BY <1>1, <1>2, <1>3, <1>5, <1>6

LEMMA PublishKeeps ==
    ASSUME ExtensionConstants, Inv, NEW o \in Op, Publish(o)
    PROVE  Inv'
<1>0. PICK i, y : i = op[o].id /\ y = op[o].key
    OBVIOUS
<1>1. /\ UNCHANGED <<disk, mem, session, undo, chrome, sync, file, lastKey, born, deeds, forgone, stray>>
      /\ op[o].stage = "sent" /\ server[i] = op[o].from /\ op' = [op EXCEPT ![o] = Resting]
      /\ server' = [server EXCEPT ![i] = y]
      /\ unsure' = [unsure EXCEPT ![i] = @ \ Upto(i, y)] \/ unsure' = unsure
    BY <1>0 DEF Publish
<1>2. /\ op' \in [Op -> Handler] /\ op'[o].stage = "idle" /\ op'[o].kind = "none" /\ op'[o].snap = Empty
      /\ \A x \in Op : x # o => op'[x] = op[x]
      /\ SessionInv' /\ FlightInv' /\ TrustInv'
    BY <1>1, Ended DEF InFlight, chrome
<1>3. /\ Turn(o) /\ Opened(o, i) /\ i \in Id /\ i \in born /\ y \in 1 .. lastKey /\ y \in Kid
      /\ op[o].from \in Nat /\ op[o].from < y /\ lastKey \in Nat
    <2>1. Turn(o) /\ Opened(o, i)
        BY <1>0, <1>1 DEF Inv, TurnInv, Turn, Opened
    <2>2. op[o].from \in Nat /\ y \in Nat /\ lastKey \in 0 .. MaxKey /\ born \subseteq Id
        BY <1>0 DEF Inv, ShapeInv, Handler
    <2>3. i \in born /\ op[o].from < y /\ y <= lastKey
        BY <1>0, <2>1 DEF Inv, TurnInv
    <2> QED BY <2>1, <2>2, <2>3 DEF Kid, ExtensionConstants
<1>4. /\ server' \in [Id -> 0 .. MaxKey] /\ server'[i] = y /\ \A j \in Id : j # i => server'[j] = server[j]
    BY <1>1, <1>3 DEF Inv, ShapeInv, Kid
<1>5. /\ unsure' \in [Id -> SUBSET Kid] /\ (\A j \in Id : j # i => unsure'[j] = unsure[j])
      /\ unsure'[i] \subseteq unsure[i] /\ \A k \in unsure[i] : k \in unsure'[i] \/ k <= y
    <2>1. unsure \in [Id -> SUBSET Kid]
        BY DEF Inv, ShapeInv
    <2>2. \A k \in Upto(i, y) : k <= y
        BY DEF Upto
    <2> QED BY <1>1, <1>3, <2>1, <2>2
<1>6. ShapeInv'
    BY <1>1, <1>2, <1>4, <1>5 DEF Inv, ShapeInv, chrome
<1>7. BirthInv'
    <2>1. \A x \in Op : DOMAIN op'[x].snap.acc \subseteq born'
        BY <1>1, <1>2, Ground DEF Inv, BirthInv
    <2>2. Made(file)' /\ Made(mem.v.acc)' /\ DOMAIN disk'.v.acc \subseteq born'
        BY <1>1 DEF Inv, BirthInv, Made
    <2>3. \A j \in Id \ born' : server'[j] = 0
        BY <1>1, <1>3, <1>4 DEF Inv, BirthInv
    <2> QED BY <2>1, <2>2, <2>3 DEF BirthInv
<1>8. \A x \in Op, j \in Id : Opened(x, j)' => /\ x # o /\ Opened(x, j) /\ op'[x] = op[x] /\ (Backable(x)' => Backable(x))
    BY <1>1, <1>2 DEF Opened, Backable
<1>9. \A j \in Id : /\ Book(j) \in Books /\ Book(j)' \in Books
                    /\ Book(j)'.sent \subseteq Book(j).sent /\ Book(j)'.open \subseteq Book(j).open
                    /\ Book(j)'.back \subseteq Book(j).back
                    /\ j # i => Grows(Book(j), Book(j)')
    <2> SUFFICES ASSUME NEW j \in Id
                 PROVE  /\ Book(j) \in Books /\ Book(j)' \in Books
                        /\ Book(j)'.sent \subseteq Book(j).sent /\ Book(j)'.open \subseteq Book(j).open
                        /\ Book(j)'.back \subseteq Book(j).back
                        /\ j # i => Grows(Book(j), Book(j)')
        OBVIOUS
    <2>1. Book(j) \in Books /\ Book(j)' \in Books
        BY <1>6, Shape, ShapeNext DEF Inv
    <2>2. \A k \in Book(j)'.open : k \in Book(j).open
        BY <1>8, BookIs, BookNext
    <2>3. \A k \in Book(j)'.back : k \in Book(j).back
        BY <1>8, BookIs, BookNext
    <2>4. \A k \in Book(j)'.sent : k \in Book(j).sent
        BY <1>8, BookIs, BookNext
    <2>5. j # i => /\ Book(j)'.served = Book(j).served /\ Book(j).lost \subseteq Book(j)'.lost
                   /\ Book(j).doubt \subseteq Book(j)'.doubt /\ (Book(j).stray => Book(j)'.stray)
                   /\ Book(j).last <= Book(j)'.last
        BY <1>1, <1>3, <1>4, <1>5, BookIs, BookNext
    <2> QED BY <2>1, <2>2, <2>3, <2>4, <2>5 DEF Grows
<1>10. ASSUME NEW a \in Account, Sound(Book(i), a)
       PROVE  Sound(Book(i)', a) /\ \A r : Undone(Book(i), a, r) => Undone(Book(i)', a, r)
    <2>1. y \in Book(i).sent /\ y \in Book(i).open
        BY <1>0, <1>1, <1>3, BookIs
    <2>2. Book(i).served < y /\ Book(i)'.served = y
        BY <1>1, <1>3, <1>4, BookIs, BookNext
    <2>3. /\ Book(i)'.lost = Book(i).lost /\ Book(i)'.stray = Book(i).stray /\ Book(i)'.last = Book(i).last
          /\ \A k \in Book(i).doubt : k \in Book(i)'.doubt \/ k <= y
        BY <1>1, <1>5, BookIs, BookNext
    <2> QED BY <1>3, <1>9, <1>10, <2>1, <2>2, <2>3, PublishedSound
<1>11. ASSUME NEW j \in Id, Absent(j) PROVE Absent(j)'
    <2>1. \A held : Backed(Book(j), held) => Backed(Book(j)', held)
        <3>1. CASE j = i
            <4>1. y \in forgone[i]
                BY <1>0, <1>1, <1>3, <1>11, <3>1, BookIs DEF Absent
            <4>2. Book(i)'.served = y /\ Book(i)'.lost = forgone[i]
                BY <1>1, <1>4, BookNext
            <4> QED BY <3>1, <4>1, <4>2 DEF Backed
        <3>2. CASE j # i
            BY <1>9, <3>2, GrowsBacked
        <3> QED BY <3>1, <3>2
    <2>2. Book(j)'.sent \subseteq forgone'[j]
        BY <1>1, <1>9, <1>11 DEF Absent
    <2> QED BY <1>1, <1>11, <2>1, <2>2 DEF Absent, Keyless
<1>12. ASSUME NEW j \in Id, NEW acc \in Accounts, Entry(j, acc)
       PROVE  /\ IF j \in DOMAIN acc THEN Sound(Book(j)', acc[j]) ELSE Absent(j)'
              /\ j \in DOMAIN acc => \A r : Undone(Book(j), acc[j], r) => Undone(Book(j)', acc[j], r)
    <2>1. j \in DOMAIN acc => acc[j] \in Account
        BY AccountsAre
    <2>2. CASE j \in DOMAIN acc /\ j = i
        BY <1>10, <1>12, <2>1, <2>2 DEF Entry
    <2>3. CASE j \in DOMAIN acc /\ j # i
        BY <1>9, <1>12, <2>1, <2>3, GrowsSound, UndoneGrows DEF Entry
    <2>4. CASE j \notin DOMAIN acc
        BY <1>11, <1>12, <2>4 DEF Entry
    <2> QED BY <2>2, <2>3, <2>4
<1>13. disk.v.acc \in Accounts /\ \A x \in Op : op[x].snap.acc \in Accounts
    BY Shape DEF Inv
<1>14. \A x \in Op : op'[x].stage \in {"saving", "sent"} => x # o /\ op'[x] = op[x]
    BY <1>2
<1>15. CopiesInv'
    <2>1. \A j \in Id : Entry(j, disk.v.acc)'
        BY <1>1, <1>12, <1>13 DEF Inv, CopiesInv, Entry
    <2>2. ASSUME NEW x \in Op, op'[x].stage = "saving", NEW j \in Id PROVE Entry(j, op[x].snap.acc)'
        <3>1. Entry(j, op[x].snap.acc) /\ op'[x] = op[x]
            BY <1>14, <2>2 DEF Inv, CopiesInv
        <3> QED BY <1>12, <1>13, <3>1 DEF Entry
    <2> QED BY <2>1, <2>2 DEF CopiesInv
<1>16. TurnInv'
    <2>0. \A x \in Op : Turn(x)' => x # o /\ Turn(x) /\ op'[x] = op[x] /\ (Backable(x)' => Backable(x))
        BY <1>1, <1>14 DEF Turn, Backable
    <2>1. \A j \in Id : unsure'[j] \subseteq 1 .. lastKey'
        BY <1>1, <1>5 DEF Inv, TurnInv
    <2>2. \A x \in Op : op'[x].stage = "sent" => op'[x].kind = "rotate" /\ op'[x] = op[x]
        BY <1>14 DEF Inv, TurnInv
    <2>3. \A x \in Op : Turn(x)' => /\ op'[x].id \in born' /\ op'[x].from >= 1
                                    /\ op'[x].from < op'[x].key /\ op'[x].key <= lastKey'
        BY <1>1, <2>0 DEF Inv, TurnInv
    <2>4. \A z, x \in Op : z # x /\ Turn(z)' /\ Turn(x)' =>
             op'[z].key # op'[x].key /\ (op'[z].stage = "saving" => op'[x].key < op'[z].key)
        BY <2>0 DEF Inv, TurnInv
    <2>5. undo'.key # 0 => \A x \in Op : op'[x].stage = "sent" => op'[x].key <= undo'.key
        BY <1>1, <2>2 DEF Inv, TurnInv
    <2>6. ASSUME NEW x \in Op, Turn(x)', op'[x].kind = "rotate", Backable(x)' PROVE op'[x].key \in unsure'[op'[x].id]
        <3>1. x # o /\ Turn(x) /\ op'[x] = op[x] /\ Backable(x) /\ op[x].key \in unsure[op[x].id]
            BY <2>0, <2>6 DEF Inv, TurnInv
        <3>2. op[x].key \in Nat /\ op[x].key # y /\ y \in Nat
            BY <1>0, <1>3, <3>1 DEF Inv, TurnInv, ShapeInv, Handler
        <3>3. CASE op[x].stage = "saving"
            <4>1. y < op[x].key
                BY <1>0, <1>3, <3>1, <3>3 DEF Inv, TurnInv
            <4>2. ~ (op[x].key <= y)
                BY <3>2, <4>1
            <4> QED BY <1>5, <3>1, <4>2 DEF Inv, TurnInv, ShapeInv
        <3>4. CASE op[x].stage # "saving"
            <4>1. undo.key = op[x].key /\ op[x].key # 0
                BY <3>1, <3>4 DEF Backable, Inv, TurnInv, ShapeInv, Handler
            <4>2. y <= op[x].key
                BY <1>0, <1>1, <4>1 DEF Inv, TurnInv
            <4>3. ~ (op[x].key <= y)
                BY <3>2, <4>2
            <4> QED BY <1>5, <3>1, <4>3 DEF Inv, TurnInv, ShapeInv
        <3> QED BY <3>3, <3>4
    <2>7. ASSUME NEW x \in Op, Turn(x)', op'[x].stage = "saving", NEW j, j = op'[x].id,
                 NEW b, b = op'[x].snap.acc[j]
          PROVE  /\ j \in DOMAIN op'[x].snap.acc
                 /\ op'[x].kind = "rotate" => b.cur = op'[x].key
                 /\ op'[x].kind = "revert" => undo'.key = 0 /\ Undone(Book(j)', b, op'[x].key)
        <3>1. Turn(x) /\ op'[x] = op[x] /\ op[x].stage = "saving" /\ j \in Id /\ j = op[x].id
            BY <2>0, <2>7 DEF Inv, TurnInv, ShapeInv
        <3>2. /\ j \in DOMAIN op[x].snap.acc /\ (op[x].kind = "rotate" => b.cur = op[x].key)
              /\ op[x].kind = "revert" => undo.key = 0 /\ Undone(Book(j), b, op[x].key)
            BY <2>7, <3>1 DEF Inv, TurnInv
        <3>3. Entry(j, op[x].snap.acc)
            BY <3>1 DEF Inv, CopiesInv
        <3>4. Undone(Book(j), b, op[x].key) => Undone(Book(j)', b, op[x].key)
            BY <1>12, <1>13, <2>7, <3>1, <3>2, <3>3
        <3> QED BY <1>1, <3>1, <3>2, <3>4
    <2> QED BY <2>1, <2>2, <2>3, <2>4, <2>5, <2>6, <2>7 DEF TurnInv
<1> QED BY <1>2, <1>6, <1>7, <1>15, <1>16 DEF Inv

LEMMA LoginKeeps ==
    ASSUME ExtensionConstants, Inv, NEW o \in Op, Login(o)
    PROVE  Inv'
<1>0. PICK i, y : i = op[o].id /\ y = op[o].key
    OBVIOUS
<1>1. /\ UNCHANGED <<disk, mem, session, undo, chrome, sync, file, lastKey, born, deeds, forgone>>
      /\ op[o].stage = "asked" /\ op[o].kind = "login" /\ op' = [op EXCEPT ![o] = Resting]
      /\ SaveFree /\ mem.open /\ i \in DOMAIN mem.v.acc /\ mem.v.acc[i].cur = y
      /\ server' = [server EXCEPT ![i] = y]
      /\ unsure' = [unsure EXCEPT ![i] = @ \ (Upto(i, y) \ {op[x].key : x \in {z \in Op : op[z].stage = "sent"}})]
      /\ stray' = IF mem.key THEN stray ELSE stray \cup {i}
    BY <1>0 DEF Login, Approvable, Active
<1>2. /\ op' \in [Op -> Handler] /\ op'[o].stage = "idle" /\ op'[o].kind = "none" /\ op'[o].snap = Empty
      /\ \A x \in Op : x # o => op'[x] = op[x]
      /\ SessionInv' /\ FlightInv' /\ TrustInv'
    BY <1>1, Ended DEF InFlight, chrome
<1>3. /\ disk.v.acc \in Accounts /\ mem.v.acc[i] \in Account /\ i \in Id /\ i \in born /\ y \in Kid
      /\ mem.key \in BOOLEAN
    <2>1. disk.v.acc \in Accounts /\ mem.v.acc \in Accounts /\ mem.key \in BOOLEAN
        BY Shape DEF Inv, ShapeInv, Memory
    <2>2. mem.v.acc[i] \in Account /\ i \in Id
        BY <1>1, <2>1, AccountsAre
    <2>3. i \in born
        BY <1>1 DEF Inv, BirthInv, Made
    <2> QED BY <1>1, <2>1, <2>2, <2>3, HeldIs
<1>4. /\ server' \in [Id -> 0 .. MaxKey] /\ server'[i] = y /\ \A j \in Id : j # i => server'[j] = server[j]
    BY <1>1, <1>3 DEF Inv, ShapeInv, Kid
<1>5. /\ unsure' \in [Id -> SUBSET Kid] /\ (\A j \in Id : unsure'[j] \subseteq unsure[j])
      /\ (\A j \in Id : j # i => unsure'[j] = unsure[j])
      /\ \A x \in Op : \A j \in Id : op[x].stage = "sent" /\ op[x].key \in unsure[j] => op[x].key \in unsure'[j]
    <2>1. unsure \in [Id -> SUBSET Kid]
        BY DEF Inv, ShapeInv
    <2> QED BY <1>1, <1>3, <2>1
<1>6. /\ stray' \subseteq Id /\ stray \subseteq stray' /\ (\A j \in Id : j # i => (j \in stray' <=> j \in stray))
      /\ ~ mem.key => i \in stray'
    BY <1>1, <1>3 DEF Inv, ShapeInv
<1>7. ShapeInv'
    BY <1>1, <1>2, <1>4, <1>5, <1>6 DEF Inv, ShapeInv, chrome
<1>8. BirthInv'
    <2>1. \A x \in Op : DOMAIN op'[x].snap.acc \subseteq born'
        BY <1>1, <1>2, Ground DEF Inv, BirthInv
    <2>2. Made(file)' /\ Made(mem.v.acc)' /\ DOMAIN disk'.v.acc \subseteq born'
        BY <1>1 DEF Inv, BirthInv, Made
    <2>3. \A j \in Id \ born' : server'[j] = 0
        BY <1>1, <1>3, <1>4 DEF Inv, BirthInv
    <2> QED BY <2>1, <2>2, <2>3 DEF BirthInv
<1>9. \A x \in Op : op[x].stage \notin InFlight
    BY <1>1 DEF SaveFree, InFlight
<1>10. \A x \in Op : op'[x].stage \in {"saving", "sent"} => x # o /\ op'[x] = op[x] /\ op[x].stage = "sent"
    BY <1>2, <1>9 DEF InFlight
<1>11. \A x \in Op, j \in Id : /\ Opened(x, j)' <=> Opened(x, j)
                               /\ Opened(x, j) => op'[x] = op[x] /\ (Backable(x)' <=> Backable(x))
    BY <1>1, <1>2 DEF Opened, Backable
<1>12. \A j \in Id : /\ Book(j) \in Books /\ Book(j)' \in Books
                     /\ Book(j)'.sent = Book(j).sent /\ Book(j)'.open = Book(j).open
                     /\ Book(j)'.lost = Book(j).lost /\ Book(j)'.last = Book(j).last
                     /\ j # i => Grows(Book(j), Book(j)')
    <2> SUFFICES ASSUME NEW j \in Id
                 PROVE  /\ Book(j) \in Books /\ Book(j)' \in Books
                        /\ Book(j)'.sent = Book(j).sent /\ Book(j)'.open = Book(j).open
                        /\ Book(j)'.lost = Book(j).lost /\ Book(j)'.last = Book(j).last
                        /\ j # i => Grows(Book(j), Book(j)')
        OBVIOUS
    <2>1. Book(j) \in Books /\ Book(j)' \in Books
        BY <1>7, Shape, ShapeNext DEF Inv
    <2>2. \A k : k \in Book(j)'.open <=> k \in Book(j).open
        BY <1>11, BookIs, BookNext
    <2>3. \A k : k \in Book(j)'.back <=> k \in Book(j).back
        BY <1>11, BookIs, BookNext
    <2>4. \A k : k \in Book(j)'.sent <=> k \in Book(j).sent
        BY <1>11, BookIs, BookNext
    <2>5. Book(j)'.lost = Book(j).lost /\ Book(j)'.last = Book(j).last /\ Book(j).last <= Book(j)'.last
        <3>0. forgone' = forgone /\ lastKey' = lastKey
            BY <1>1
        <3>1. Book(j)'.lost = Book(j).lost /\ Book(j)'.last = Book(j).last
            <4>1. /\ Book(j)'.lost = forgone'[j] /\ Book(j).lost = forgone[j]
                  /\ Book(j)'.last = lastKey' /\ Book(j).last = lastKey
                BY BookIs, BookNext
            <4> QED BY <3>0, <4>1
        <3>2. Book(j).last \in Nat
            BY <2>1 DEF Books
        <3> QED BY <3>1, <3>2
    <2>6. j # i => /\ Book(j)'.served = Book(j).served
                   /\ Book(j).doubt \subseteq Book(j)'.doubt /\ (Book(j).stray => Book(j)'.stray)
        BY <1>4, <1>5, <1>6, BookIs, BookNext
    <2>7. Book(j)'.sent = Book(j).sent /\ Book(j)'.open = Book(j).open
        BY <2>1, <2>2, <2>4 DEF Books
    <2> QED BY <2>1, <2>2, <2>3, <2>5, <2>6, <2>7 DEF Grows
<1>13. mem.key => mem.v.acc = disk.v.acc
    BY <1>9 DEF Inv, FlightInv, InFlight
<1>14. Book(i)'.served = y /\ (~ mem.key => Book(i)'.stray)
    BY <1>4, <1>6, BookNext
<1>15. ASSUME NEW j \in Id, Absent(j), mem.key => j # i PROVE Absent(j)'
    <2>1. \A held : Backed(Book(j), held) => Backed(Book(j)', held)
        <3>1. CASE j = i
            BY <1>14, <1>15, <3>1 DEF Backed
        <3>2. CASE j # i
            BY <1>12, <3>2, GrowsBacked
        <3> QED BY <3>1, <3>2
    <2>2. Book(j)'.sent \subseteq forgone'[j]
        BY <1>1, <1>12, <1>15 DEF Absent
    <2> QED BY <1>1, <1>15, <2>1, <2>2 DEF Absent, Keyless
<1>16. ASSUME NEW j \in Id
       PROVE  IF j \in DOMAIN disk.v.acc THEN Sound(Book(j)', disk.v.acc[j]) ELSE Absent(j)'
    <2>1. Entry(j, disk.v.acc)
        BY DEF Inv, CopiesInv
    <2>2. CASE j \notin DOMAIN disk.v.acc
        BY <1>1, <1>13, <1>15, <2>1, <2>2 DEF Entry
    <2>3. CASE j \in DOMAIN disk.v.acc
        <3>1. disk.v.acc[j] \in Account /\ Sound(Book(j), disk.v.acc[j])
            BY <1>3, <2>1, <2>3, AccountsAre DEF Entry
        <3>2. CASE j # i
            BY <1>12, <2>3, <3>1, <3>2, GrowsSound
        <3>3. CASE j = i /\ mem.key
            BY <1>1, <1>12, <1>13, <1>14, <2>3, <3>1, <3>3, LoggedInSound
        <3>4. CASE j = i /\ ~ mem.key
            BY <1>12, <1>14, <2>3, <3>1, <3>4, StraySound
        <3> QED BY <3>2, <3>3, <3>4
    <2> QED BY <2>2, <2>3
<1>17. CopiesInv'
    <2>1. \A j \in Id : Entry(j, disk.v.acc)'
        BY <1>1, <1>16 DEF Entry
    <2> QED BY <1>10, <2>1 DEF CopiesInv
<1>18. TurnInv'
    <2>0. \A x \in Op : Turn(x)' => /\ Turn(x) /\ op'[x] = op[x] /\ (Backable(x)' => Backable(x))
                                    /\ op[x].stage = "sent"
        BY <1>1, <1>10 DEF Turn, Backable
    <2>1. \A j \in Id : unsure'[j] \subseteq 1 .. lastKey'
        BY <1>1, <1>5 DEF Inv, TurnInv
    <2>2. \A x \in Op : op'[x].stage = "sent" => op'[x].kind = "rotate" /\ op'[x] = op[x]
        BY <1>10 DEF Inv, TurnInv
    <2>3. \A x \in Op : Turn(x)' => /\ op'[x].id \in born' /\ op'[x].from >= 1
                                    /\ op'[x].from < op'[x].key /\ op'[x].key <= lastKey'
        BY <1>1, <2>0 DEF Inv, TurnInv
    <2>4. \A z, x \in Op : z # x /\ Turn(z)' /\ Turn(x)' =>
             op'[z].key # op'[x].key /\ (op'[z].stage = "saving" => op'[x].key < op'[z].key)
        BY <2>0 DEF Inv, TurnInv
    <2>5. undo'.key # 0 => \A x \in Op : op'[x].stage = "sent" => op'[x].key <= undo'.key
        BY <1>1, <2>2 DEF Inv, TurnInv
    <2>6. ASSUME NEW x \in Op, Turn(x)', op'[x].kind = "rotate", Backable(x)' PROVE op'[x].key \in unsure'[op'[x].id]
        <3>1. op'[x] = op[x] /\ op[x].stage = "sent" /\ op[x].id \in Id /\ op[x].key \in unsure[op[x].id]
            BY <2>0, <2>6 DEF Inv, TurnInv, ShapeInv
        <3> QED BY <1>5, <3>1
    <2>7. \A x \in Op : Turn(x)' => op'[x].stage # "saving"
        BY <2>0
    <2> QED BY <2>1, <2>2, <2>3, <2>4, <2>5, <2>6, <2>7 DEF TurnInv
<1> QED BY <1>2, <1>7, <1>8, <1>17, <1>18 DEF Inv

----------------------------------------------------------------------------
(* What reaches the disk, and the scripts after it *)

\* A copy on disk, or the rotation it carries handed to its page.
LEMMA LandedSound ==
    ASSUME NEW b \in Books, NEW c \in Books, NEW a \in Account, Sound(b, a),
           c.served = b.served, c.lost = b.lost, c.doubt = b.doubt, c.stray = b.stray, c.last = b.last,
           c.sent \subseteq b.sent \cup {a.cur}, c.open \subseteq b.open, c.back \subseteq b.back
    PROVE  Sound(c, a)
<1>1. a.cur \in Held(a)
    BY HeldIs
<1> QED BY <1>1 DEF Sound, Backed, Ahead, Younger, Settled, Unsettled, Undoable, Returns, Off

\* What every save that lands leaves.
LEMMA LandedWorld ==
    ASSUME ExtensionConstants, Inv, NEW o \in Op, Land(o)
    PROVE  /\ ShapeInv' /\ SessionInv' /\ FlightInv' /\ BirthInv' /\ TrustInv'
           /\ \A x \in Op : x # o => op'[x] = op[x] /\ op[x].stage \notin InFlight
           /\ op[o].kind = "rotate" => /\ op'[o].stage = "sent" /\ op'[o].kind = "rotate"
                                       /\ op'[o].id = op[o].id /\ op'[o].key = op[o].key
                                       /\ op'[o].from = op[o].from
           /\ op[o].kind # "rotate" => op'[o].stage \in {"after", "idle"}
<1> DEFINE r == op[o]
           p == IF r.kind = "rotate" THEN [r EXCEPT !.stage = "sent", !.snap = Empty]
                ELSE IF r.kind \in {"add", "remove"} THEN [r EXCEPT !.stage = "after", !.snap = Empty]
                ELSE Resting
<1>1. /\ r.stage = "saving" /\ disk' = [made |-> TRUE, v |-> r.snap] /\ op' = [op EXCEPT ![o] = p]
      /\ undo' = IF r.kind = "rotate" THEN [site |-> r.site, key |-> r.key] ELSE undo
      /\ unsure' = IF r.kind = "revert" /\ r.key \notin forgone[r.id] \cup {server[r.id]}
                   THEN [unsure EXCEPT ![r.id] = @ \ {r.key}] ELSE unsure
      /\ UNCHANGED <<mem, session, chrome, sync, server, file, lastKey, born, deeds, forgone, stray>>
    BY DEF Land
<1>2. /\ r \in Handler /\ r.snap \in Vault /\ Empty \in Vault /\ Resting \in Handler /\ Tidy(Empty)
      /\ DOMAIN Empty.acc = {} /\ Resting.stage = "idle" /\ Resting.kind = "none" /\ Resting.snap = Empty
    BY Shape, Ground, Starts DEF Inv
<1>3. /\ p \in Handler /\ p.snap = Empty
      /\ r.kind = "rotate" => /\ p.stage = "sent" /\ p.kind = "rotate" /\ p.id = r.id
                              /\ p.key = r.key /\ p.from = r.from
      /\ r.kind # "rotate" => p.stage \in {"after", "idle"}
      /\ r.kind \in {"add", "remove"} => p.stage = "after" /\ p.kind = r.kind /\ p.site = r.site
      /\ r.kind \notin {"rotate", "add", "remove"} => p = Resting
    <2> HIDE DEF r
    <2>1. CASE r.kind = "rotate"
        BY <1>2, <2>1 DEF Handler
    <2>2. CASE r.kind \in {"add", "remove"}
        BY <1>2, <2>2 DEF Handler
    <2>3. CASE r.kind \notin {"rotate", "add", "remove"}
        BY <1>2, <2>3
    <2> QED BY <2>1, <2>2, <2>3
<1> HIDE DEF p
<1>4. op' \in [Op -> Handler] /\ op'[o] = p /\ \A x \in Op : x # o => op'[x] = op[x]
    BY <1>1, <1>3, OneHandler DEF Inv
<1>5. \A x \in Op : x # o => op[x].stage \notin InFlight
    BY <1>1 DEF Inv, FlightInv, InFlight
<1>6. ShapeInv'
    <2>1. disk' \in [made : BOOLEAN, v : Vault]
        BY <1>1, <1>2
    <2>2. undo' \in [site : Site \cup {NoSite}, key : 0 .. MaxKey]
        <3>1. r.site \in Site \cup {NoSite} /\ r.key \in 0 .. MaxKey
            BY <1>2 DEF Handler
        <3> HIDE DEF r
        <3> QED BY <1>1, <3>1 DEF Inv, ShapeInv
    <2>3. unsure' \in [Id -> SUBSET Kid]
        <3>1. unsure \in [Id -> SUBSET Kid]
            BY DEF Inv, ShapeInv
        <3> HIDE DEF r
        <3> QED BY <1>1, <3>1
    <2> HIDE DEF r
    <2> QED BY <1>1, <1>4, <2>1, <2>2, <2>3 DEF Inv, ShapeInv, chrome
<1>7. disk'.made /\ disk'.v = r.snap
    BY <1>1
<1>8. SessionInv'
    <2>1. Tidy(r.snap) /\ (r.kind = "connect" => r.site \in Site)
        BY DEF Inv, SessionInv
    <2>2. \A x \in Op : Tidy(op'[x].snap)
        BY <1>2, <1>3, <1>4 DEF Inv, SessionInv
    <2>3. \A x \in Op : op'[x].kind = "connect" => op'[x].site \in Site
        <3>1. p.kind # "connect"
            BY <1>2, <1>3
        <3> QED BY <1>4, <3>1 DEF Inv, SessionInv
    <2> QED BY <1>1, <1>7, <2>1, <2>2, <2>3 DEF Inv, SessionInv
<1>9. FlightInv'
    <2>1. \A x \in Op : op'[x].stage # "saving" /\ (op'[x].stage \in InFlight => x = o)
        BY <1>2, <1>3, <1>4, <1>5 DEF InFlight
    <2>2. sync'.stage # "saving"
        BY <1>1 DEF Inv, FlightInv, InFlight
    <2>3. mem'.key => mem'.v.acc = disk'.v.acc
        BY <1>1, <1>7 DEF Inv, FlightInv
    <2> QED BY <2>1, <2>2, <2>3 DEF FlightInv
<1>10. BirthInv'
    <2>1. \A x \in Op : DOMAIN op'[x].snap.acc \subseteq born'
        BY <1>1, <1>2, <1>3, <1>4 DEF Inv, BirthInv
    <2>2. Made(file)' /\ Made(mem.v.acc)'
        BY <1>1 DEF Inv, BirthInv, Made
    <2>3. DOMAIN disk'.v.acc \subseteq born' /\ \A j \in Id \ born' : server'[j] = 0
        BY <1>1, <1>7 DEF Inv, BirthInv
    <2> QED BY <2>1, <2>2, <2>3 DEF BirthInv
<1>11. TrustInv'
    <2>1. \A s : s \in Leaving => s \in Leaving'
        <3> SUFFICES ASSUME NEW x \in Op, op[x].kind = "remove", op[x].stage \in InFlight
                     PROVE  op[x].site \in Leaving'
            BY DEF Leaving
        <3>1. x = o
            BY <1>5
        <3>2. op'[o].kind = "remove" /\ op'[o].stage \in InFlight /\ op'[o].site = op[x].site
            BY <1>3, <1>4, <3>1 DEF InFlight
        <3> QED BY <3>2 DEF Leaving
    <2>2. \A x \in Op : op'[x].kind = "add" /\ op'[x].stage \in InFlight =>
             op[x].kind = "add" /\ op[x].stage \in InFlight /\ op'[x].site = op[x].site
        BY <1>1, <1>2, <1>3, <1>4 DEF InFlight
    <2> QED BY <1>1, <2>1, <2>2 DEF Inv, TrustInv, chrome
<1> QED BY <1>3, <1>4, <1>5, <1>6, <1>8, <1>9, <1>10, <1>11

LEMMA LandKeeps ==
    ASSUME ExtensionConstants, Inv, NEW o \in Op, Land(o)
    PROVE  Inv'
<1>0. PICK i, y : i = op[o].id /\ y = op[o].key
    OBVIOUS
<1>1. /\ op[o].stage = "saving" /\ disk'.v = op[o].snap
      /\ undo' = IF op[o].kind = "rotate" THEN [site |-> op[o].site, key |-> y] ELSE undo
      /\ unsure' = IF op[o].kind = "revert" /\ y \notin forgone[i] \cup {server[i]}
                   THEN [unsure EXCEPT ![i] = @ \ {y}] ELSE unsure
      /\ UNCHANGED <<mem, session, chrome, sync, server, file, lastKey, born, deeds, forgone, stray>>
    BY <1>0 DEF Land
<1>2. /\ ShapeInv' /\ SessionInv' /\ FlightInv' /\ BirthInv' /\ TrustInv'
      /\ \A x \in Op : x # o => op'[x] = op[x] /\ op[x].stage \notin InFlight
      /\ op[o].kind = "rotate" => /\ op'[o].stage = "sent" /\ op'[o].kind = "rotate"
                                  /\ op'[o].id = i /\ op'[o].key = y /\ op'[o].from = op[o].from
      /\ op[o].kind # "rotate" => op'[o].stage \in {"after", "idle"}
    BY <1>0, LandedWorld
<1>3. \A j \in Id : Book(j) \in Books /\ Book(j)' \in Books
    BY <1>2, Shape, ShapeNext DEF Inv
<1>4. op[o].snap.acc \in Accounts /\ \A j \in Id : Entry(j, op[o].snap.acc)
    BY <1>1, Shape DEF Inv, CopiesInv
<1>5. \A x \in Op : op'[x].stage # "saving"
    BY <1>2 DEF InFlight
<1>6. \A x \in Op : Turn(x)' => Turn(x) /\ (x = o => op[o].kind = "rotate")
                                /\ (x # o => op'[x] = op[x] /\ op[x].stage = "sent")
    BY <1>1, <1>2 DEF Turn, InFlight
<1>7. \A x \in Op : Turn(x)' => /\ op'[x].kind = op[x].kind /\ op'[x].id = op[x].id
                                /\ op'[x].key = op[x].key /\ op'[x].from = op[x].from
    BY <1>0, <1>2, <1>6
<1>8. \A x \in Op : Turn(x) => op[x].key \in Nat /\ op[x].key # 0 /\ op[x].id \in Id
    <2>1. \A x \in Op : Turn(x) => op[x].key \in Nat /\ op[x].from \in Nat /\ op[x].id \in Id
        BY DEF Inv, TurnInv, ShapeInv, Handler
    <2> QED BY <2>1 DEF Inv, TurnInv
<1>9. op[o].kind \in {"rotate", "revert"} => Turn(o) /\ i \in Id /\ y \in Nat /\ y # 0
    BY <1>0, <1>1, <1>8 DEF Turn
<1>10. \A x \in Op : Turn(x)' /\ op'[x].kind = "rotate" /\ Backable(x)' => Backable(x)
    <2> SUFFICES ASSUME NEW x \in Op, Turn(x)', op'[x].kind = "rotate", Backable(x)' PROVE Backable(x)
        OBVIOUS
    <2>1. undo'.key = op'[x].key /\ op'[x].key = op[x].key
        BY <1>5, <1>7 DEF Backable
    <2>2. CASE x = o
        BY <1>1, <2>2 DEF Backable
    <2>3. CASE x # o /\ op[o].kind = "rotate"
        <3>1. undo'.key = y
            BY <1>1, <2>3
        <3>2. op[x].key # op[o].key
            BY <1>6, <1>9, <2>3 DEF Inv, TurnInv
        <3> QED BY <1>0, <2>1, <3>1, <3>2
    <2>4. CASE x # o /\ op[o].kind # "rotate"
        BY <1>1, <2>1, <2>4 DEF Backable
    <2> QED BY <2>2, <2>3, <2>4
<1>11. \A x \in Op, j \in Id : Opened(x, j)' => /\ Opened(x, j) /\ Turn(x)' /\ op'[x].key = op[x].key
                                                /\ (Backable(x)' => Backable(x))
    <2>1. \A x \in Op, j \in Id : Opened(x, j)' => Turn(x)' /\ op'[x].kind = "rotate"
        BY DEF Opened, Turn
    <2> QED BY <1>6, <1>7, <1>10, <2>1 DEF Opened, Turn
<1>12. \A j \in Id : /\ Book(j)'.open \subseteq Book(j).open /\ Book(j)'.back \subseteq Book(j).back
                     /\ \A k \in Book(j)'.sent : k \in Book(j).sent \/ (k = y /\ j = i /\ op[o].kind = "rotate")
    <2> SUFFICES ASSUME NEW j \in Id
                 PROVE  /\ Book(j)'.open \subseteq Book(j).open /\ Book(j)'.back \subseteq Book(j).back
                        /\ \A k \in Book(j)'.sent : k \in Book(j).sent \/ (k = y /\ j = i /\ op[o].kind = "rotate")
        OBVIOUS
    <2>1. \A k \in Book(j)'.open : k \in Book(j).open
        BY <1>11, BookIs, BookNext
    <2>2. \A k \in Book(j)'.back : k \in Book(j).back
        BY <1>11, BookIs, BookNext
    <2>3. ASSUME NEW k \in Book(j)'.sent PROVE k \in Book(j).sent \/ (k = y /\ j = i /\ op[o].kind = "rotate")
        <3>1. PICK x \in Op : op'[x].key = k /\ Opened(x, j)' /\ op'[x].stage = "sent"
            BY <2>3, BookNext
        <3>2. CASE x = o
            BY <1>0, <1>6, <1>11, <3>1, <3>2 DEF Opened
        <3>3. CASE x # o
            BY <1>6, <1>11, <3>1, <3>3, BookIs
        <3> QED BY <3>2, <3>3
    <2> QED BY <2>1, <2>2, <2>3
<1>13. \A j \in Id : /\ Book(j)'.served = Book(j).served /\ Book(j)'.lost = Book(j).lost
                     /\ Book(j)'.stray = Book(j).stray /\ Book(j)'.last = Book(j).last
                     /\ Book(j)'.doubt = unsure'[j] /\ Book(j).doubt = unsure[j]
    <2>1. UNCHANGED <<server, forgone, stray, lastKey>>
        BY <1>1
    <2> HIDE <1>1
    <2> QED BY <2>1, BookIs, BookNext
<1>14. ASSUME NEW j \in Id, \A k \in Book(j)'.sent : k \in Book(j).sent, unsure[j] \subseteq unsure'[j]
       PROVE  Grows(Book(j), Book(j)')
    <2>1. Book(j).last <= Book(j)'.last
        BY <1>3, <1>13 DEF Books
    <2> QED BY <1>12, <1>13, <1>14, <2>1 DEF Grows
\* What the landed vault holds, and what it does not.
<1>15. ASSUME NEW j \in Id
       PROVE  IF j \in DOMAIN op[o].snap.acc THEN Sound(Book(j)', op[o].snap.acc[j]) ELSE Absent(j)'
    <2>0. PICK a : a = op[o].snap.acc[j]
        OBVIOUS
    <2>1. Entry(j, op[o].snap.acc) /\ (j \in DOMAIN op[o].snap.acc => a \in Account)
        BY <1>4, <2>0, AccountsAre
    <2>2. CASE j \in DOMAIN op[o].snap.acc
        <3>1. Sound(Book(j), a) /\ a \in Account
            BY <2>0, <2>1, <2>2 DEF Entry
        <3>2. CASE op[o].kind = "revert"
            <4>1. \A k \in Book(j)'.sent : k \in Book(j).sent
                BY <1>12, <3>2
            <4>2. CASE j = i
                <5>1. undo.key = 0 /\ Undone(Book(i), a, y)
                    BY <1>0, <1>1, <1>9, <2>0, <3>2, <4>2 DEF Inv, TurnInv
                <5>2. \A x \in Op : Opened(x, j)' => ~ Backable(x)'
                    <6>1. \A x \in Op : Turn(x)' => op'[x].key # 0
                        BY <1>6, <1>7, <1>8
                    <6>2. undo'.key = 0
                        BY <1>1, <3>2, <5>1
                    <6> QED BY <1>5, <1>11, <6>1, <6>2 DEF Backable
                <5>3. Book(j)'.back = {}
                    <6>1. \A k : k \notin Book(j)'.back
                        BY <5>2, BookNext
                    <6> QED BY <6>1
                <5>4. Book(j)'.doubt = IF y \notin Book(j).lost \cup {Book(j).served}
                                       THEN Book(j).doubt \ {y} ELSE Book(j).doubt
                    <6>1. unsure \in [Id -> SUBSET Kid] /\ Book(j).lost = forgone[i] /\ Book(j).served = server[i]
                        BY <4>2, BookIs DEF Inv, ShapeInv
                    <6>2. CASE y \notin forgone[i] \cup {server[i]}
                        <7>1. unsure' = [unsure EXCEPT ![i] = @ \ {y}]
                            BY <1>1, <3>2, <6>2
                        <7> HIDE <1>1
                        <7> QED BY <1>9, <1>13, <3>2, <4>2, <6>1, <6>2, <7>1
                    <6>3. CASE ~ (y \notin forgone[i] \cup {server[i]})
                        <7>1. unsure' = unsure
                            BY <1>1, <6>3
                        <7> HIDE <1>1
                        <7> QED BY <1>13, <4>2, <6>1, <6>3, <7>1
                    <6> QED BY <6>2, <6>3
                <5> HIDE <1>1
                <5>5. Sound(Book(j)', a)
                    BY <1>3, <1>12, <1>13, <3>1, <4>1, <4>2, <5>1, <5>3, <5>4, UndoneSound
                <5> QED BY <2>0, <2>2, <5>5
            <4>3. CASE j # i
                <5>1. unsure[j] \subseteq unsure'[j]
                    BY <1>1, <4>3 DEF Inv, ShapeInv
                <5>2. Grows(Book(j), Book(j)')
                    BY <1>14, <4>1, <5>1
                <5> QED BY <1>3, <2>0, <2>2, <3>1, <5>2, GrowsSound
            <4> QED BY <4>2, <4>3
        <3>3. CASE op[o].kind # "revert"
            <4>1. unsure' = unsure
                BY <1>1, <3>3
            <4>2. j = i /\ op[o].kind = "rotate" => a.cur = y
                BY <1>0, <1>1, <1>9, <2>0 DEF Inv, TurnInv
            <4>3. Book(j)'.sent \subseteq Book(j).sent \cup {a.cur}
                BY <1>12, <4>2
            <4>4. Sound(Book(j)', a)
                BY <1>3, <1>12, <1>13, <3>1, <4>1, <4>3, LandedSound
            <4> QED BY <2>0, <2>2, <4>4
        <3> QED BY <3>2, <3>3
    <2>3. CASE j \notin DOMAIN op[o].snap.acc
        <3>1. Absent(j)
            BY <2>1, <2>3 DEF Entry
        <3>2. ~ (j = i /\ op[o].kind = "rotate")
            BY <1>0, <1>1, <1>9, <2>3 DEF Inv, TurnInv
        <3>3. \A k \in Book(j)'.sent : k \in Book(j).sent
            BY <1>12, <3>2
        <3>4. \A held : Backed(Book(j), held) => Backed(Book(j)', held)
            BY <1>13 DEF Backed
        <3>5. UNCHANGED <<file, mem, forgone>>
            BY <1>1
        <3>6. Book(j)'.sent \subseteq forgone'[j]
            BY <3>1, <3>3, <3>5 DEF Absent
        <3>7. Absent(j)'
            BY <3>1, <3>4, <3>5, <3>6 DEF Absent, Keyless
        <3> QED BY <2>3, <3>7
    <2> QED BY <2>2, <2>3
<1>16. CopiesInv'
    <2>1. \A j \in Id : Entry(j, disk.v.acc)'
        BY <1>1, <1>15 DEF Entry
    <2> QED BY <1>5, <2>1 DEF CopiesInv
<1>17. TurnInv'
    <2>1. \A j \in Id : unsure'[j] \subseteq unsure[j]
        BY <1>1 DEF Inv, ShapeInv
    <2>2. UNCHANGED <<lastKey, born>>
        BY <1>1
    <2>3. \A j \in Id : unsure'[j] \subseteq 1 .. lastKey'
        BY <2>1, <2>2 DEF Inv, TurnInv
    <2>4. \A x \in Op : op'[x].stage = "sent" => op'[x].kind = "rotate"
        BY <1>2 DEF Inv, TurnInv
    <2>5. \A x \in Op : Turn(x)' => /\ op'[x].id \in born' /\ op'[x].from >= 1
                                    /\ op'[x].from < op'[x].key /\ op'[x].key <= lastKey'
        BY <1>6, <1>7, <2>2 DEF Inv, TurnInv
    <2>6. \A z, x \in Op : z # x /\ Turn(z)' /\ Turn(x)' => op'[z].key # op'[x].key
        BY <1>6, <1>7 DEF Inv, TurnInv
    <2>7. undo'.key # 0 => \A x \in Op : op'[x].stage = "sent" => op'[x].key <= undo'.key
        <3> SUFFICES ASSUME undo'.key # 0, NEW x \in Op, op'[x].stage = "sent" PROVE op'[x].key <= undo'.key
            OBVIOUS
        <3>1. Turn(x)' /\ Turn(x) /\ op'[x].key = op[x].key
            BY <1>6, <1>7, <2>4 DEF Turn
        <3>2. CASE op[o].kind = "rotate"
            <4>1. undo'.key = y /\ y \in Nat
                BY <1>1, <1>9, <3>2
            <4>2. x # o => op[x].key < y
                BY <1>0, <1>1, <1>9, <3>1, <3>2 DEF Inv, TurnInv
            <4>3. op[x].key \in Nat /\ (x = o => op[x].key = y)
                BY <1>0, <1>8, <3>1
            <4> QED BY <3>1, <4>1, <4>2, <4>3
        <3>3. CASE op[o].kind # "rotate"
            <4>1. undo' = undo /\ x # o /\ op[x].stage = "sent"
                BY <1>1, <1>2, <1>6, <3>1, <3>3
            <4> QED BY <3>1, <4>1 DEF Inv, TurnInv
        <3> QED BY <3>2, <3>3
    <2>8. ASSUME NEW x \in Op, Turn(x)', op'[x].kind = "rotate", Backable(x)' PROVE op'[x].key \in unsure'[op'[x].id]
        <3>1. Turn(x) /\ Backable(x) /\ op[x].kind = "rotate" /\ op[x].key \in unsure[op[x].id]
            BY <1>6, <1>7, <1>10, <2>8 DEF Inv, TurnInv
        <3>2. op[o].kind = "revert" => FALSE
            <4> SUFFICES ASSUME op[o].kind = "revert" PROVE FALSE
                OBVIOUS
            <4>1. undo.key = 0 /\ undo' = undo
                BY <1>1, <1>9 DEF Inv, TurnInv
            <4>2. undo'.key = op'[x].key
                BY <1>5, <2>8 DEF Backable
            <4> QED BY <1>7, <1>8, <2>8, <3>1, <4>1, <4>2
        <3>3. unsure' = unsure
            BY <1>1, <3>2
        <3> QED BY <1>7, <2>8, <3>1, <3>3
    <2>9. \A x \in Op : Turn(x)' => op'[x].stage # "saving"
        BY <1>5
    <2> QED BY <1>5, <2>3, <2>4, <2>5, <2>6, <2>7, <2>8, <2>9 DEF TurnInv
<1> QED BY <1>2, <1>16, <1>17 DEF Inv

----------------------------------------------------------------------------
(* After the save, and the beginning *)

\* The scripts follow the trust that was saved.
LEMMA AfterKeeps ==
    ASSUME ExtensionConstants, Inv, NEW o \in Op, After(o)
    PROVE  Inv'
<1>1. /\ op[o].stage = "after" /\ op' = [op EXCEPT ![o] = Resting]
      /\ UNCHANGED <<disk, mem, session, undo, grant, popup, sync, server, file, lastKey, born, deeds,
                     forgone, unsure, stray>>
    BY DEF After, keys
<1>2. \/ op[o].kind = "add" /\ scripts' = scripts \cup ({op[o].site} \cap host) /\ host' = host
      \/ op[o].kind # "add" /\ scripts' = scripts \ {op[o].site} /\ host' = host \ {op[o].site}
    BY DEF After, Withdraw
<1>3. /\ Resting \in Handler /\ Resting.stage = "idle" /\ Resting.snap = Empty /\ Resting.kind = "none"
      /\ Tidy(Empty) /\ DOMAIN Empty.acc = {}
    BY Starts, Ground
<1>4. op' \in [Op -> Handler] /\ op'[o] = Resting /\ \A x \in Op : x # o => op'[x] = op[x]
    BY <1>1, <1>3, OneHandler DEF Inv
<1>5. \A x \in Op : op'[x].stage \notin InFlight /\ (x # o => op[x].stage \notin InFlight)
    BY <1>1, <1>3, <1>4 DEF Inv, FlightInv, InFlight
<1>6. ShapeInv'
    <2>1. host \subseteq Site /\ scripts \subseteq Site
        BY DEF Inv, ShapeInv
    <2>2. host' \subseteq Site /\ scripts' \subseteq Site
        BY <1>2, <2>1
    <2> QED BY <1>1, <1>4, <2>2 DEF Inv, ShapeInv
<1>7. Calm
    <2>1. lastKey <= lastKey'
        BY <1>1 DEF Inv, ShapeInv
    <2>2. \A x \in Op : Turn(x)' => op'[x] = op[x]
        BY <1>3, <1>4 DEF Turn
    <2> QED BY <1>1, <2>1, <2>2 DEF Calm
<1>8. TurnInv'
    <2>1. \A i \in Id : unsure'[i] \subseteq 1 .. lastKey'
        BY <1>1 DEF Inv, TurnInv
    <2>2. \A x \in Op : op'[x].stage = "sent" => op'[x] = op[x]
        BY <1>3, <1>4
    <2> QED BY <1>1, <1>6, <1>7, <2>1, <2>2, CalmTurns DEF Inv
<1>9. CopiesInv'
    <2>1. \A i \in Id : Absent(i) => Absent(i)'
        BY <1>1, <1>6, <1>7, AbsentStays DEF Inv, Keyless
    <2>2. \A x \in Op : op'[x].stage # "saving"
        BY <1>5 DEF InFlight
    <2> QED BY <1>1, <1>6, <1>7, <2>1, <2>2, CalmCopies DEF Inv
<1>10. SessionInv'
    <2>1. disk.made
        BY <1>1 DEF Inv, SessionInv
    <2>2. \A x \in Op : Tidy(op'[x].snap) /\ (op'[x].kind = "connect" => op'[x].site \in Site)
        BY <1>3, <1>4 DEF Inv, SessionInv
    <2> QED BY <1>1, <2>1, <2>2 DEF Inv, SessionInv
<1>11. FlightInv'
    <2>1. sync.stage # "saving" /\ \A x \in Op : op[x].stage # "saving"
        BY <1>1, <1>5 DEF Inv, FlightInv, InFlight
    <2> QED BY <1>1, <1>5, <2>1 DEF Inv, FlightInv, InFlight
<1>12. BirthInv'
    <2>1. \A x \in Op : DOMAIN op'[x].snap.acc \subseteq born
        BY <1>3, <1>4 DEF Inv, BirthInv
    <2> QED BY <1>1, <2>1 DEF Inv, BirthInv, Made
<1>13. TrustInv'
    <2> SUFFICES ASSUME mem.key, sync.stage = "idle" PROVE scripts' \subseteq mem.v.trust
        BY <1>1, <1>5 DEF TrustInv
    <2>1. scripts \subseteq mem.v.trust \cup Leaving
        BY DEF Inv, TrustInv
    <2>2. \A s \in Leaving : s = op[o].site /\ op[o].kind = "remove"
        BY <1>5 DEF Leaving
    <2>3. op[o].kind = "add" => op[o].site \in mem.v.trust
        BY <1>1 DEF Inv, TrustInv, InFlight
    <2> QED BY <1>2, <2>1, <2>2, <2>3
<1> QED BY <1>6, <1>8, <1>9, <1>10, <1>11, <1>12, <1>13 DEF Inv

\* A new extension, one beside a backup, one in use.
LEMMA Begins ==
    ASSUME ExtensionConstants, Init
    PROVE  Inv
<1>1. /\ mem = Locked /\ session = FALSE /\ undo = NoUndo /\ grant = NoSite
      /\ popup = [at |-> "closed", dialog |-> FALSE, site |-> NoSite]
      /\ sync = NoSync /\ op = [o \in Op |-> Resting]
      /\ deeds = 0 /\ forgone = [j \in Id |-> {}] /\ unsure = [j \in Id |-> {}] /\ stray = {}
      /\ scripts = host
    BY DEF Init
<1>2. PICK i \in Id : i = CHOOSE j \in Id : TRUE
    BY DEF ExtensionConstants
<1>3. PICK a : a = NewAccount(1)
    OBVIOUS
<1>4. a \in Account /\ a.cur = 1 /\ a.old = <<>> /\ Held(a) = {1}
    BY <1>3 DEF NewAccount, Account, Kid, ExtensionConstants, Held, ToSet
<1>5. PICK f : f = [j \in {i} |-> a]
    OBVIOUS
<1>6. f \in Accounts /\ DOMAIN f = {i} /\ f[i] = a
    BY <1>4, <1>5 DEF Accounts
\* The three beginnings.
<1>7. \/ /\ disk = [made |-> FALSE, v |-> Empty] /\ host = {} /\ file = <<>>
         /\ born = {} /\ lastKey = 0 /\ server = [j \in Id |-> 0]
      \/ /\ born = {i} /\ lastKey = 1 /\ server = [j \in Id |-> IF j = i THEN 1 ELSE 0]
         /\ \/ disk = [made |-> FALSE, v |-> Empty] /\ host = {} /\ file = f
            \/ /\ host \in SUBSET Site /\ file = <<>>
               /\ disk = [made |-> TRUE, v |-> [acc |-> f, active |-> i, trust |-> host, auto |-> {}]]
    BY <1>2, <1>3, <1>5 DEF Init
<1>8. /\ Empty \in Vault /\ <<>> \in Accounts /\ DOMAIN Empty.acc = {} /\ Tidy(Empty) /\ DOMAIN <<>> = {}
      /\ Locked \in Memory /\ NoSync \in Syncing /\ Resting \in Handler
      /\ NoUndo \in [site : {NoSite}, key : {0}]
      /\ Resting.stage = "idle" /\ Resting.kind = "none" /\ Resting.snap = Empty
      /\ NoSync.stage = "idle" /\ NoSync.snap = Empty
      /\ Locked.open = FALSE /\ Locked.key = FALSE /\ Locked.v = Empty
    BY Ground, Starts DEF Locked, NoSync
<1>9. disk \in [made : BOOLEAN, v : Vault] /\ Tidy(disk.v) /\ file \in Accounts /\ (~ disk.made => disk.v = Empty)
    <2>1. ASSUME host \in SUBSET Site
          PROVE  [acc |-> f, active |-> i, trust |-> host, auto |-> {}] \in Vault
                 /\ Tidy([acc |-> f, active |-> i, trust |-> host, auto |-> {}])
        BY <1>6, <2>1 DEF Vault, Tidy
    <2>2. file \in Accounts
        BY <1>6, <1>7, <1>8
    <2>3. CASE disk = [made |-> FALSE, v |-> Empty]
        BY <1>8, <2>2, <2>3
    <2>4. CASE /\ host \in SUBSET Site
               /\ disk = [made |-> TRUE, v |-> [acc |-> f, active |-> i, trust |-> host, auto |-> {}]]
        BY <2>1, <2>2, <2>4
    <2> QED BY <1>7, <2>3, <2>4
<1>10. /\ host \subseteq Site /\ born \subseteq Id /\ lastKey \in 0 .. MaxKey
       /\ server \in [Id -> 0 .. MaxKey] /\ (~ disk.made => scripts = {})
    BY <1>1, <1>7 DEF ExtensionConstants
<1>11. op \in [Op -> Handler] /\ \A o \in Op : op[o] = Resting
    BY <1>1, <1>8
<1>12. ShapeInv
    <2>1. popup \in Toolbar
        BY <1>1 DEF Toolbar
    <2>2. forgone \in [Id -> SUBSET Kid] /\ unsure \in [Id -> SUBSET Kid]
        BY <1>1
    <2>3. undo \in [site : Site \cup {NoSite}, key : 0 .. MaxKey] /\ deeds \in 0 .. MaxDeeds
        BY <1>1, <1>8 DEF ExtensionConstants
    <2> QED BY <1>1, <1>8, <1>9, <1>10, <1>11, <2>1, <2>2, <2>3 DEF ShapeInv
<1>13. SessionInv
    BY <1>1, <1>8, <1>9, <1>10, <1>11 DEF SessionInv
<1>14. FlightInv
    BY <1>1, <1>8, <1>11 DEF FlightInv, InFlight
<1>15. BirthInv
    <2>1. Made(mem.v.acc)
        BY <1>1, <1>8 DEF Made
    <2>2. Made(file)
        BY <1>4, <1>6, <1>7, <1>8 DEF Made
    <2>3. DOMAIN disk.v.acc \subseteq born /\ \A j \in Id \ born : server[j] = 0
        BY <1>6, <1>7, <1>8
    <2> QED BY <1>8, <1>11, <2>1, <2>2, <2>3 DEF BirthInv
<1>16. TrustInv
    BY <1>1, <1>8 DEF TrustInv
<1>17. \A o \in Op : \A j : ~ Turn(o) /\ ~ Opened(o, j)
    BY <1>8, <1>11 DEF Turn, Opened
<1>18. TurnInv
    BY <1>1, <1>8, <1>11, <1>17 DEF TurnInv
<1>19. CopiesInv
    <2>1. ASSUME NEW j \in Id
          PROVE  /\ Book(j) \in Books /\ Book(j).served = server[j] /\ Book(j).lost = {}
                 /\ Book(j).last = lastKey /\ Book(j).sent = {} /\ Book(j).open = {} /\ Book(j).back = {}
        <3>1. \A k : k \notin Book(j).sent /\ k \notin Book(j).open /\ k \notin Book(j).back
            BY <1>17, BookIs
        <3> QED BY <1>1, <1>12, <3>1, Shape, BookIs
    <2>2. ASSUME NEW j \in Id PROVE Backed(Book(j), {1}) /\ (j \in DOMAIN disk.v.acc => Sound(Book(j), disk.v.acc[j]))
        <3>1. Backed(Book(j), {1})
            BY <1>7, <2>1 DEF Backed
        <3>2. ASSUME j \in DOMAIN disk.v.acc PROVE disk.v.acc[j] = a /\ Book(j).served = 1 /\ Book(j).last = 1
            <4>1. disk.v # Empty
                BY <1>8, <3>2
            <4>2. /\ disk.v.acc = f /\ lastKey = 1 /\ server = [k \in Id |-> IF k = i THEN 1 ELSE 0]
                BY <1>7, <4>1
            <4>3. j = i
                BY <1>6, <3>2, <4>2
            <4>4. disk.v.acc[j] = a
                BY <1>6, <4>2, <4>3
            <4>5. server[j] = 1 /\ lastKey = 1
                BY <4>2, <4>3
            <4>6. Book(j).served = server[j] /\ Book(j).last = lastKey
                BY <2>1
            <4> QED BY <4>4, <4>5, <4>6
        <3>3. ASSUME Book(j).served = 1, Book(j).last = 1 PROVE Sound(Book(j), a)
            <4>1. PICK b : b = Book(j)
                OBVIOUS
            <4>2. /\ b.served = 1 /\ b.last = 1 /\ b.sent = {} /\ b.open = {} /\ b.back = {}
                  /\ Backed(b, {1})
                BY <2>1, <3>1, <3>3, <4>1
            <4>3. Sound(b, a)
                BY <1>4, <4>2 DEF Sound, Settled, Undoable
            <4> QED BY <4>1, <4>3
        <3> QED BY <3>1, <3>2, <3>3
    <2>3. \A j \in DOMAIN file : Held(file[j]) = {1}
        BY <1>4, <1>6, <1>7, <1>8
    <2>4. \A j \in Id : Absent(j)
        BY <1>1, <1>8, <2>1, <2>2, <2>3 DEF Absent, Keyless
    <2> QED BY <1>8, <1>11, <2>2, <2>4 DEF CopiesInv, Entry
<1> QED BY <1>12, <1>13, <1>14, <1>15, <1>16, <1>18, <1>19 DEF Inv

----------------------------------------------------------------------------
(* Every step; what the invariant says *)

LEMMA Preserved ==
    ASSUME ExtensionConstants, Inv, [Next]_vars
    PROVE  Inv'
<1>1. CASE UNCHANGED vars
    <2>1. popup \in Toolbar /\ grant \in Site \cup {NoSite} /\ deeds \in 0 .. MaxDeeds
        BY DEF Inv, ShapeInv
    <2> QED BY <1>1, <2>1, OutsideStep DEF vars
<1>2. ASSUME Setup \/ Unlock \/ Lock \/ IdleAlarm \/ HourPasses \/ StopWorker \/ BrowserExit
             \/ Export \/ PopupCloses \/ Authorize \/ Denied \/ GrantExpires \/ SyncCheck \/ SyncLand
             \/ \E s \in Site : OpenPopup(s)
      PROVE  Inv'
    <2>1. CASE Setup \/ Unlock
        BY <2>1, Unlocking
    <2>2. CASE Lock \/ IdleAlarm \/ BrowserExit
        BY <2>2, Locking
    <2>3. CASE StopWorker
        BY <2>3, Stopping
    <2>4. CASE Export
        BY <2>4, ExportKeeps
    <2>5. CASE SyncCheck \/ SyncLand
        BY <2>5, Reconciling
    <2>6. CASE HourPasses \/ PopupCloses \/ Authorize \/ Denied \/ GrantExpires \/ \E s \in Site : OpenPopup(s)
        BY <2>6, Outside
    <2> QED BY <1>2, <2>1, <2>2, <2>3, <2>4, <2>5, <2>6
<1>3. ASSUME NEW o \in Op,
             \/ Create(o) \/ Select(o) \/ Delete(o) \/ ImportStart(o) \/ ImportMerge(o) \/ Destroy(o) \/ Ask(o)
             \/ Refuse(o) \/ Connect(o) \/ Login(o) \/ Rotate(o) \/ Publish(o) \/ Unanswered(o) \/ Revert(o)
             \/ AddSite(o) \/ AddCheck(o) \/ RemoveSite(o) \/ SetAutoSign(o) \/ Land(o) \/ After(o)
             \/ Granted(o) \/ Finish(o) \/ OnAdded(o) \/ SiteAccess(o)
      PROVE  Inv'
    <2>1. CASE Create(o) \/ Delete(o) \/ Destroy(o) \/ ImportMerge(o)
        BY <2>1, CreateKeeps, DeleteKeeps, DestroyKeeps, ImportKeeps
    <2>2. CASE Select(o) \/ Connect(o) \/ AddCheck(o) \/ RemoveSite(o) \/ SetAutoSign(o)
        BY <2>2, Settings
    <2>3. CASE ImportStart(o) \/ Ask(o) \/ Refuse(o) \/ Unanswered(o) \/ AddSite(o) \/ Granted(o) \/ Finish(o)
               \/ OnAdded(o) \/ SiteAccess(o)
        BY <2>3, Handlers
    <2>4. CASE Rotate(o) \/ Publish(o) \/ Revert(o) \/ Login(o)
        BY <2>4, RotateKeeps, PublishKeeps, RevertKeeps, LoginKeeps
    <2>5. CASE Land(o) \/ After(o)
        BY <2>5, LandKeeps, AfterKeeps
    <2> QED BY <1>3, <2>1, <2>2, <2>3, <2>4, <2>5
<1> QED BY <1>1, <1>2, <1>3 DEF Next

LEMMA Invariant == ASSUME ExtensionConstants PROVE Spec => []Inv
<1>1. Init => Inv
    BY Begins
<1>2. Inv /\ [Next]_vars => Inv'
    BY Preserved
<1> QED BY <1>1, <1>2, PTL DEF Spec

LEMMA InvTypes == ASSUME ExtensionConstants, Inv PROVE TypeOK
<1>1. ASSUME NEW v \in Vault PROVE VaultTyped(v)
    <2>1. /\ v.acc \in Accounts /\ v.active \in Id \cup {NoId}
          /\ v.trust \in SUBSET Site /\ v.auto \in SUBSET Site
        BY DEF Vault
    <2>2. DOMAIN v.acc \subseteq Id /\ \A i \in DOMAIN v.acc : v.acc[i] \in Account
        BY <2>1, AccountsAre
    <2> QED BY <2>1, <2>2 DEF VaultTyped, Account
<1>2. disk.v \in Vault /\ mem.v \in Vault
    BY Shape DEF Inv
<1> QED BY <1>1, <1>2 DEF Inv, ShapeInv, SessionInv, Tidy, TypeOK

LEMMA DiskSound ==
    ASSUME Inv, NEW i \in DOMAIN disk.v.acc PROVE i \in Id /\ Sound(Book(i), disk.v.acc[i])
<1>1. i \in Id
    BY Shape, AccountsAre DEF Inv
<1> QED BY <1>1 DEF Inv, CopiesInv, Entry

LEMMA InvPublishedHeld == ASSUME Inv PROVE PublishedHeld
<1> SUFFICES ASSUME NEW i \in DOMAIN disk.v.acc \ stray, server[i] # 0
             PROVE  server[i] \in Held(disk.v.acc[i]) \cup forgone[i]
    BY DEF PublishedHeld
<1>1. Backed(Book(i), Held(disk.v.acc[i]))
    BY DiskSound DEF Sound
<1> QED BY <1>1, BookIs DEF Backed

LEMMA InvRefusedUndone == ASSUME Inv PROVE RefusedUndone
<1> SUFFICES ASSUME NEW i \in DOMAIN disk.v.acc \ stray, server[i] # 0, server[i] \notin forgone[i],
                    (Held(disk.v.acc[i]) \cup forgone[i]) \cap unsure[i] = {}
             PROVE  disk.v.acc[i].cur = server[i]
    BY DEF RefusedUndone
<1>1. Settled(Book(i), disk.v.acc[i])
    BY DiskSound DEF Sound
<1> QED BY <1>1, BookIs DEF Settled, Off, Unsettled

LEMMA InvInjectedIsTrusted == ASSUME Inv PROVE InjectedIsTrusted
<1> SUFFICES ASSUME mem.key, Quiet PROVE scripts \cap host \subseteq mem.v.trust
    BY DEF InjectedIsTrusted
<1>1. sync.stage = "idle" /\ Leaving = {}
    BY DEF Quiet, Leaving, InFlight
<1> QED BY <1>1 DEF Inv, TrustInv

(***************************************************************************)
(* For any number of identities, sites, handlers and keys, whatever is     *)
(* stopped, locked, lost or late: the vault on disk holds the key the      *)
(* server serves, knows which one it is once nothing about it is open, and *)
(* no site runs the page API untrusted once nothing is in progress         *)
(* (rotation.js handleRotateEncryptionKey, handleRevertEncryptionRotation; *)
(* accounts.js; utils.js saveVaultWithSessionKey; connection.js).          *)
(***************************************************************************)
THEOREM WorkerKeepsVault == ASSUME ExtensionConstants PROVE Spec => []WorkerInv
<1>1. Inv => WorkerInv
    BY InvTypes, InvPublishedHeld, InvRefusedUndone, InvInjectedIsTrusted DEF WorkerInv
<1> QED BY <1>1, Invariant, PTL

LEMMA KeptByStep ==
    ASSUME ExtensionConstants, Inv, [Next]_vars, NEW i \in Id
    PROVE  HeldIn(disk.v, i) \ HeldIn(disk'.v, i) \subseteq forgone'[i]
<1>1. CASE disk'.v.acc = disk.v.acc
    BY <1>1 DEF HeldIn
<1>2. CASE Setup
    <2>1. disk.v.acc = <<>>
        BY <1>2 DEF Setup, Inv, SessionInv, Empty
    <2> QED BY <2>1 DEF HeldIn
<1>3. CASE SyncLand
    <2>1. disk'.v = sync.snap
        BY <1>3 DEF SyncLand, Inv, ShapeInv
    <2>2. sync.snap.acc = disk.v.acc
        BY <1>3 DEF SyncLand, Inv, FlightInv
    <2> QED BY <1>1, <2>1, <2>2
<1>4. ASSUME NEW o \in Op, Land(o)
      PROVE  HeldIn(disk.v, i) \ HeldIn(disk'.v, i) \subseteq forgone'[i]
    <2>1. op[o].stage = "saving" /\ disk'.v = op[o].snap /\ forgone' = forgone
        BY <1>4 DEF Land
    <2>2. HeldIn(disk.v, i) \subseteq HeldIn(op[o].snap, i) \cup forgone[i]
        BY <2>1 DEF Inv, FlightInv
    <2> QED BY <2>1, <2>2
<1>5. ASSUME Unlock \/ Lock \/ IdleAlarm \/ HourPasses \/ StopWorker \/ BrowserExit
             \/ Export \/ PopupCloses \/ Authorize \/ Denied \/ GrantExpires \/ SyncCheck
             \/ (\E s \in Site : OpenPopup(s)) \/ UNCHANGED vars
      PROVE  disk' = disk
    BY <1>5 DEF Unlock, Lock, IdleAlarm, HourPasses, StopWorker, BrowserExit, Export, PopupCloses,
                Authorize, Denied, GrantExpires, SyncCheck, OpenPopup, vars
<1>6. ASSUME NEW o \in Op,
             \/ Create(o) \/ Select(o) \/ Delete(o) \/ ImportStart(o) \/ ImportMerge(o) \/ Destroy(o) \/ Ask(o)
             \/ Refuse(o) \/ Connect(o) \/ Login(o) \/ Rotate(o) \/ Publish(o) \/ Unanswered(o) \/ Revert(o)
             \/ AddSite(o) \/ AddCheck(o) \/ RemoveSite(o) \/ SetAutoSign(o) \/ After(o)
             \/ Granted(o) \/ Finish(o) \/ OnAdded(o) \/ SiteAccess(o)
      PROVE  disk' = disk
    BY <1>6 DEF Create, Select, Delete, ImportStart, ImportMerge, Destroy, Ask, Refuse, Connect, Login,
                Rotate, Publish, Unanswered, Revert, AddSite, AddCheck, RemoveSite, SetAutoSign, After,
                Granted, Finish, OnAdded, SiteAccess
<1> QED BY <1>1, <1>2, <1>3, <1>4, <1>5, <1>6 DEF Next

\* A key leaves the disk only as its owner gives it up: a save that lands late,
\* a merge, an undo, a restart drops none (accounts.js, rotation.js, utils.js).
THEOREM NoKeyDropped == ASSUME ExtensionConstants PROVE Spec => KeysKept
<1>1. Inv /\ [Next]_vars => \A i \in Id : HeldIn(disk.v, i) \ HeldIn(disk'.v, i) \subseteq forgone'[i]
    BY KeptByStep
<1>2. Inv /\ [Next]_vars =>
        [\A i \in Id : HeldIn(disk.v, i) \ HeldIn(disk'.v, i) \subseteq forgone'[i]]_vars
    BY <1>1
<1> QED BY <1>2, Invariant, PTL DEF Spec, KeysKept
=============================================================================
