-------------------------- MODULE EditBuffer_proofs --------------------------
(***************************************************************************)
(* Proofs about the edit buffer for every workspace, every set of line     *)
(* numbers and texts.                                                      *)
(***************************************************************************)
EXTENDS EditBuffer, Induction, FiniteSetTheorems, TLAPS

LEMMA LineLengthType ==
  ASSUME NEW t \in Texts
  PROVE  LineLength(t) \in Nat /\ LineLength(t) > 0
<1>1. StrLen[t] \in Nat
  BY TextAssumption
<1>2. \A n \in Nat : Align(SizeofLine + n) \in Nat /\ Align(SizeofLine + n) > 0
  BY DEF Align, SizeofLine
<1> QED BY <1>1, <1>2 DEF LineLength

-----------------------------------------------------------------------------
(***************************************************************************)
(* Where FindLineN stops, given a well laid out buffer: on a boundary, the *)
(* records below it have smaller numbers and end there or before, those    *)
(* from it on do not, and at most one record is the one looked for.        *)
(***************************************************************************)
StopsAt(n, at) ==
  /\ at \in Nat
  /\ buffer <= at /\ at <= BufferTop
  /\ IsBoundary(at)
  /\ \A l \in lines : IF l.addr < at THEN l.num < n /\ l.addr + l.len <= at
                                     ELSE n <= l.num
  /\ \A l \in lines : l.num = n <=> l \in Found(n)
  /\ \A l, m \in Found(n) : l = m
  /\ \A l \in Found(n) : l.addr = at

LEMMA FindLineStops ==
  ASSUME TypeOK, Layout, NEW n \in Nat
  PROVE  StopsAt(n, FindLineN(n))
<1> USE DEF Layout
<1>1. \A l \in lines : /\ l.addr \in Nat /\ l.num \in Nat /\ l.len \in Nat
                       /\ l.text \in Texts /\ l.len > 0
  <2> TAKE l \in lines
  <2>1. l \in Line
    BY DEF TypeOK
  <2>2. l.text \in Texts /\ l.len = LineLength(l.text)
    BY <2>1 DEF Line, InBuffer
  <2>3. l.len > 0
    BY <2>2, LineLengthType
  <2> QED BY <2>1, <2>2, <2>3 DEF Line
<1>2. buffer \in Nat /\ BufferTop \in Nat /\ buffer <= BufferTop
  BY WorkspaceAssumption DEF TypeOK, InBuffer
<1>3. CASE Later(n) = {}
  <2>1. FindLineN(n) = BufferTop
    BY <1>3 DEF FindLineN
  <2>2. \A l \in lines : l.num < n
    BY <1>1, <1>3 DEF Later
  <2>3. \A l \in lines : l.addr + l.len <= BufferTop /\ l.addr < BufferTop
    BY <1>1, <1>2 DEF InBuffer
  <2>4. Found(n) = {}
    BY <1>1, <2>2 DEF Found
  <2> QED BY <1>1, <1>2, <2>1, <2>2, <2>3, <2>4 DEF StopsAt, IsBoundary
<1>4. CASE Later(n) # {}
  <2>1. \E l \in Later(n) : \A m \in Later(n) : l.addr <= m.addr
    <3> DEFINE key == [l \in Later(n) |-> l.addr]
    <3>1. IsFiniteSet(Later(n))
      BY FS_Subset DEF TypeOK, Later
    <3>2. key \in [Later(n) -> Int]
      BY <1>1 DEF Later
    <3>3. \E l \in Later(n) : \A m \in Later(n) : key[l] <= key[m]
      BY <1>4, <3>1, <3>2, LeastElement
    <3> QED BY <3>3
  <2> DEFINE s == CHOOSE l \in Later(n) : \A m \in Later(n) : l.addr <= m.addr
  <2>2. s \in Later(n) /\ \A m \in Later(n) : s.addr <= m.addr
    BY <2>1
  <2>3. FindLineN(n) = s.addr
    BY <1>4 DEF FindLineN
  <2> HIDE DEF s
  <2>4. s \in lines /\ n <= s.num
    BY <2>2 DEF Later
  <2>5. \A l \in lines : l.addr < s.addr => l.num < n
    BY <1>1, <2>2 DEF Later
  <2>6. \A l \in lines : l = s \/ (l.addr + l.len <= s.addr /\ l.num < s.num)
                               \/ (s.addr + s.len <= l.addr /\ s.num < l.num)
    BY <2>4 DEF Ordered
  <2>7. \A l \in lines : IF l.addr < s.addr THEN l.num < n /\ l.addr + l.len <= s.addr
                                            ELSE n <= l.num
    BY <1>1, <2>4, <2>5, <2>6
  <2>8. \A l \in lines : l \in Found(n) <=> l.addr = s.addr /\ l.num = n
    BY <2>3 DEF Found
  <2>9. \A l \in lines : l.num = n => l = s
    BY <1>1, <2>4, <2>5, <2>6
  <2>10. \A l \in Found(n) : l = s
    BY <2>9 DEF Found
  <2>11. \A l \in lines : l.num = n <=> l \in Found(n)
    BY <2>8, <2>9
  <2>12. s.addr \in Nat /\ buffer <= s.addr /\ s.addr <= BufferTop /\ IsBoundary(s.addr)
    BY <1>1, <1>2, <2>4 DEF InBuffer, IsBoundary
  <2>13. StopsAt(n, s.addr)
    BY <2>7, <2>10, <2>11, <2>12 DEF StopsAt
  <2> QED BY <2>3, <2>13
<1> QED BY <1>3, <1>4

-----------------------------------------------------------------------------
(***************************************************************************)
(* What the sliding of the lower records does to one record.               *)
(***************************************************************************)
LEMMA SlideFields ==
  ASSUME NEW l \in Line, NEW at \in Nat, NEW by \in Int
  PROVE  /\ Slide(l, at, by).addr = IF l.addr < at THEN l.addr - by ELSE l.addr
         /\ Slide(l, at, by).num = l.num
         /\ Slide(l, at, by).len = l.len
         /\ Slide(l, at, by).text = l.text
         /\ Slide(l, at, by) = [addr |-> IF l.addr < at THEN l.addr - by ELSE l.addr,
                                num |-> l.num, len |-> l.len, text |-> l.text]
BY DEF Slide, Line

LEMMA SlideFinite ==
  ASSUME NEW S, IsFiniteSet(S), NEW at, NEW by
  PROVE  IsFiniteSet({Slide(l, at, by) : l \in S})
<1> DEFINE f == [l \in S |-> Slide(l, at, by)]
           T == {Slide(l, at, by) : l \in S}
<1>1. f \in Surjection(S, T)
  BY DEF Surjection
<1> QED BY <1>1, FS_Surjection

(***************************************************************************)
(* What SpaceNeeded and the record it replaces add up to.                  *)
(***************************************************************************)
LEMMA RecordFacts ==
  ASSUME TypeOK, Layout
  PROVE  \A l \in lines : /\ l \in Line
                          /\ l.addr \in Nat /\ l.num \in Nat /\ l.len \in Nat
                          /\ l.text \in Texts
                          /\ l.len > 0 /\ l.len = LineLength(l.text)
                          /\ buffer <= l.addr /\ l.addr + l.len <= BufferTop
<1> TAKE l \in lines
<1>1. l \in Line
  BY DEF TypeOK
<1>2. l.text \in Texts /\ l.len = LineLength(l.text)
  BY <1>1 DEF Line, Layout, InBuffer
<1>3. l.len > 0
  BY <1>2, LineLengthType
<1> QED BY <1>1, <1>2, <1>3 DEF Line, Layout, InBuffer

LEMMA SpaceFacts ==
  ASSUME TypeOK, Layout, NEW n \in Nat, NEW t \in Texts
  PROVE  /\ SpaceNeeded(n, t) \in Int
         /\ Found(n) = {} => SpaceNeeded(n, t) = LineLength(t)
         /\ \A l \in Found(n) : SpaceNeeded(n, t) = LineLength(t) - l.len
<1>1. \A l, m \in Found(n) : l = m
  BY FindLineStops DEF StopsAt
<1>2. LineLength(t) \in Nat
  BY LineLengthType
<1>3. CASE Found(n) = {}
  BY <1>2, <1>3 DEF SpaceNeeded
<1>4. CASE Found(n) # {}
  <2>1. PICK l \in Found(n) : TRUE
    BY <1>4
  <2>2. (CHOOSE k \in Found(n) : TRUE) = l
    BY <1>1, <2>1
  <2>3. SpaceNeeded(n, t) = LineLength(t) - l.len
    BY <1>4, <2>2 DEF SpaceNeeded
  <2>4. l.len \in Nat
    BY RecordFacts DEF Found
  <2> QED BY <1>1, <1>2, <1>4, <2>1, <2>3, <2>4
<1> QED BY <1>3, <1>4

-----------------------------------------------------------------------------
(***************************************************************************)
(* What every step leaves behind about the records.                        *)
(***************************************************************************)
Stored ==
  /\ lines \subseteq Line
  /\ IsFiniteSet(lines)
  /\ buffer \in Nat
  /\ nextLow \in Nat
  /\ Layout
  /\ HeapBelowBuffer

(***************************************************************************)
(* BufAddLineN, when the line fits, keeps the records packed in the order  *)
(* of their numbers, above what the compiler holds.                        *)
(***************************************************************************)
LEMMA PutLineStored ==
  ASSUME TypeOK, Layout, HeapBelowBuffer,
         NEW n \in Nat, NEW t \in Texts,
         Fits(n, t), PutLine(n, t), UNCHANGED nextLow
  PROVE  Stored'
<1> DEFINE at  == FindLineN(n)
           by  == SpaceNeeded(n, t)
           new == [addr |-> at - by, num |-> n, len |-> LineLength(t), text |-> t]
           old == lines \ Found(n)
<1>1. StopsAt(n, at)
  BY FindLineStops
<1>2. /\ by \in Int
      /\ Found(n) = {} => by = LineLength(t)
      /\ \A l \in Found(n) : by = LineLength(t) - l.len
  BY SpaceFacts
<1>3. LineLength(t) \in Nat /\ LineLength(t) > 0
  BY LineLengthType
<1>4. /\ buffer \in Nat /\ nextLow \in Nat /\ BufferTop \in Nat
      /\ buffer - by >= nextLow /\ buffer <= BufferTop
      /\ at \in Nat /\ buffer <= at /\ at <= BufferTop
  BY <1>1, WorkspaceAssumption DEF TypeOK, Fits, StopsAt, Layout, InBuffer
<1>5. /\ lines' = {Slide(l, at, by) : l \in old} \cup {new}
      /\ buffer' = buffer - by
      /\ nextLow' = nextLow
  BY DEF PutLine
<1>6. \A l \in lines : /\ l \in Line
                       /\ l.addr \in Nat /\ l.num \in Nat /\ l.len \in Nat
                       /\ l.text \in Texts
                       /\ l.len > 0 /\ l.len = LineLength(l.text)
                       /\ buffer <= l.addr /\ l.addr + l.len <= BufferTop
  BY RecordFacts
<1> HIDE DEF at, by, new, old
\* One record after the step is the new one or comes from one before it.
<1>7. \A x \in lines' : x = new \/ \E l \in old : x = Slide(l, at, by)
  BY <1>5
<1>8. \A l \in old : Slide(l, at, by) \in lines'
  BY <1>5
<1>9. \A l \in old : l \in lines /\ l.num # n
  BY <1>1 DEF StopsAt, old
<1>10. \A l \in old :
          LET x == Slide(l, at, by)
          IN /\ x.addr = IF l.addr < at THEN l.addr - by ELSE l.addr
             /\ x.num = l.num /\ x.len = l.len /\ x.text = l.text
             /\ x \in [addr : Int, num : Nat, len : Nat, text : Texts]
  <2> TAKE l \in old
  <2>1. l \in Line /\ at \in Nat /\ by \in Int
    BY <1>2, <1>4, <1>6, <1>9
  <2>2. /\ Slide(l, at, by).addr = IF l.addr < at THEN l.addr - by ELSE l.addr
        /\ Slide(l, at, by).num = l.num
        /\ Slide(l, at, by).len = l.len
        /\ Slide(l, at, by).text = l.text
        /\ Slide(l, at, by) = [addr |-> IF l.addr < at THEN l.addr - by ELSE l.addr,
                               num |-> l.num, len |-> l.len, text |-> l.text]
    BY <2>1, SlideFields
  <2>3. Slide(l, at, by) \in [addr : Int, num : Nat, len : Nat, text : Texts]
    BY <2>1, <2>2 DEF Line
  <2> QED BY <2>2, <2>3
<1>11. /\ new.addr = at - by /\ new.num = n /\ new.len = LineLength(t) /\ new.text = t
       /\ new \in [addr : Int, num : Nat, len : Nat, text : Texts]
  BY <1>2, <1>3, <1>4 DEF new
\* The new record ends where the one it replaces did, or where the walk stopped.
<1>12. /\ at - by >= nextLow
       /\ at <= at - by + LineLength(t) /\ at - by + LineLength(t) <= BufferTop
       /\ \A l \in old : l.addr >= at => l.addr >= at - by + LineLength(t) /\ n < l.num
       /\ \A l \in old : l.addr < at => l.num < n /\ l.addr + l.len <= at
  <2>1. CASE Found(n) = {}
    BY <1>1, <1>2, <1>3, <1>4, <1>6, <1>9, <2>1 DEF StopsAt
  <2>2. CASE Found(n) # {}
    <3>1. PICK f \in Found(n) : TRUE
      BY <2>2
    <3>2. f \in lines /\ f.addr = at /\ f.num = n /\ by = LineLength(t) - f.len
      BY <1>1, <1>2, <3>1 DEF StopsAt, Found
    <3>3. \A l \in old : l.addr >= at => l.addr >= f.addr + f.len /\ f.num < l.num
      <4> TAKE l \in old
      <4>1. l \in lines /\ l # f /\ l.num # n
        BY <1>9, <3>2
      <4>2. \/ l.addr + l.len <= f.addr /\ l.num < f.num
            \/ f.addr + f.len <= l.addr /\ f.num < l.num
        BY <3>2, <4>1 DEF Layout, Ordered
      <4> QED BY <1>6, <3>2, <4>1, <4>2
    <3> QED BY <1>1, <1>2, <1>3, <1>4, <1>6, <1>9, <3>2, <3>3 DEF StopsAt
  <2> QED BY <2>1, <2>2
<1>13. buffer' \in Nat /\ nextLow' \in Nat /\ HeapBelowBuffer' /\ buffer' <= BufferTop
  BY <1>2, <1>4, <1>5, <1>12, <1>3 DEF HeapBelowBuffer
<1>14. \A x \in lines' : buffer' <= x.addr /\ x.addr + x.len <= BufferTop
                         /\ x.len = LineLength(x.text)
  <2> TAKE x \in lines'
  <2>1. CASE x = new
    BY <1>2, <1>3, <1>4, <1>5, <1>11, <1>12, <2>1
  <2>2. ASSUME NEW l \in old, x = Slide(l, at, by)
        PROVE  buffer' <= x.addr /\ x.addr + x.len <= BufferTop
               /\ x.len = LineLength(x.text)
    BY <1>2, <1>3, <1>4, <1>5, <1>6, <1>9, <1>10, <1>12, <2>2
  <2> QED BY <1>7, <2>1, <2>2
<1>15. lines' \subseteq Line
  BY <1>7, <1>10, <1>11, <1>13, <1>14 DEF Line
<1>16. IsFiniteSet(lines')
  <2>1. IsFiniteSet(old)
    BY FS_Subset DEF TypeOK, old
  <2>2. IsFiniteSet({Slide(l, at, by) : l \in old})
    BY <2>1, SlideFinite
  <2> QED BY <1>5, <2>2, FS_AddElement
<1>17. Ordered'
  <2> DEFINE Apart(x, y) == \/ x = y
                            \/ x.addr + x.len <= y.addr /\ x.num < y.num
                            \/ y.addr + y.len <= x.addr /\ y.num < x.num
  <2>1. \A l \in old : Apart(Slide(l, at, by), new)
    BY <1>2, <1>3, <1>4, <1>6, <1>9, <1>10, <1>11, <1>12
  <2>2. \A l, m \in old : Apart(Slide(l, at, by), Slide(m, at, by))
    <3> TAKE l, m \in old
    <3>1. \/ l = m
          \/ l.addr + l.len <= m.addr /\ l.num < m.num
          \/ m.addr + m.len <= l.addr /\ m.num < l.num
      BY <1>9 DEF Layout, Ordered
    <3> QED BY <1>2, <1>3, <1>4, <1>6, <1>9, <1>10, <1>12, <3>1
  <2>3. \A x, y \in lines' : Apart(x, y)
    <3>1. \A x, y : Apart(x, y) => Apart(y, x)
      OBVIOUS
    <3> HIDE DEF Apart
    <3>2. Apart(new, new)
      BY DEF Apart
    <3> QED BY <1>7, <2>1, <2>2, <3>1, <3>2
  <2> QED BY <2>3 DEF Ordered
<1>18. Packed'
  <2> DEFINE After(a) == a = BufferTop \/ \E l \in lines' : l.addr = a
  <2>1. \A a \in Int : IsBoundary(a) /\ a < at => After(a - by)
    <3> TAKE a \in Int
    <3> HAVE IsBoundary(a) /\ a < at
    <3>1. PICK l \in lines : l.addr = a
      BY <1>4 DEF IsBoundary
    <3>2. l \in old
      BY <1>1, <1>4, <3>1 DEF StopsAt, old
    <3>3. Slide(l, at, by).addr = a - by
      BY <1>10, <3>1, <3>2
    <3> QED BY <1>8, <3>2, <3>3
  <2>2. After(at - by)
    BY <1>5, <1>11
  <2>3. \A a \in Int : IsBoundary(a) /\ a >= at /\ (a = at => Found(n) = {})
                         => After(a)
    <3> TAKE a \in Int
    <3> HAVE IsBoundary(a) /\ a >= at /\ (a = at => Found(n) = {})
    <3>1. CASE a = BufferTop
      BY <3>1
    <3>2. CASE \E l \in lines : l.addr = a
      <4>1. PICK l \in lines : l.addr = a
        BY <3>2
      <4>2. l \in old
        BY <1>1, <1>4, <4>1 DEF StopsAt, old
      <4>3. Slide(l, at, by).addr = a
        BY <1>4, <1>6, <1>9, <1>10, <4>1, <4>2
      <4> QED BY <1>8, <4>2, <4>3
    <3> QED BY <3>1, <3>2 DEF IsBoundary
  <2>4. After(at - by + LineLength(t))
    <3> HIDE DEF After
    <3>1. CASE Found(n) = {}
      <4>1. at - by + LineLength(t) = at
        BY <1>2, <1>3, <1>4, <3>1
      <4> QED BY <1>1, <1>4, <2>3, <3>1, <4>1 DEF StopsAt
    <3>2. CASE Found(n) # {}
      <4>1. PICK f \in Found(n) : TRUE
        BY <3>2
      <4>2. f \in lines /\ f.addr = at /\ at - by + LineLength(t) = f.addr + f.len
            /\ f.addr + f.len > at
        BY <1>1, <1>2, <1>3, <1>4, <1>6, <4>1 DEF StopsAt, Found
      <4>3. IsBoundary(f.addr + f.len)
        BY <4>2 DEF Layout, Packed
      <4> QED BY <1>4, <1>6, <2>3, <4>2, <4>3
    <3> QED BY <3>1, <3>2
  <2>5. After(buffer')
    <3> HIDE DEF After
    <3>1. IsBoundary(buffer)
      BY DEF Layout, Packed
    <3>2. CASE buffer < at
      BY <1>4, <1>5, <2>1, <3>1, <3>2
    <3>3. CASE buffer = at
      BY <1>5, <2>2, <3>3
    <3> QED BY <1>4, <3>2, <3>3
  <2>6. \A l \in old : After(Slide(l, at, by).addr + Slide(l, at, by).len)
    <3> TAKE l \in old
    <3> HIDE DEF After
    <3> DEFINE x == Slide(l, at, by)
               e == l.addr + l.len
    <3>1. IsBoundary(e) /\ e \in Int
      BY <1>6, <1>9 DEF Layout, Packed
    <3>2. CASE l.addr < at
      <4>1. x.addr + x.len = e - by /\ e <= at
        BY <1>2, <1>6, <1>9, <1>10, <1>12, <3>2
      <4>2. After(e - by)
        <5>1. CASE e < at
          BY <2>1, <3>1, <5>1
        <5>2. CASE e = at
          BY <2>2, <5>2
        <5> QED BY <1>4, <3>1, <4>1, <5>1, <5>2
      <4> QED BY <4>1, <4>2
    <3>3. CASE l.addr >= at
      <4>1. x.addr + x.len = e /\ e > at
        BY <1>4, <1>6, <1>9, <1>10, <3>3
      <4>2. After(e)
        BY <1>4, <2>3, <3>1, <4>1
      <4> QED BY <4>1, <4>2
    <3> QED BY <1>4, <1>6, <1>9, <3>2, <3>3
  <2>7. \A x \in lines' : After(x.addr + x.len)
    <3> HIDE DEF After
    <3> QED BY <1>7, <1>11, <2>4, <2>6
  <2> QED BY <2>5, <2>7 DEF Packed, IsBoundary
<1> QED BY <1>13, <1>14, <1>15, <1>16, <1>17, <1>18 DEF Stored, Layout, InBuffer

(***************************************************************************)
(* BufDeleteLineN on a line that is there keeps the layout as well.        *)
(***************************************************************************)
LEMMA RemoveLineStored ==
  ASSUME TypeOK, Layout, HeapBelowBuffer, mode # "undefined", NEW n \in Nat,
         Found(n) # {}, RemoveLine(n), UNCHANGED nextLow
  PROVE  Stored'
<1> DEFINE at  == FindLineN(n)
           old == lines \ Found(n)
<1>1. StopsAt(n, at)
  BY FindLineStops
<1>2. PICK f \in Found(n) : TRUE
  OBVIOUS
<1>3. \A l \in lines : /\ l \in Line
                       /\ l.addr \in Nat /\ l.num \in Nat /\ l.len \in Nat
                       /\ l.text \in Texts
                       /\ l.len > 0 /\ l.len = LineLength(l.text)
                       /\ buffer <= l.addr /\ l.addr + l.len <= BufferTop
  BY RecordFacts
<1>4. /\ f \in lines /\ f.addr = at /\ f.num = n /\ Found(n) = {f}
      /\ (CHOOSE l \in Found(n) : TRUE) = f
  BY <1>1, <1>2 DEF StopsAt, Found
<1> DEFINE by == f.len
<1>5. /\ buffer \in Nat /\ nextLow \in Nat /\ BufferTop \in Nat /\ nextLow <= buffer
      /\ at \in Nat /\ buffer <= at /\ at + by <= BufferTop
      /\ by \in Nat /\ by > 0 /\ -by \in Int
  <2>1. at \in Nat /\ buffer <= at
    BY <1>1 DEF StopsAt
  <2>2. by \in Nat /\ by > 0 /\ at + by <= BufferTop
    BY <1>3, <1>4
  <2>3. buffer \in Nat /\ nextLow \in Nat /\ BufferTop \in Nat /\ nextLow <= buffer
    BY WorkspaceAssumption DEF TypeOK, HeapBelowBuffer
  <2> QED BY <2>1, <2>2, <2>3
<1>6. /\ lines' = {Slide(l, at, -by) : l \in old}
      /\ buffer' = buffer + by
      /\ nextLow' = nextLow
  BY <1>4 DEF RemoveLine
<1> HIDE DEF at, by, old
<1>7. \A x \in lines' : \E l \in old : x = Slide(l, at, -by)
  BY <1>6
<1>8. \A l \in old : Slide(l, at, -by) \in lines'
  BY <1>6
<1>9. \A l \in old : l \in lines /\ l # f
  BY <1>4 DEF old
<1>10. \A l \in old :
          LET x == Slide(l, at, -by)
          IN /\ x.addr = IF l.addr < at THEN l.addr + by ELSE l.addr
             /\ x.num = l.num /\ x.len = l.len /\ x.text = l.text
             /\ x \in Line
  <2> TAKE l \in old
  <2>1. l \in Line /\ at \in Nat /\ -by \in Int /\ by \in Nat /\ l.addr \in Nat
    BY <1>5, <1>3, <1>9
  <2>2. /\ Slide(l, at, -by).addr = IF l.addr < at THEN l.addr - (-by) ELSE l.addr
        /\ Slide(l, at, -by).num = l.num
        /\ Slide(l, at, -by).len = l.len
        /\ Slide(l, at, -by).text = l.text
        /\ Slide(l, at, -by) = [addr |-> IF l.addr < at THEN l.addr - (-by) ELSE l.addr,
                               num |-> l.num, len |-> l.len, text |-> l.text]
    BY <2>1, SlideFields
  <2>3. l.addr - (-by) = l.addr + by /\ l.addr + by \in Nat
    BY <2>1
  <2> QED BY <2>1, <2>2, <2>3 DEF Line
<1>11. \A l \in old : \/ l.addr < at /\ l.addr + l.len <= at /\ l.num < n
                      \/ l.addr >= at + by /\ n < l.num
  <2> TAKE l \in old
  <2>1. l \in lines /\ l # f
    BY <1>9
  <2>2. \/ l.addr + l.len <= f.addr /\ l.num < f.num
        \/ f.addr + f.len <= l.addr /\ f.num < l.num
    BY <1>4, <2>1 DEF Layout, Ordered
  <2> QED BY <1>3, <1>4, <1>5, <2>1, <2>2 DEF by
<1>12. buffer' \in Nat /\ nextLow' \in Nat /\ HeapBelowBuffer' /\ buffer' <= BufferTop
  BY <1>5, <1>6 DEF HeapBelowBuffer
<1>13. \A l \in old : LET x == Slide(l, at, -by)
                      IN buffer' <= x.addr /\ x.addr + x.len <= BufferTop
                         /\ x.len = LineLength(x.text)
  BY <1>3, <1>5, <1>6, <1>9, <1>10, <1>11
<1>14. lines' \subseteq Line
  BY <1>7, <1>10
<1>15. IsFiniteSet(lines')
  <2>1. IsFiniteSet(old)
    BY FS_Subset DEF TypeOK, old
  <2> QED BY <1>6, <2>1, SlideFinite
<1>16. Ordered'
  <2> DEFINE Apart(x, y) == \/ x = y
                            \/ x.addr + x.len <= y.addr /\ x.num < y.num
                            \/ y.addr + y.len <= x.addr /\ y.num < x.num
  <2>1. \A l, m \in old : Apart(Slide(l, at, -by), Slide(m, at, -by))
    <3> TAKE l, m \in old
    <3>1. \/ l = m
          \/ l.addr + l.len <= m.addr /\ l.num < m.num
          \/ m.addr + m.len <= l.addr /\ m.num < l.num
      BY <1>9 DEF Layout, Ordered
    <3> QED BY <1>3, <1>5, <1>9, <1>10, <1>11, <3>1
  <2>2. \A x, y \in lines' : Apart(x, y)
    <3> HIDE DEF Apart
    <3> QED BY <1>7, <2>1
  <2> QED BY <2>2 DEF Ordered
<1>17. Packed'
  <2> DEFINE After(a) == a = BufferTop \/ \E l \in lines' : l.addr = a
  <2>1. \A a \in Int : IsBoundary(a) /\ a < at => After(a + by)
    <3> TAKE a \in Int
    <3> HAVE IsBoundary(a) /\ a < at
    <3>1. PICK l \in lines : l.addr = a
      BY <1>5 DEF IsBoundary
    <3>2. l \in old
      BY <1>4, <1>5, <3>1 DEF old
    <3>3. Slide(l, at, -by).addr = a + by
      BY <1>10, <3>1, <3>2
    <3> QED BY <1>8, <3>2, <3>3
  <2>2. \A a \in Int : IsBoundary(a) /\ a > at => After(a)
    <3> TAKE a \in Int
    <3> HAVE IsBoundary(a) /\ a > at
    <3>1. CASE a = BufferTop
      BY <3>1
    <3>2. CASE \E l \in lines : l.addr = a
      <4>1. PICK l \in lines : l.addr = a
        BY <3>2
      <4>2. l \in old
        BY <1>4, <1>5, <4>1 DEF old
      <4>3. Slide(l, at, -by).addr = a
        BY <1>5, <1>10, <4>1, <4>2
      <4> QED BY <1>8, <4>2, <4>3
    <3> QED BY <3>1, <3>2 DEF IsBoundary
  <2> HIDE DEF After
  <2>3. After(at + by)
    <3>1. IsBoundary(at + by)
      BY <1>4 DEF Layout, Packed, by
    <3> QED BY <1>5, <2>2, <3>1
  <2>4. After(buffer')
    <3>1. IsBoundary(buffer)
      BY DEF Layout, Packed
    <3>2. CASE buffer < at
      BY <1>5, <1>6, <2>1, <3>1, <3>2
    <3>3. CASE buffer = at
      BY <1>6, <2>3, <3>3
    <3> QED BY <1>5, <3>2, <3>3
  <2>5. \A l \in old : After(Slide(l, at, -by).addr + Slide(l, at, -by).len)
    <3> TAKE l \in old
    <3> DEFINE x == Slide(l, at, -by)
               e == l.addr + l.len
    <3>1. IsBoundary(e) /\ e \in Int
      BY <1>3, <1>9 DEF Layout, Packed
    <3>2. CASE l.addr < at
      <4>1. x.addr + x.len = e + by /\ e <= at
        BY <1>3, <1>5, <1>9, <1>10, <1>11, <3>2
      <4>2. After(e + by)
        <5>1. CASE e < at
          BY <2>1, <3>1, <5>1
        <5>2. CASE e = at
          BY <2>3, <5>2
        <5> QED BY <1>5, <3>1, <4>1, <5>1, <5>2
      <4> QED BY <4>1, <4>2
    <3>3. CASE l.addr >= at
      <4>1. x.addr + x.len = e /\ e > at
        BY <1>3, <1>5, <1>9, <1>10, <3>3
      <4> QED BY <2>2, <3>1, <4>1
    <3> QED BY <1>3, <1>5, <1>9, <3>2, <3>3
  <2>6. \A x \in lines' : After(x.addr + x.len)
    BY <1>7, <2>5
  <2> QED BY <2>4, <2>6 DEF Packed, IsBoundary, After
<1>18. \A x \in lines' : buffer' <= x.addr /\ x.addr + x.len <= BufferTop
                         /\ x.len = LineLength(x.text)
  BY <1>7, <1>13
<1> QED BY <1>12, <1>14, <1>15, <1>16, <1>17, <1>18 DEF Stored, Layout, InBuffer

(***************************************************************************)
(* The numbers DoRenum gives grow with the address: a higher record has    *)
(* strictly more records below it.                                         *)
(***************************************************************************)
Below(l) == {m \in lines : m.addr < l.addr}

NewNumber(l) == FirstNumber + Increment * Cardinality(Below(l))

LEMMA NewNumbers ==
  ASSUME TypeOK, Layout
  PROVE  /\ \A l \in lines : NewNumber(l) \in Nat
         /\ \A l, m \in lines : l.addr < m.addr => NewNumber(l) < NewNumber(m)
<1>1. \A l \in lines : IsFiniteSet(Below(l)) /\ Cardinality(Below(l)) \in Nat
  <2> TAKE l \in lines
  <2>1. Below(l) \in SUBSET lines /\ IsFiniteSet(lines)
    BY DEF Below, TypeOK
  <2>2. IsFiniteSet(Below(l))
    BY <2>1, FS_Subset
  <2> QED BY <2>2, FS_CardinalityType
<1>2. ASSUME NEW l \in lines, NEW m \in lines, l.addr < m.addr
      PROVE  Cardinality(Below(l)) < Cardinality(Below(m))
  <2>1. \A k \in lines : k.addr \in Nat
    BY RecordFacts
  <2>2. Below(l) \in SUBSET Below(m) /\ l \in Below(m) /\ l \notin Below(l)
    BY <1>2, <2>1 DEF Below
  <2>3. /\ Cardinality(Below(l)) <= Cardinality(Below(m))
        /\ Cardinality(Below(m)) = Cardinality(Below(l)) => Below(m) = Below(l)
    BY <1>1, <2>2, FS_Subset
  <2> QED BY <1>1, <2>2, <2>3
<1> HIDE DEF Below
<1>3. \A l \in lines : NewNumber(l) \in Nat
  BY <1>1 DEF NewNumber, FirstNumber, Increment
<1>4. \A l, m \in lines : l.addr < m.addr => NewNumber(l) < NewNumber(m)
  BY <1>1, <1>2 DEF NewNumber, FirstNumber, Increment
<1> QED BY <1>3, <1>4

LEMMA RenumStored ==
  ASSUME TypeOK, Layout, HeapBelowBuffer, DoRenum
  PROVE  Stored'
<1> DEFINE ren(l) == [l EXCEPT !.num = NewNumber(l)]
<1>1. lines' = {ren(l) : l \in lines} /\ buffer' = buffer /\ nextLow' = nextLow
  BY DEF DoRenum, NewNumber, Below
<1>2. \A l \in lines : /\ l \in Line
                       /\ l.addr \in Nat /\ l.num \in Nat /\ l.len \in Nat
                       /\ l.text \in Texts
                       /\ l.len > 0 /\ l.len = LineLength(l.text)
                       /\ buffer <= l.addr /\ l.addr + l.len <= BufferTop
  BY RecordFacts
<1>3. /\ \A l \in lines : NewNumber(l) \in Nat
      /\ \A l, m \in lines : l.addr < m.addr => NewNumber(l) < NewNumber(m)
  BY NewNumbers
<1>4. \A l \in lines : /\ ren(l).addr = l.addr /\ ren(l).len = l.len
                       /\ ren(l).text = l.text /\ ren(l).num = NewNumber(l)
                       /\ ren(l) \in Line
  BY <1>2, <1>3 DEF Line
<1> HIDE DEF ren
<1>5. lines' \subseteq Line
  BY <1>1, <1>4
<1>6. IsFiniteSet(lines')
  <2> DEFINE f == [l \in lines |-> ren(l)]
  <2>1. f \in Surjection(lines, lines')
    BY <1>1 DEF Surjection
  <2>2. IsFiniteSet(lines)
    BY DEF TypeOK
  <2> QED BY <2>1, <2>2, FS_Surjection
<1>7. InBuffer'
  <2>1. buffer' <= BufferTop
    BY <1>1 DEF Layout, InBuffer
  <2>2. \A l \in lines : LET x == ren(l)
                         IN x.len = LineLength(x.text) /\ buffer' <= x.addr
                            /\ x.addr + x.len <= BufferTop
    BY <1>1, <1>2, <1>4
  <2> QED BY <1>1, <2>1, <2>2 DEF InBuffer
<1>8. Ordered'
  <2> DEFINE Apart(x, y) == \/ x = y
                            \/ x.addr + x.len <= y.addr /\ x.num < y.num
                            \/ y.addr + y.len <= x.addr /\ y.num < x.num
  <2>1. \A l, m \in lines : Apart(ren(l), ren(m))
    <3> TAKE l, m \in lines
    <3>1. l = m \/ l.addr + l.len <= m.addr \/ m.addr + m.len <= l.addr
      BY DEF Layout, Ordered
    <3>2. l = m \/ l.addr < m.addr \/ m.addr < l.addr
      BY <1>2, <3>1
    <3> QED BY <1>2, <1>3, <1>4, <3>1, <3>2
  <2>2. \A x, y \in lines' : Apart(x, y)
    <3> HIDE DEF Apart
    <3> QED BY <1>1, <2>1
  <2> QED BY <2>2 DEF Ordered
<1>9. Packed'
  <2> DEFINE After(a) == a = BufferTop \/ \E l \in lines' : l.addr = a
  <2>1. \A a : IsBoundary(a) => After(a)
    <3>1. \A l \in lines : \E x \in lines' : x.addr = l.addr
      BY <1>1, <1>4
    <3> QED BY <3>1 DEF IsBoundary
  <2> HIDE DEF After
  <2>2. After(buffer')
    BY <1>1, <2>1 DEF Layout, Packed
  <2>3. \A l \in lines : After(ren(l).addr + ren(l).len)
    BY <1>4, <2>1 DEF Layout, Packed
  <2>4. \A x \in lines' : After(x.addr + x.len)
    BY <1>1, <2>3
  <2> QED BY <2>2, <2>4 DEF Packed, IsBoundary, After
<1>10. buffer' \in Nat /\ nextLow' \in Nat /\ HeapBelowBuffer'
  BY <1>1 DEF TypeOK, HeapBelowBuffer, DoRenum
<1> QED BY <1>5, <1>6, <1>7, <1>8, <1>9, <1>10 DEF Stored, Layout

\* BufNew, and the end of a process.
LEMMA EmptyStored ==
  ASSUME nextLow' \in Nat, HeapBelowBuffer', lines' = {}, buffer' = BufferTop
  PROVE  Stored'
<1>1. BufferTop \in Nat
  BY WorkspaceAssumption
<1>2. IsFiniteSet({})
  BY FS_EmptySet
<1> QED BY <1>1, <1>2 DEF Stored, Layout, InBuffer, Ordered, Packed, IsBoundary

LEMMA EmptyHeap ==
  ASSUME Stored, mode # "undefined", UNCHANGED nextLow, buffer' = BufferTop
  PROVE  nextLow' \in Nat /\ HeapBelowBuffer'
BY WorkspaceAssumption DEF HeapBelowBuffer, Stored, Layout, InBuffer

-----------------------------------------------------------------------------
(***************************************************************************)
(* The inductive invariant.  The layout alone is not inductive: an edit is *)
(* only known to stay above the compiler's memory, and so to be a place in *)
(* the workspace at all, while that memory lies below the buffer.          *)
(***************************************************************************)
IInv == TypeOK /\ Layout /\ HeapBelowBuffer /\ CursorOnLine

\* The part of TypeOK about the variables that are not the buffer.
Desk ==
  /\ currentLine \in Nat
  /\ mode \in Readers \cup {"idle", "load", "undefined"}
  /\ out \in Seq([num : Nat, text : Texts])
  /\ file \in Seq(Texts)
  /\ rest \in Seq(Texts)
  /\ number \in Nat
  /\ reply \in {"OK", "no line", "out of edit buffer space", "error"}

LEMMA Parts == IInv <=> Stored /\ Desk /\ CursorOnLine
BY DEF IInv, Stored, Desk, TypeOK

LEMMA PartsPrimed == IInv' <=> Stored' /\ Desk' /\ CursorOnLine'
BY DEF IInv, Stored, Desk, TypeOK

LEMMA InitIInv == Init => IInv
<1> SUFFICES ASSUME Init PROVE IInv
  OBVIOUS
<1>1. IsFiniteSet({})
  BY FS_EmptySet
<1>2. Desk
  BY WorkspaceAssumption, TextAssumption DEF Init, Desk, FirstNumber
<1>3. Stored
  BY <1>1, WorkspaceAssumption
     DEF Init, Stored, Layout, InBuffer, Ordered, Packed, IsBoundary, HeapBelowBuffer
<1>4. CursorOnLine
  BY DEF Init, CursorOnLine, Readers
<1> QED BY <1>2, <1>3, <1>4, Parts

LEMMA AppendType ==
  ASSUME NEW T, NEW s \in Seq(T), NEW x \in T
  PROVE  Append(s, x) \in Seq(T)
OBVIOUS

LEMMA HeadTailType ==
  ASSUME NEW T, NEW s \in Seq(T), s # <<>>
  PROVE  Head(s) \in T /\ Tail(s) \in Seq(T)
OBVIOUS

LEMMA EmptySeqType == ASSUME NEW T PROVE <<>> \in Seq(T)
OBVIOUS

\* A step that leaves the buffer and the heap alone keeps the records.
LEMMA SameStored ==
  ASSUME Stored, mode # "undefined" \/ UNCHANGED mode, UNCHANGED <<lines, buffer, nextLow>>
  PROVE  Stored'
BY DEF Stored, Layout, InBuffer, Ordered, Packed, IsBoundary, HeapBelowBuffer

\* Code that fits below the contexts stays below the buffer.
LEMMA StoreCodeStored ==
  ASSUME Stored, mode = "compile", StoreCode, UNCHANGED <<lines, buffer>>
  PROVE  nextLow' \in Nat /\ HeapBelowBuffer' /\ Stored'
<1>1. PICK s \in CodeSizes, t \in TreeSizes :
        nextLow + s + t + ContextSize <= buffer /\ nextLow' = nextLow + s
  BY DEF StoreCode
<1>2. s \in Nat /\ t \in Nat /\ ContextSize \in Nat /\ FreeSpace \in Nat
  BY CompilerAssumption, WorkspaceAssumption
<1>3. nextLow' \in Nat /\ HeapBelowBuffer'
  BY <1>1, <1>2 DEF HeapBelowBuffer, Stored
<1> QED BY <1>3 DEF Stored, Layout, InBuffer, Ordered, Packed, IsBoundary

\* While no loop reads, the cursor does not matter.
LEMMA NoReader == ASSUME mode' \notin Readers PROVE CursorOnLine'
BY DEF CursorOnLine

LEMMA StepIInv == IInv /\ [Next]_vars => IInv'
<1> SUFFICES ASSUME IInv, [Next]_vars PROVE IInv'
  OBVIOUS
<1>0. Stored /\ Desk /\ CursorOnLine /\ TypeOK /\ Layout /\ HeapBelowBuffer
  BY Parts DEF IInv
<1>1. ASSUME NEW n \in Numbers, NEW t \in Texts, EnterLine(n, t) PROVE IInv'
  <2>1. n \in Nat
    BY TextAssumption
  <2>2. Stored'
    <3>1. CASE Fits(n, t)
      BY <1>0, <1>1, <2>1, <3>1, PutLineStored DEF EnterLine
    <3>2. CASE ~Fits(n, t)
      BY <1>0, <1>1, <3>2, SameStored DEF EnterLine, bufVars
    <3> QED BY <3>1, <3>2
  <2>3. Desk'
    BY <1>0, <1>1 DEF Desk, EnterLine, fileVars
  <2>4. CursorOnLine'
    BY <1>1, NoReader DEF EnterLine, Readers
  <2> QED BY <2>2, <2>3, <2>4, PartsPrimed
<1>2. ASSUME NEW n \in Numbers, DeleteLine(n) PROVE IInv'
  <2>1. n \in Nat
    BY TextAssumption
  <2>2. Stored'
    <3>1. CASE Found(n) # {}
      BY <1>0, <1>2, <2>1, <3>1, RemoveLineStored DEF DeleteLine
    <3>2. CASE Found(n) = {}
      BY <1>0, <1>2, <3>2, SameStored DEF DeleteLine, bufVars
    <3> QED BY <3>1, <3>2
  <2>3. Desk'
    BY <1>0, <1>2 DEF Desk, DeleteLine, fileVars
  <2>4. CursorOnLine'
    BY <1>2, NoReader DEF DeleteLine, Readers
  <2> QED BY <2>2, <2>3, <2>4, PartsPrimed
<1>3. CASE DoNew
  <2>1. Stored'
    BY <1>0, <1>3, EmptyStored, EmptyHeap DEF DoNew, BufNew
  <2>2. Desk'
    BY <1>0, <1>3, WorkspaceAssumption DEF Desk, DoNew, BufNew, fileVars
  <2>3. CursorOnLine'
    BY <1>3, NoReader DEF DoNew, Readers
  <2> QED BY <2>1, <2>2, <2>3, PartsPrimed
<1>4. CASE DoRenum
  <2>1. Stored'
    BY <1>0, <1>4, RenumStored
  <2>2. Desk'
    BY <1>0, <1>4 DEF Desk, DoRenum, fileVars
  <2>3. CursorOnLine'
    BY <1>4, NoReader DEF DoRenum, Readers
  <2> QED BY <2>1, <2>2, <2>3, PartsPrimed
<1>5. ASSUME NEW cmd \in Readers, StartReading(cmd) PROVE IInv'
  <2>1. Stored'
    BY <1>0, <1>5, WorkspaceAssumption
       DEF StartReading, Stored, HeapBelowBuffer, Layout, InBuffer, Ordered, Packed, IsBoundary
  <2>2. Desk'
    <3>1. file' \in Seq(Texts)
      BY <1>0, <1>5, EmptySeqType DEF Desk, StartReading
    <3>2. currentLine' \in Nat /\ mode' \in Readers
      BY <1>0, <1>5 DEF Stored, StartReading
    <3> QED BY <1>0, <1>5, <3>1, <3>2 DEF Desk, StartReading
  <2>3. CursorOnLine'
    BY <1>0, <1>5 DEF CursorOnLine, StartReading, Layout, Packed, IsBoundary
  <2> QED BY <2>1, <2>2, <2>3, PartsPrimed
<1>6. CASE ReadLine
  <2>1. PICK l \in lines :
           /\ l.addr = currentLine
           /\ out' = Append(out, [num |-> l.num, text |-> l.text])
           /\ file' = IF mode = "save" THEN Append(file, l.text) ELSE file
           /\ currentLine' = currentLine + l.len
    BY <1>6 DEF ReadLine
  <2>2. l.len \in Nat /\ l.num \in Nat /\ l.text \in Texts /\ IsBoundary(l.addr + l.len)
    BY <1>0, RecordFacts DEF Layout, Packed
  <2>3. UNCHANGED <<lines, buffer, mode, rest, number, reply>>
    BY <1>6 DEF ReadLine
  <2>4. nextLow' \in Nat /\ HeapBelowBuffer'
    <3>1. CASE mode = "compile"
      BY <1>0, <1>6, <2>3, <3>1, StoreCodeStored DEF ReadLine
    <3>2. CASE mode # "compile"
      BY <1>0, <1>6, <3>2 DEF ReadLine, HeapBelowBuffer, Stored, Readers
    <3> QED BY <3>1, <3>2
  <2>5. Stored'
    BY <1>0, <2>3, <2>4 DEF Stored, Layout, InBuffer, Ordered, Packed, IsBoundary
  <2>6. Desk'
    <3>1. [num |-> l.num, text |-> l.text] \in [num : Nat, text : Texts]
      BY <2>2
    <3>2. out' \in Seq([num : Nat, text : Texts])
      <4>1. out \in Seq([num : Nat, text : Texts])
        BY <1>0 DEF Desk
      <4> QED BY <2>1, <3>1, <4>1, AppendType
    <3>3. file' \in Seq(Texts)
      <4>1. file \in Seq(Texts)
        BY <1>0 DEF Desk
      <4>2. Append(file, l.text) \in Seq(Texts)
        BY <2>2, <4>1, AppendType
      <4> QED BY <2>1, <4>1, <4>2
    <3>4. currentLine' \in Nat
      <4>1. currentLine \in Nat
        BY <1>0 DEF Desk
      <4> QED BY <2>1, <2>2, <4>1
    <3> QED BY <1>0, <2>3, <3>2, <3>3, <3>4 DEF Desk
  <2>7. CursorOnLine'
    BY <2>1, <2>2, <2>3 DEF CursorOnLine, IsBoundary
  <2> QED BY <2>5, <2>6, <2>7, PartsPrimed
<1>7. CASE StopReading
  <2>1. Stored'
    <3>1. CASE mode = "compile" /\ StoreCode
      BY <1>0, <1>7, <3>1, StoreCodeStored DEF StopReading
    <3>2. CASE UNCHANGED nextLow
      BY <1>0, <1>7, <3>2, SameStored DEF StopReading, Readers
    <3> QED BY <1>7, <3>1, <3>2 DEF StopReading
  <2>2. Desk'
    <3>1. out' \in Seq([num : Nat, text : Texts])
      BY <1>7, EmptySeqType DEF StopReading
    <3> QED BY <1>0, <1>7, <3>1 DEF Desk, StopReading, fileVars
  <2>3. CursorOnLine'
    BY <1>7, NoReader DEF StopReading, Readers
  <2> QED BY <2>1, <2>2, <2>3, PartsPrimed
<1>8. CASE StartLoad
  <2>1. Stored'
    BY <1>0, <1>8, EmptyStored, EmptyHeap DEF StartLoad, BufNew
  <2>2. Desk'
    BY <1>0, <1>8, WorkspaceAssumption DEF Desk, StartLoad, BufNew, FirstNumber
  <2>3. CursorOnLine'
    BY <1>8, NoReader DEF StartLoad, Readers
  <2> QED BY <2>1, <2>2, <2>3, PartsPrimed
<1>9. CASE LoadLine
  <2>1. number \in Nat /\ Head(rest) \in Texts /\ Tail(rest) \in Seq(Texts)
    <3>1. number \in Nat /\ rest \in Seq(Texts) /\ rest # <<>>
      BY <1>0, <1>9 DEF Desk, LoadLine
    <3> QED BY <3>1, HeadTailType
  <2>2. Stored'
    <3>1. CASE Fits(number, Head(rest))
      BY <1>0, <1>9, <2>1, <3>1, PutLineStored DEF LoadLine
    <3>2. CASE ~Fits(number, Head(rest))
      BY <1>0, <1>9, <3>2, SameStored DEF LoadLine, bufVars
    <3> QED BY <3>1, <3>2
  <2>3. Desk'
    <3>1. number' \in Nat /\ rest' \in Seq(Texts)
      BY <1>9, <2>1 DEF LoadLine, Increment
    <3> QED BY <1>0, <1>9, <3>1 DEF Desk, LoadLine
  <2>4. CursorOnLine'
    BY <1>9, NoReader DEF LoadLine, Readers
  <2> QED BY <2>2, <2>3, <2>4, PartsPrimed
<1>10. CASE StopLoad
  <2>1. Stored'
    BY <1>0, <1>10, SameStored DEF StopLoad
  <2>2. Desk'
    BY <1>0, <1>10 DEF Desk, StopLoad, FirstNumber
  <2>3. CursorOnLine'
    BY <1>10, NoReader DEF StopLoad, Readers
  <2> QED BY <2>1, <2>2, <2>3, PartsPrimed
<1>11. CASE OpenFails
  <2>1. Stored'
    BY <1>0, <1>11, SameStored DEF OpenFails
  <2>2. Desk'
    BY <1>0, <1>11 DEF Desk, OpenFails, fileVars
  <2>3. CursorOnLine'
    BY <1>11, NoReader DEF OpenFails, Readers
  <2> QED BY <2>1, <2>2, <2>3, PartsPrimed
<1>12. CASE UNCHANGED vars
  <2>1. Stored'
    BY <1>0, <1>12, SameStored DEF vars
  <2>2. Desk' /\ CursorOnLine'
    BY <1>0, <1>12 DEF vars, Desk, CursorOnLine, IsBoundary
  <2> QED BY <2>1, <2>2, PartsPrimed
<1>13. CASE NoRoomToCompile \/ Overrun
  <2>1. nextLow' \in Nat /\ FreeSpace <= nextLow'
    <3>1. CASE NoRoomToCompile
      BY <3>1, WorkspaceAssumption DEF NoRoomToCompile
    <3>2. CASE Overrun
      <4>1. PICK s \in CodeSizes : nextLow' = nextLow + s
        BY <3>2 DEF Overrun
      <4>2. s \in Nat
        BY CompilerAssumption
      <4> QED BY <1>0, <4>1, <4>2, WorkspaceAssumption DEF HeapBelowBuffer, Stored
    <3> QED BY <1>13, <3>1, <3>2
  <2>2. Undefined
    BY <1>13 DEF NoRoomToCompile, Overrun
  <2>3. Stored'
    BY <2>1, <2>2, EmptyStored DEF Undefined, BufNew, HeapBelowBuffer
  <2>4. Desk'
    BY <1>0, <2>2, WorkspaceAssumption, EmptySeqType DEF Desk, Undefined, BufNew, fileVars
  <2>5. CursorOnLine'
    BY <2>2, NoReader DEF Undefined, Readers
  <2> QED BY <2>3, <2>4, <2>5, PartsPrimed
<1>14. CASE Restart
  <2>1. Stored'
    BY <1>14, EmptyStored, WorkspaceAssumption DEF Restart, BufNew, HeapBelowBuffer
  <2>2. Desk'
    BY <1>0, <1>14, WorkspaceAssumption, EmptySeqType DEF Desk, Restart, BufNew, FirstNumber
  <2>3. CursorOnLine'
    BY <1>14, NoReader DEF Restart, Readers
  <2> QED BY <2>1, <2>2, <2>3, PartsPrimed
<1> QED
  BY <1>1, <1>2, <1>3, <1>4, <1>5, <1>6, <1>7, <1>8, <1>9, <1>10, <1>11, <1>12, <1>13, <1>14
     DEF Next

(***************************************************************************)
(* The inductive invariant holds of every behaviour of the editor, in any  *)
(* workspace and for any lines: types, layout, cursor and heap bound.      *)
(***************************************************************************)
THEOREM Invariance == Spec => []IInv
BY InitIInv, StepIInv, PTL DEF Spec

(***************************************************************************)
(* Every variable of the editor keeps its type.                            *)
(***************************************************************************)
THEOREM TypeCorrect == Spec => []TypeOK
<1>1. IInv => TypeOK
  BY DEF IInv
<1> QED BY <1>1, Invariance, PTL

(***************************************************************************)
(* The records tile the buffer in the order of their numbers after any     *)
(* sequence of edits, loads and renumberings (edit.c, BufAddLineN,         *)
(* BufDeleteLineN, DoRenum): the walks by record length are right.         *)
(***************************************************************************)
THEOREM LayoutCorrect == Spec => []Layout
<1>1. IInv => Layout
  BY DEF IInv
<1> QED BY <1>1, Invariance, PTL

(***************************************************************************)
(* The loops of LIST, SAVE and the compiler read at record boundaries only *)
(* (edit.c, BufGetLine).                                                   *)
(***************************************************************************)
THEOREM CursorCorrect == Spec => []CursorOnLine
<1>1. IInv => CursorOnLine
  BY DEF IInv
<1> QED BY <1>1, Invariance, PTL

(***************************************************************************)
(* The space check of BufAddLineN keeps the program above the memory the   *)
(* last compilation took, whatever is edited, loaded or renumbered in      *)
(* between (edit.c, BufAddLineN and compileProgram).  It is no bound on    *)
(* what the generator stores: code that passes the contexts ends what can  *)
(* be said, in mode "undefined".                                           *)
(***************************************************************************)
THEOREM EditsSpareHeap == Spec => []HeapBelowBuffer
<1>1. IInv => HeapBelowBuffer
  BY DEF IInv
<1> QED BY <1>1, Invariance, PTL

-----------------------------------------------------------------------------
(***************************************************************************)
(* The edit buffer as its user sees it: what the loops over the lines      *)
(* deliver, what LOAD builds, and that the packed records implement the    *)
(* map of module ProgramText.                                              *)
(***************************************************************************)

(***************************************************************************)
(* What the loops have done so far.  ReadInOrder and LoadPlacesLines are   *)
(* not inductive without it: a loop starts with nothing read, and LOAD's   *)
(* counter and the lines left to read say together how far it has come.    *)
(***************************************************************************)
NothingRead == mode \notin Readers => out = <<>>

LoadUnderWay ==
  mode = "load" =>
    /\ Len(rest) <= Len(file)
    /\ number = FirstNumber + Increment * (Len(file) - Len(rest))
    /\ \A i \in 1..Len(rest) : rest[i] = file[Len(file) - Len(rest) + i]

Reading == NothingRead /\ ReadInOrder
Loading == LoadUnderWay /\ LoadPlacesLines

Progress == IInv /\ Reading /\ Loading

-----------------------------------------------------------------------------
\* What LIST prints of a record.
Shown(l) == [num |-> l.num, text |-> l.text]

\* Records are told apart by their numbers and by their places.
LEMMA OneRecordEach ==
  ASSUME TypeOK, Layout
  PROVE  \A l, m \in lines : /\ l.num = m.num => l = m
                             /\ l.addr = m.addr => l = m
                             /\ l.addr < m.addr <=> l.num < m.num
                             /\ l.addr < m.addr => l.addr + l.len <= m.addr
<1> TAKE l, m \in lines
<1>1. /\ l.addr \in Nat /\ l.num \in Nat /\ l.len \in Nat /\ l.len > 0
      /\ m.addr \in Nat /\ m.num \in Nat /\ m.len \in Nat /\ m.len > 0
  BY RecordFacts
<1>2. \/ l = m
      \/ l.addr + l.len <= m.addr /\ l.num < m.num
      \/ m.addr + m.len <= l.addr /\ m.num < l.num
  BY DEF Layout, Ordered
<1> QED BY <1>1, <1>2

\* The cursor moves over exactly one record.
LEMMA ReadOne ==
  ASSUME TypeOK, Layout, NEW l \in lines, l.addr = currentLine
  PROVE  {m \in lines : m.addr < currentLine + l.len} =
           {m \in lines : m.addr < currentLine} \cup {l}
<1>1. l.addr \in Nat /\ l.len \in Nat /\ l.len > 0
  BY RecordFacts
<1>2. \A m \in lines : m.addr \in Nat
  BY RecordFacts
<1>3. ASSUME NEW m \in lines
      PROVE  m.addr < currentLine + l.len <=> m.addr < currentLine \/ m = l
  BY <1>1, <1>2, OneRecordEach
<1> QED BY <1>3

(***************************************************************************)
(* One line read: it comes after those read before, and what has been read *)
(* is what lies below the cursor.                                          *)
(***************************************************************************)
LEMMA ReadLineInOrder ==
  ASSUME IInv, ReadInOrder, ReadLine
  PROVE  ReadInOrder'
<1>1. TypeOK /\ Layout /\ mode \in Readers
  BY DEF IInv, ReadLine
<1>2. PICK l \in lines : /\ l.addr = currentLine
                         /\ out' = Append(out, Shown(l))
                         /\ currentLine' = currentLine + l.len
  BY DEF ReadLine, Shown
<1>3. mode' = mode /\ lines' = lines
  BY DEF ReadLine
<1>4. out \in Seq([num : Nat, text : Texts])
  BY <1>1 DEF TypeOK
<1> DEFINE n == Len(out)
           read == {m \in lines : m.addr < currentLine}
<1>5. /\ \A i, j \in 1..n : i < j => out[i].num < out[j].num
      /\ {out[i] : i \in 1..n} = {Shown(m) : m \in read}
  <2>1. DOMAIN out = 1..n
    BY <1>4
  <2> HIDE DEF n
  <2> QED BY <1>1, <2>1 DEF ReadInOrder, Shown
<1>6. /\ n \in Nat /\ DOMAIN out' = 1..(n + 1) /\ out'[n + 1] = Shown(l)
      /\ \A i \in 1..n : out'[i] = out[i]
  BY <1>2, <1>4
<1>7. \A i \in 1..n : out[i].num < l.num
  <2> TAKE i \in 1..n
  <2>1. PICK m \in read : out[i] = Shown(m)
    BY <1>5
  <2>2. m.num < l.num
    BY <1>1, <1>2, OneRecordEach
  <2> QED BY <2>1, <2>2 DEF Shown
<1> HIDE DEF n, read
<1>8. \A i, j \in DOMAIN out' : i < j => out'[i].num < out'[j].num
  <2> SUFFICES ASSUME NEW i \in 1..(n + 1), NEW j \in 1..(n + 1), i < j
               PROVE  out'[i].num < out'[j].num
    BY <1>6
  <2>1. i \in 1..n /\ (j \in 1..n \/ j = n + 1)
    BY <1>6
  <2>2. out'[n + 1].num = l.num
    BY <1>6 DEF Shown
  <2> QED BY <1>5, <1>6, <1>7, <2>1, <2>2
<1>9. {out'[i] : i \in DOMAIN out'} = {Shown(m) : m \in read \cup {l}}
  <2>1. 1..(n + 1) = 1..n \cup {n + 1}
    BY <1>6
  <2>2. {out'[i] : i \in 1..(n + 1)} = {out'[i] : i \in 1..n} \cup {Shown(l)}
    BY <1>6, <2>1
  <2>3. {out'[i] : i \in 1..n} = {out[i] : i \in 1..n}
    BY <1>6
  <2>4. {Shown(m) : m \in read \cup {l}} = {Shown(m) : m \in read} \cup {Shown(l)}
    OBVIOUS
  <2> QED BY <1>5, <1>6, <2>2, <2>3, <2>4
<1>10. {m \in lines' : m.addr < currentLine'} = read \cup {l}
  BY <1>1, <1>2, <1>3, ReadOne DEF read
<1> QED BY <1>8, <1>9, <1>10 DEF ReadInOrder, Shown

LEMMA StepReading ==
  ASSUME Progress, [Next]_vars
  PROVE  Reading'
<1> USE DEF Reading, Progress
<1>1. TypeOK /\ Layout /\ IInv
  BY DEF IInv
\* A command that is not a loop over the lines, or the end of one.
<1>2. ASSUME mode' \notin Readers, out' = <<>> PROVE Reading'
  BY <1>2 DEF NothingRead, ReadInOrder
<1>3. ASSUME mode \notin Readers, UNCHANGED <<mode, out>> PROVE Reading'
  BY <1>2, <1>3 DEF NothingRead
<1>4. CASE \E n \in Numbers, t \in Texts : EnterLine(n, t)
  BY <1>3, <1>4 DEF EnterLine, Readers
<1>5. CASE \E n \in Numbers : DeleteLine(n)
  BY <1>3, <1>5 DEF DeleteLine, Readers
<1>6. CASE DoNew
  BY <1>3, <1>6 DEF DoNew, Readers
<1>7. CASE DoRenum
  BY <1>3, <1>7 DEF DoRenum, Readers
<1>8. CASE \E cmd \in Readers : StartReading(cmd)
  <2>1. PICK cmd \in Readers : StartReading(cmd)
    BY <1>8
  <2>2. /\ mode' \in Readers /\ out' = <<>>
        /\ lines' = lines /\ currentLine' = buffer
    BY <2>1 DEF StartReading, NothingRead, Readers
  <2>3. \A l \in lines : ~(l.addr < buffer)
    <3>1. \A l \in lines : l.addr \in Nat /\ buffer <= l.addr
      BY <1>1, RecordFacts
    <3>2. buffer \in Nat
      BY <1>1 DEF TypeOK
    <3> QED BY <3>1, <3>2
  <2>4. {m \in lines' : m.addr < currentLine'} = {}
    BY <2>2, <2>3
  <2>5. DOMAIN out' = {}
    BY <2>2
  <2> QED BY <2>2, <2>4, <2>5 DEF NothingRead, ReadInOrder
<1>9. CASE ReadLine
  <2>1. ReadInOrder'
    BY <1>1, <1>9, ReadLineInOrder
  <2> QED BY <1>9, <2>1 DEF ReadLine, NothingRead
<1>10. CASE StopReading
  BY <1>2, <1>10 DEF StopReading, Readers
<1>11. CASE StartLoad
  BY <1>2, <1>11 DEF StartLoad, Readers, NothingRead
<1>12. CASE LoadLine
  BY <1>3, <1>12 DEF LoadLine, Readers
<1>13. CASE StopLoad
  BY <1>2, <1>13 DEF StopLoad, Readers, NothingRead
<1>14. CASE OpenFails
  BY <1>3, <1>14 DEF OpenFails, Readers
<1>15. CASE UNCHANGED vars
  BY <1>15 DEF vars, NothingRead, ReadInOrder
<1>16. CASE NoRoomToCompile \/ Overrun \/ Restart
  BY <1>2, <1>16 DEF NoRoomToCompile, Overrun, Undefined, Restart, Readers
<1> QED
  BY <1>4, <1>5, <1>6, <1>7, <1>8, <1>9, <1>10, <1>11, <1>12, <1>13, <1>14, <1>15, <1>16
     DEF Next

-----------------------------------------------------------------------------
(***************************************************************************)
(* LOAD: the line it has just read, stored or dropped, is the line of the  *)
(* file its counter stands for, and the lines stored before stay.          *)
(***************************************************************************)
\* What BufAddLineN does to the lines of the program, wherever they are.
LEMMA PutLineEntries ==
  ASSUME TypeOK, Layout, NEW n \in Nat, NEW t \in Texts, PutLine(n, t)
  PROVE  /\ \A x \in lines' : \/ x.num = n /\ x.text = t
                              \/ \E l \in lines : l.num # n /\ x.num = l.num
                                                           /\ x.text = l.text
         /\ \A l \in lines : l.num # n => \E x \in lines' : x.num = l.num
                                                           /\ x.text = l.text
         /\ \E x \in lines' : x.num = n /\ x.text = t
<1> DEFINE at == FindLineN(n)
           by == SpaceNeeded(n, t)
           new == [addr |-> at - by, num |-> n, len |-> LineLength(t), text |-> t]
           old == lines \ Found(n)
<1>1. lines' = {Slide(l, at, by) : l \in old} \cup {new}
  BY DEF PutLine
<1>2. at \in Nat /\ by \in Int /\ \A l \in lines : l.num = n <=> l \in Found(n)
  BY FindLineStops, SpaceFacts DEF StopsAt
<1>3. \A l \in lines : l \in Line
  BY RecordFacts
<1>4. \A l \in lines : Slide(l, at, by).num = l.num /\ Slide(l, at, by).text = l.text
  BY <1>2, <1>3, SlideFields
<1>5. new.num = n /\ new.text = t
  OBVIOUS
<1> HIDE DEF at, by, new
<1>6. \A l \in lines : l \in old <=> l.num # n
  BY <1>2
<1> QED BY <1>1, <1>4, <1>5, <1>6

LEMMA LoadLineProgress ==
  ASSUME IInv, Loading, LoadLine
  PROVE  Loading'
<1>1. /\ TypeOK /\ Layout /\ mode = "load" /\ mode' = "load"
      /\ file \in Seq(Texts) /\ rest \in Seq(Texts) /\ rest # <<>> /\ number \in Nat
      /\ file' = file /\ rest' = Tail(rest) /\ number' = number + Increment
  BY DEF IInv, TypeOK, LoadLine
<1> DEFINE read == Len(file) - Len(rest)
           t    == Head(rest)
<1>2. /\ Len(rest) \in Nat /\ Len(file) \in Nat /\ Len(rest) > 0
      /\ Len(rest') = Len(rest) - 1 /\ rest' \in Seq(Texts)
      /\ \A i \in 1..Len(rest') : rest'[i] = rest[i + 1]
      /\ t = rest[1] /\ t \in Texts
  BY <1>1
<1>3. /\ Len(rest) <= Len(file)
      /\ number = FirstNumber + Increment * read
      /\ \A i \in 1..Len(rest) : rest[i] = file[read + i]
      /\ \A l \in lines : \E i \in 1..read :
           l.num = FirstNumber + Increment * (i - 1) /\ l.text = file[i]
  BY <1>1 DEF Loading, LoadUnderWay, LoadPlacesLines
<1>4. t = file[read + 1]
  BY <1>2, <1>3
<1>5. read \in Nat /\ Len(file') - Len(rest') = read + 1
  BY <1>1, <1>2, <1>3
<1> HIDE DEF read, t
<1>6. LoadUnderWay'
  <2>1. \A i \in 1..Len(rest') : rest'[i] = file'[(read + 1) + i]
    <3> TAKE i \in 1..Len(rest')
    <3>1. i + 1 \in 1..Len(rest)
      BY <1>2
    <3>2. rest'[i] = file[read + (i + 1)]
      BY <1>2, <1>3, <3>1
    <3>3. read + (i + 1) = (read + 1) + i
      BY <1>5
    <3> QED BY <1>1, <3>2, <3>3
  <2>2. number' = FirstNumber + Increment * (read + 1)
    BY <1>1, <1>3, <1>5 DEF FirstNumber, Increment
  <2>3. Len(rest') <= Len(file')
    BY <1>1, <1>2, <1>3
  <2> QED BY <1>5, <2>1, <2>2, <2>3 DEF LoadUnderWay
<1>7. LoadPlacesLines'
  <2>1. SUFFICES ASSUME NEW x \in lines'
                 PROVE  \E i \in 1..(read + 1) :
                          x.num = FirstNumber + Increment * (i - 1) /\ x.text = file[i]
    BY <1>1, <1>5 DEF LoadPlacesLines
  <2>2. \/ x.num = number /\ x.text = t
        \/ \E l \in lines : x.num = l.num /\ x.text = l.text
    <3>1. CASE Fits(number, Head(rest))
      BY <1>1, <1>2, <3>1, PutLineEntries DEF LoadLine, t
    <3>2. CASE ~Fits(number, Head(rest))
      BY <1>1, <3>2 DEF LoadLine, bufVars
    <3> QED BY <3>1, <3>2
  <2>3. CASE x.num = number /\ x.text = t
    <3>1. read + 1 \in 1..(read + 1) /\ (read + 1) - 1 = read
      BY <1>5
    <3> QED BY <1>3, <1>4, <2>3, <3>1
  <2>4. CASE \E l \in lines : x.num = l.num /\ x.text = l.text
    <3>1. PICK i \in 1..read : x.num = FirstNumber + Increment * (i - 1) /\ x.text = file[i]
      BY <1>3, <2>4
    <3>2. i \in 1..(read + 1)
      BY <1>5
    <3> QED BY <3>1, <3>2
  <2> QED BY <2>2, <2>3, <2>4
<1> QED BY <1>6, <1>7 DEF Loading

LEMMA StepLoading ==
  ASSUME Progress, [Next]_vars
  PROVE  Loading'
<1>1. IInv /\ Loading
  BY DEF Progress
<1>2. ASSUME mode' # "load" PROVE Loading'
  BY <1>2 DEF Loading, LoadUnderWay, LoadPlacesLines
<1>3. CASE \E n \in Numbers, t \in Texts : EnterLine(n, t)
  BY <1>2, <1>3 DEF EnterLine
<1>4. CASE \E n \in Numbers : DeleteLine(n)
  BY <1>2, <1>4 DEF DeleteLine
<1>5. CASE DoNew \/ DoRenum \/ OpenFails
  BY <1>2, <1>5 DEF DoNew, DoRenum, OpenFails
<1>6. CASE \E cmd \in Readers : StartReading(cmd)
  BY <1>2, <1>6 DEF StartReading, Readers
<1>7. CASE ReadLine
  BY <1>2, <1>7 DEF ReadLine, Readers
<1>8. CASE StopReading
  BY <1>2, <1>8 DEF StopReading
<1>9. CASE StartLoad
  <2>1. /\ lines' = {} /\ file' = file /\ rest' = file /\ number' = FirstNumber
        /\ file \in Seq(Texts)
    BY <1>1, <1>9 DEF StartLoad, BufNew, IInv, TypeOK
  <2>2. Len(file) \in Nat /\ Len(file) - Len(file) = 0
    BY <2>1
  <2>3. number' = FirstNumber + Increment * 0
    BY <2>1 DEF FirstNumber, Increment
  <2>4. \A i \in 1..Len(file) : 0 + i = i
    BY <2>2
  <2> QED BY <2>1, <2>2, <2>3, <2>4 DEF Loading, LoadUnderWay, LoadPlacesLines
<1>10. CASE LoadLine
  BY <1>1, <1>10, LoadLineProgress
<1>11. CASE StopLoad
  BY <1>2, <1>11 DEF StopLoad
<1>12. CASE UNCHANGED vars
  BY <1>1, <1>12 DEF vars, Loading, LoadUnderWay, LoadPlacesLines
<1>13. CASE NoRoomToCompile \/ Overrun \/ Restart
  BY <1>2, <1>13 DEF NoRoomToCompile, Overrun, Undefined, Restart
<1> QED
  BY <1>3, <1>4, <1>5, <1>6, <1>7, <1>8, <1>9, <1>10, <1>11, <1>12, <1>13 DEF Next

LEMMA InitProgress == Init => Progress
<1> SUFFICES ASSUME Init PROVE Progress
  OBVIOUS
<1>1. IInv
  BY InitIInv
<1>2. Reading
  BY DEF Init, Reading, NothingRead, ReadInOrder, Readers
<1>3. Loading
  BY DEF Init, Loading, LoadUnderWay, LoadPlacesLines
<1> QED BY <1>1, <1>2, <1>3 DEF Progress

LEMMA StepProgress == Progress /\ [Next]_vars => Progress'
BY StepIInv, StepReading, StepLoading DEF Progress

THEOREM ProgressInvariant == Spec => []Progress
BY InitProgress, StepProgress, PTL DEF Spec

(***************************************************************************)
(* BufGetLine hands LIST, SAVE and the compiler every line below the       *)
(* cursor once, in increasing order (edit.c, BufGetLine, DoList, DoSave).  *)
(***************************************************************************)
THEOREM ReadsInOrder == Spec => []ReadInOrder
<1>1. Progress => ReadInOrder
  BY DEF Progress, Reading
<1> QED BY <1>1, ProgressInvariant, PTL

(***************************************************************************)
(* DoLoad puts the i-th line of the file at 100 + 10 * (i - 1) or drops    *)
(* it, and never a line of the file anywhere else (edit.c, DoLoad).        *)
(***************************************************************************)
THEOREM LoadsAtPlace == Spec => []LoadPlacesLines
<1>1. Progress => LoadPlacesLines
  BY DEF Progress, Loading
<1> QED BY <1>1, ProgressInvariant, PTL

-----------------------------------------------------------------------------
(***************************************************************************)
(* The refinement.  First what the program is that a set of records with   *)
(* one record for each number stands for.                                  *)
(***************************************************************************)
OneEach == \A l, m \in lines : l.num = m.num => l = m

Numbered == {l.num : l \in lines}

\* A function is the program when it has the numbers as its domain and gives
\* each record its text.
LEMMA ProgramIs ==
  ASSUME OneEach, NEW P, NEW D, P = [n \in D |-> P[n]], D = Numbered,
         \A l \in lines : P[l.num] = l.text
  PROVE  Program = P
<1>1. \A n \in D : (CHOOSE l \in lines : l.num = n).text = P[n]
  <2> TAKE n \in D
  <2>1. PICK l \in lines : l.num = n
    BY DEF Numbered
  <2>2. (CHOOSE k \in lines : k.num = n) = l
    BY <2>1 DEF OneEach
  <2> QED BY <2>1, <2>2
<1>2. Program = [n \in D |-> (CHOOSE l \in lines : l.num = n).text]
  BY DEF Program, Numbered
<1>3. Program = [n \in D |-> P[n]]
  BY <1>1, <1>2
<1> QED BY <1>3

LEMMA ProgramEntries ==
  OneEach => /\ Program = [n \in Numbered |-> Program[n]]
             /\ DOMAIN Program = Numbered
             /\ \A l \in lines : Program[l.num] = l.text
<1> SUFFICES ASSUME OneEach
             PROVE  /\ Program = [n \in Numbered |-> Program[n]]
                    /\ DOMAIN Program = Numbered
                    /\ \A l \in lines : Program[l.num] = l.text
  OBVIOUS
<1>1. Program = [n \in Numbered |-> (CHOOSE l \in lines : l.num = n).text]
  BY DEF Program, Numbered
<1>2. \A l \in lines : Program[l.num] = l.text
  <2> TAKE l \in lines
  <2>1. l.num \in Numbered
    BY DEF Numbered
  <2>2. (CHOOSE k \in lines : k.num = l.num) = l
    BY DEF OneEach
  <2> QED BY <1>1, <2>1, <2>2
<1> QED BY <1>1, <1>2

LEMMA InvOneEach == IInv => OneEach
BY OneRecordEach DEF IInv, OneEach

\* The same of the records after a step.
LEMMA ProgramIsPrimed ==
  ASSUME OneEach', NEW P, NEW D, P = [n \in D |-> P[n]], D = Numbered',
         \A l \in lines' : P[l.num] = l.text
  PROVE  Program' = P
<1>1. \A n \in D : (CHOOSE l \in lines' : l.num = n).text = P[n]
  <2> TAKE n \in D
  <2>1. PICK l \in lines' : l.num = n
    BY DEF Numbered
  <2>2. (CHOOSE k \in lines' : k.num = n) = l
    BY <2>1 DEF OneEach
  <2> QED BY <2>1, <2>2
<1>2. Program' = [n \in D |-> (CHOOSE l \in lines' : l.num = n).text]
  BY DEF Program, Numbered
<1>3. Program' = [n \in D |-> P[n]]
  BY <1>1, <1>2
<1> QED BY <1>3

LEMMA EmptyProgram == ASSUME lines = {} PROVE Program = Abstract!Empty
<1>1. OneEach /\ Numbered = {}
  BY DEF OneEach, Numbered
<1>2. Abstract!Empty = [n \in {} |-> Abstract!Empty[n]]
  BY DEF Abstract!Empty
<1> QED BY <1>1, <1>2, ProgramIs

LEMMA EmptyProgramPrimed == ASSUME lines' = {} PROVE Program' = Abstract!Empty
<1>1. OneEach' /\ Numbered' = {}
  BY DEF OneEach, Numbered
<1>2. Abstract!Empty = [n \in {} |-> Abstract!Empty[n]]
  BY DEF Abstract!Empty
<1> QED BY <1>1, <1>2, ProgramIsPrimed

LEMMA SameLinesSameProgram == ASSUME lines' = lines PROVE Program' = Program
BY DEF Program

(***************************************************************************)
(* BufAddLineN sets one entry of the map.                                  *)
(***************************************************************************)
LEMMA PutLineSets ==
  ASSUME IInv, OneEach', NEW n \in Nat, NEW t \in Texts, PutLine(n, t)
  PROVE  Abstract!Set(n, t)
<1> DEFINE D == DOMAIN Program \cup {n}
           P == [m \in D |-> IF m = n THEN t ELSE Program[m]]
<1>1. /\ DOMAIN Program = Numbered
      /\ \A l \in lines : Program[l.num] = l.text
  BY InvOneEach, ProgramEntries
<1>2. /\ \A x \in lines' : \/ x.num = n /\ x.text = t
                           \/ \E l \in lines : l.num # n /\ x.num = l.num
                                                        /\ x.text = l.text
      /\ \A l \in lines : l.num # n => \E x \in lines' : x.num = l.num
                                                        /\ x.text = l.text
      /\ \E x \in lines' : x.num = n /\ x.text = t
  BY PutLineEntries DEF IInv
<1>3. D = Numbered'
  BY <1>1, <1>2 DEF Numbered
<1>4. \A x \in lines' : P[x.num] = x.text
  <2> TAKE x \in lines'
  <2>1. x.num \in D
    BY <1>3 DEF Numbered
  <2>2. CASE x.num = n
    <3>1. x.text = t
      BY <1>2, <2>2
    <3> QED BY <2>1, <2>2, <3>1
  <2>3. CASE x.num # n
    <3>1. PICK l \in lines : x.num = l.num /\ x.text = l.text
      BY <1>2, <2>3
    <3> QED BY <1>1, <2>1, <2>3, <3>1
  <2> QED BY <2>2, <2>3
<1>5. P = [m \in D |-> P[m]]
  OBVIOUS
<1> HIDE DEF P, D
<1>6. Program' = P
  BY <1>3, <1>4, <1>5, ProgramIsPrimed
<1> QED BY <1>6 DEF Abstract!Set, P, D

(***************************************************************************)
(* BufDeleteLineN takes one entry out of the map.                          *)
(***************************************************************************)
LEMMA RemoveLineUnsets ==
  ASSUME IInv, OneEach', NEW n \in Nat, Found(n) # {}, RemoveLine(n)
  PROVE  Program' = [m \in DOMAIN Program \ {n} |-> Program[m]] /\ n \in DOMAIN Program
<1> DEFINE D   == DOMAIN Program \ {n}
           P   == [m \in D |-> Program[m]]
           at  == FindLineN(n)
           by  == (CHOOSE l \in Found(n) : TRUE).len
           old == lines \ Found(n)
<1>1. /\ DOMAIN Program = Numbered
      /\ \A l \in lines : Program[l.num] = l.text
  BY InvOneEach, ProgramEntries
<1>2. /\ at \in Nat
      /\ \A l \in lines : l.num = n <=> l \in Found(n)
  BY FindLineStops DEF IInv, StopsAt
<1>3. \A l \in lines : l \in Line /\ l.len \in Nat
  BY RecordFacts DEF IInv
<1>4. lines' = {Slide(l, at, -by) : l \in old}
  BY DEF RemoveLine
<1>5. -by \in Int
  <2>1. (CHOOSE l \in Found(n) : TRUE) \in lines
    BY DEF Found
  <2> QED BY <1>3, <2>1
<1> HIDE DEF by, at
<1>6. \A l \in old : Slide(l, at, -by).num = l.num /\ Slide(l, at, -by).text = l.text
  BY <1>2, <1>3, <1>5, SlideFields
<1>7. \A l \in lines : l \in old <=> l.num # n
  BY <1>2
<1>8. D = Numbered'
  <2>1. \A m : m \in Numbered' <=> \E l \in old : m = l.num
    BY <1>4, <1>6 DEF Numbered
  <2>2. \A m : m \in D <=> m \in Numbered /\ m # n
    BY <1>1
  <2>3. \A m : m \in Numbered <=> \E l \in lines : m = l.num
    BY DEF Numbered
  <2> HIDE DEF D
  <2>4. \A m : m \in D <=> m \in Numbered'
    BY <1>7, <2>1, <2>2, <2>3
  <2>5. \A S, T : (\A m : m \in S <=> m \in T) => S = T
    OBVIOUS
  <2> QED BY <2>4, <2>5
<1>9. \A x \in lines' : P[x.num] = x.text
  <2> TAKE x \in lines'
  <2>1. PICK l \in old : x = Slide(l, at, -by)
    BY <1>4
  <2>2. x.num = l.num /\ x.text = l.text /\ l.num # n
    BY <1>6, <1>7, <2>1
  <2> QED BY <1>1, <1>8, <2>2 DEF Numbered
<1>10. P = [m \in D |-> P[m]]
  OBVIOUS
<1>11. n \in DOMAIN Program
  <2>1. PICK l \in Found(n) : TRUE
    OBVIOUS
  <2>2. l \in lines /\ l.num = n
    BY <2>1 DEF Found
  <2> QED BY <1>1, <2>2 DEF Numbered
<1> HIDE DEF P, D
<1>12. Program' = P
  BY <1>8, <1>9, <1>10, ProgramIsPrimed
<1> QED BY <1>11, <1>12 DEF P, D

LEMMA NoLineFound ==
  ASSUME IInv, NEW n \in Nat, Found(n) = {}
  PROVE  n \notin DOMAIN Program
<1>1. \A l \in lines : l.num # n
  BY FindLineStops DEF IInv, StopsAt
<1>2. DOMAIN Program = Numbered
  BY InvOneEach, ProgramEntries
<1> QED BY <1>1, <1>2 DEF Numbered

\* The instance counts like this module.
LEMMA SameCardinality ==
  ASSUME NEW S
  PROVE  Abstract!Cardinality(S) = Cardinality(S)
BY DEF Cardinality, Abstract!Cardinality

(***************************************************************************)
(* DoRenum counts the records below one as it walks; the abstract RENUM    *)
(* counts the smaller numbers.                                             *)
(***************************************************************************)
LEMMA SameCount ==
  ASSUME IInv, NEW l \in lines
  PROVE  Abstract!Renumbered(l.num) = NewNumber(l)
<1> DEFINE T == {m \in DOMAIN Program : m < l.num}
           f == [k \in Below(l) |-> k.num]
<1>1. DOMAIN Program = Numbered
  BY InvOneEach, ProgramEntries
<1>2. /\ \A k \in lines : k.addr < l.addr <=> k.num < l.num
      /\ \A k, m \in lines : k.num = m.num => k = m
  BY OneRecordEach DEF IInv
<1>3. f \in [Below(l) -> T]
  <2>1. \A k \in Below(l) : k.num \in T
    BY <1>1, <1>2 DEF Below, Numbered
  <2> QED BY <2>1
<1>4. \A j \in T : \E k \in Below(l) : f[k] = j
  <2> TAKE j \in T
  <2>1. PICK k \in lines : k.num = j
    BY <1>1 DEF Numbered
  <2>2. k \in Below(l)
    BY <1>2, <2>1 DEF Below
  <2> QED BY <2>1, <2>2
<1>5. \A k, m \in Below(l) : f[k] = f[m] => k = m
  BY <1>2 DEF Below
<1> HIDE DEF f, T
<1>6. f \in Injection(Below(l), T) /\ f \in Surjection(Below(l), T)
  BY <1>3, <1>4, <1>5 DEF Injection, IsInjective, Surjection
<1>7. IsFiniteSet(Below(l))
  <2>1. IsFiniteSet(lines) /\ Below(l) \in SUBSET lines
    BY DEF IInv, TypeOK, Below
  <2> QED BY <2>1, FS_Subset
<1>8. Cardinality(T) = Cardinality(Below(l))
  BY <1>6, <1>7, FS_Surjection
<1> QED BY <1>8, SameCardinality DEF Abstract!Renumbered, NewNumber, T, FirstNumber, Increment,
                    Abstract!FirstNumber, Abstract!Increment

LEMMA RenumRenumbers ==
  ASSUME IInv, OneEach', DoRenum
  PROVE  Abstract!Renum
<1> DEFINE D == {Abstract!Renumbered(n) : n \in DOMAIN Program}
           P == [k \in D |-> Program[CHOOSE n \in DOMAIN Program :
                                       Abstract!Renumbered(n) = k]]
           ren(l) == [l EXCEPT !.num = NewNumber(l)]
<1>1. /\ DOMAIN Program = Numbered
      /\ \A l \in lines : Program[l.num] = l.text
  BY InvOneEach, ProgramEntries
<1>2. \A l \in lines : Abstract!Renumbered(l.num) = NewNumber(l)
  BY SameCount
<1>3. \A l, m \in lines : NewNumber(l) = NewNumber(m) => l = m
  <2> TAKE l, m \in lines
  <2>1. NewNumber(l) \in Nat /\ NewNumber(m) \in Nat /\ l.addr \in Nat /\ m.addr \in Nat
    BY NewNumbers, RecordFacts DEF IInv
  <2>2. /\ l.addr < m.addr => NewNumber(l) < NewNumber(m)
        /\ m.addr < l.addr => NewNumber(m) < NewNumber(l)
        /\ l.addr = m.addr => l = m
    BY NewNumbers, OneRecordEach DEF IInv
  <2> QED BY <2>1, <2>2
<1>4. lines' = {ren(l) : l \in lines}
  BY DEF DoRenum, NewNumber, Below
<1>5. \A l \in lines : ren(l).num = NewNumber(l) /\ ren(l).text = l.text
  <2>1. \A l \in lines : l \in Line
    BY RecordFacts DEF IInv
  <2> QED BY <2>1 DEF Line
<1> HIDE DEF ren
<1>6. \A k : k \in D <=> \E l \in lines : k = NewNumber(l)
  BY <1>1, <1>2 DEF Numbered
<1>7. \A k : k \in Numbered' <=> \E l \in lines : k = NewNumber(l)
  BY <1>4, <1>5 DEF Numbered
<1>8. \A l \in lines : P[NewNumber(l)] = l.text
  <2> TAKE l \in lines
  <2>1. \A n \in DOMAIN Program : Abstract!Renumbered(n) = NewNumber(l) => n = l.num
    BY <1>1, <1>2, <1>3 DEF Numbered
  <2>2. l.num \in DOMAIN Program /\ Abstract!Renumbered(l.num) = NewNumber(l)
    BY <1>1, <1>2 DEF Numbered
  <2>3. (CHOOSE n \in DOMAIN Program : Abstract!Renumbered(n) = NewNumber(l)) = l.num
    BY <2>1, <2>2
  <2>4. NewNumber(l) \in D
    BY <1>6
  <2> QED BY <1>1, <2>3, <2>4
<1>9. P = [k \in D |-> P[k]]
  OBVIOUS
<1> HIDE DEF P, D
<1>10. D = Numbered'
  <2>1. \A S, T : (\A m : m \in S <=> m \in T) => S = T
    OBVIOUS
  <2> QED BY <1>6, <1>7, <2>1
<1>11. \A x \in lines' : P[x.num] = x.text
  BY <1>4, <1>5, <1>8
<1>12. Program' = P
  BY <1>9, <1>10, <1>11, ProgramIsPrimed
<1>13. Unread = {} /\ Unread' = {}
  BY DEF DoRenum, Unread, Readers
<1> QED BY <1>12, <1>13 DEF DoRenum, Abstract!Renum, P, D, fileVars

(***************************************************************************)
(* BufGetLine takes the line with the least number not yet read.           *)
(***************************************************************************)
LEMMA ReadLineReads ==
  ASSUME IInv, ReadLine
  PROVE  Abstract!ReadLine
<1>1. TypeOK /\ Layout /\ mode \in Readers /\ mode' = mode /\ lines' = lines
  BY DEF IInv, ReadLine
<1>2. PICK l \in lines :
         /\ l.addr = currentLine
         /\ out' = Append(out, [num |-> l.num, text |-> l.text])
         /\ file' = IF mode = "save" THEN Append(file, l.text) ELSE file
         /\ currentLine' = currentLine + l.len
  BY DEF ReadLine
<1>3. \A m \in lines : /\ m.addr \in Nat /\ m.num \in Nat
                       /\ l.len \in Nat /\ l.len > 0
                       /\ l.addr < m.addr <=> l.num < m.num
                       /\ l.addr < m.addr => l.addr + l.len <= m.addr
                       /\ l.num = m.num => l = m
                       /\ l.addr = m.addr => l = m
  BY <1>1, RecordFacts, OneRecordEach
<1>4. Unread = {m.num : m \in {k \in lines : k.addr >= l.addr}}
  BY <1>1, <1>2 DEF Unread
<1>5. Unread' = {m.num : m \in {k \in lines : k.addr >= l.addr + l.len}}
  BY <1>1, <1>2 DEF Unread
<1>6. l.num \in Unread /\ \A n \in Unread : l.num <= n
  <2>1. l.num \in Unread
    BY <1>3, <1>4
  <2>2. ASSUME NEW n \in Unread PROVE l.num <= n
    <3>1. PICK m \in lines : m.addr >= l.addr /\ n = m.num
      BY <1>4, <2>2
    <3> QED BY <1>3, <3>1
  <2> QED BY <2>1, <2>2
<1>7. \A m \in lines : m.addr >= l.addr + l.len <=> m.addr >= l.addr /\ m.num # l.num
  BY <1>3
<1>8. \A n : n \in Unread' <=> n \in Unread /\ n # l.num
  BY <1>4, <1>5, <1>7
<1>9. Unread' = Unread \ {l.num}
  BY <1>8
<1>10. Program[l.num] = l.text /\ Program' = Program
  BY <1>1, InvOneEach, ProgramEntries DEF Program
<1>11. UNCHANGED <<mode, rest, number, reply>>
  BY DEF ReadLine
<1> QED BY <1>1, <1>2, <1>6, <1>9, <1>10, <1>11 DEF Abstract!ReadLine, Abstract!Readers, Readers

LEMMA StartReadingStarts ==
  ASSUME IInv, NEW cmd \in Readers, StartReading(cmd)
  PROVE  Abstract!StartReading(cmd)
<1>1. mode' \in Readers /\ lines' = lines /\ currentLine' = buffer
  BY DEF StartReading, Readers
<1>2. \A l \in lines : l.addr >= buffer
  <2>1. \A l \in lines : l.addr \in Nat /\ buffer <= l.addr
    BY RecordFacts DEF IInv
  <2>2. buffer \in Nat
    BY DEF IInv, TypeOK
  <2> QED BY <2>1, <2>2
<1>3. Unread' = Numbered
  BY <1>1, <1>2 DEF Unread, Numbered
<1>4. DOMAIN Program = Numbered /\ Program' = Program
  BY <1>1, InvOneEach, ProgramEntries DEF Program
<1> QED BY <1>3, <1>4 DEF StartReading, Abstract!StartReading

LEMMA StopReadingStops ==
  ASSUME IInv, StopReading
  PROVE  Abstract!StopReading
<1>1. \A l \in lines : l.addr \in Nat /\ l.addr < BufferTop
  <2>1. \A l \in lines : l.addr \in Nat /\ l.len \in Nat /\ l.len > 0
                         /\ l.addr + l.len <= BufferTop
    BY RecordFacts DEF IInv
  <2> QED BY <2>1, WorkspaceAssumption
<1>2. currentLine \in Nat /\ BufferTop \in Nat
  BY WorkspaceAssumption DEF IInv, TypeOK
<1>3. currentLine >= BufferTop => Unread = {}
  <2>1. currentLine >= BufferTop => \A l \in lines : ~(l.addr >= currentLine)
    BY <1>1, <1>2
  <2> QED BY <2>1 DEF Unread
<1>4. Unread' = {} /\ Program' = Program
  BY DEF StopReading, Unread, Readers, Program
<1> QED BY <1>3, <1>4 DEF StopReading, Abstract!StopReading, Abstract!Readers, Readers, fileVars

\* Outside the loops nothing is pending.
LEMMA NonePending ==
  ASSUME mode \notin Readers, mode' \notin Readers
  PROVE  Unread = {} /\ Unread' = {}
BY DEF Unread

(***************************************************************************)
(* Every step of the editor is a step of ProgramText, or none.             *)
(***************************************************************************)
LEMMA StepImplements ==
  ASSUME IInv, OneEach', [Next]_vars
  PROVE  [Abstract!Next]_(Abstract!vars)
<1>1. ASSUME NEW n \in Numbers, NEW t \in Texts, EnterLine(n, t)
      PROVE  Abstract!EnterLine(n, t)
  <2>1. n \in Nat
    BY TextAssumption
  <2>2. Unread = {} /\ Unread' = {}
    BY <1>1, NonePending DEF EnterLine, Readers
  <2>3. CASE Fits(n, t)
    <3>1. Abstract!Set(n, t)
      BY <1>1, <2>1, <2>3, PutLineSets DEF EnterLine
    <3> QED BY <1>1, <2>2, <2>3, <3>1 DEF EnterLine, Abstract!EnterLine, fileVars
  <2>4. CASE ~Fits(n, t)
    <3>1. Program' = Program
      BY <1>1, <2>4, SameLinesSameProgram DEF EnterLine, bufVars
    <3> QED BY <1>1, <2>2, <2>4, <3>1 DEF EnterLine, Abstract!EnterLine, fileVars
  <2> QED BY <2>3, <2>4
<1>2. ASSUME NEW n \in Numbers, DeleteLine(n)
      PROVE  Abstract!DeleteLine(n)
  <2>1. n \in Nat
    BY TextAssumption
  <2>2. Unread = {} /\ Unread' = {}
    BY <1>2, NonePending DEF DeleteLine, Readers
  <2>3. CASE Found(n) # {}
    <3>1. Program' = [m \in DOMAIN Program \ {n} |-> Program[m]] /\ n \in DOMAIN Program
      BY <1>2, <2>1, <2>3, RemoveLineUnsets DEF DeleteLine
    <3> QED BY <1>2, <2>2, <2>3, <3>1 DEF DeleteLine, Abstract!DeleteLine, fileVars
  <2>4. CASE Found(n) = {}
    <3>1. n \notin DOMAIN Program
      BY <2>1, <2>4, NoLineFound
    <3>2. Program = [m \in DOMAIN Program |-> Program[m]]
      BY InvOneEach, ProgramEntries
    <3>3. DOMAIN Program \ {n} = DOMAIN Program
      BY <3>1
    <3>4. Program' = [m \in DOMAIN Program \ {n} |-> Program[m]]
      <4>1. Program' = Program
        BY <1>2, <2>4, SameLinesSameProgram DEF DeleteLine, bufVars
      <4> QED BY <3>2, <3>3, <4>1
    <3> QED BY <1>2, <2>2, <2>4, <3>1, <3>4 DEF DeleteLine, Abstract!DeleteLine, fileVars
  <2> QED BY <2>3, <2>4
<1>3. ASSUME DoNew PROVE Abstract!New
  <2>1. Program' = Abstract!Empty
    BY <1>3, EmptyProgramPrimed DEF DoNew, BufNew
  <2>2. Unread = {} /\ Unread' = {}
    BY <1>3, NonePending DEF DoNew, Readers
  <2> QED BY <1>3, <2>1, <2>2 DEF DoNew, Abstract!New, fileVars
<1>4. ASSUME DoRenum PROVE Abstract!Renum
  BY <1>4, RenumRenumbers
<1>5. ASSUME NEW cmd \in Readers, StartReading(cmd)
      PROVE  Abstract!StartReading(cmd)
  BY <1>5, StartReadingStarts
<1>6. ASSUME ReadLine PROVE Abstract!ReadLine
  BY <1>6, ReadLineReads
<1>7. ASSUME StopReading PROVE Abstract!StopReading
  BY <1>7, StopReadingStops
<1>8. ASSUME StartLoad PROVE Abstract!StartLoad
  <2>1. Program' = Abstract!Empty
    BY <1>8, EmptyProgramPrimed DEF StartLoad, BufNew
  <2>2. Unread = {} /\ Unread' = {}
    BY <1>8, NonePending DEF StartLoad, Readers
  <2> QED BY <1>8, <2>1, <2>2
          DEF StartLoad, Abstract!StartLoad, FirstNumber, Abstract!FirstNumber
<1>9. ASSUME LoadLine PROVE Abstract!LoadLine
  <2>1. number \in Nat /\ Head(rest) \in Texts
    <3>1. number \in Nat /\ rest \in Seq(Texts) /\ rest # <<>>
      BY <1>9 DEF IInv, TypeOK, LoadLine
    <3> QED BY <3>1, HeadTailType
  <2>2. Unread = {} /\ Unread' = {}
    BY <1>9, NonePending DEF LoadLine, Readers
  <2>3. Abstract!Set(number, Head(rest)) \/ Program' = Program
    <3>1. CASE Fits(number, Head(rest))
      BY <1>9, <2>1, <3>1, PutLineSets DEF LoadLine
    <3>2. CASE ~Fits(number, Head(rest))
      BY <1>9, <3>2, SameLinesSameProgram DEF LoadLine, bufVars
    <3> QED BY <3>1, <3>2
  <2> QED BY <1>9, <2>2, <2>3 DEF LoadLine, Abstract!LoadLine, Increment, Abstract!Increment
<1>10. ASSUME StopLoad PROVE Abstract!StopLoad
  <2>1. Unread = {} /\ Unread' = {} /\ Program' = Program
    BY <1>10, NonePending DEF StopLoad, Readers, Program
  <2> QED BY <1>10, <2>1 DEF StopLoad, Abstract!StopLoad, FirstNumber, Abstract!FirstNumber
<1>11. ASSUME OpenFails PROVE Abstract!OpenFails
  <2>1. Unread = {} /\ Unread' = {} /\ Program' = Program
    BY <1>11, NonePending DEF OpenFails, Readers, Program
  <2> QED BY <1>11, <2>1 DEF OpenFails, Abstract!OpenFails, fileVars
<1>12. ASSUME UNCHANGED vars PROVE UNCHANGED Abstract!vars
  BY <1>12 DEF vars, Abstract!vars, Program, Unread
<1>13. \A cmd : cmd \in Readers <=> cmd \in Abstract!Readers
  BY DEF Readers, Abstract!Readers
<1>14. ASSUME NoRoomToCompile \/ Overrun PROVE Abstract!LoseProgram
  <2>1. Undefined /\ mode \in {"idle", "compile"}
    BY <1>14 DEF NoRoomToCompile, Overrun
  <2>2. Program' = Abstract!Empty
    BY <2>1, EmptyProgramPrimed DEF Undefined, BufNew
  <2>3. Unread' = {}
    BY <2>1 DEF Undefined, Unread, Readers
  <2> QED BY <2>1, <2>2, <2>3 DEF Undefined, Abstract!LoseProgram, fileVars
<1>15. ASSUME Restart PROVE Abstract!Restart
  <2>1. Program' = Abstract!Empty
    BY <1>15, EmptyProgramPrimed DEF Restart, BufNew
  <2>2. Unread' = {}
    BY <1>15 DEF Restart, Unread, Readers
  <2> QED BY <1>15, <2>1, <2>2 DEF Restart, Abstract!Restart, FirstNumber, Abstract!FirstNumber
<1>16. CASE Next
  BY <1>1, <1>2, <1>3, <1>4, <1>5, <1>6, <1>7, <1>8, <1>9, <1>10, <1>11, <1>13, <1>14, <1>15,
     <1>16 DEF Next, Abstract!Next
<1> QED BY <1>12, <1>16

LEMMA InitImplements == Init => Abstract!Init
<1> SUFFICES ASSUME Init PROVE Abstract!Init
  OBVIOUS
<1>1. Program = Abstract!Empty
  BY EmptyProgram DEF Init
<1>2. Unread = {}
  BY DEF Init, Unread, Readers
<1> QED BY <1>1, <1>2 DEF Init, Abstract!Init, FirstNumber, Abstract!FirstNumber

(***************************************************************************)
(* The editor implements ProgramText: whatever BufAddLineN, BufDeleteLineN *)
(* and DoRenum move in memory, a command changes the entries it names and  *)
(* no other, and the loops read what the map holds, in order.              *)
(***************************************************************************)
THEOREM Implements == Spec => ImplementsProgramText
<1>1. IInv /\ IInv' /\ [Next]_vars => [Abstract!Next]_(Abstract!vars)
  <2>1. IInv' => OneEach'
    BY InvOneEach, PTL
  <2> QED BY <2>1, StepImplements
<1> QED BY <1>1, InitImplements, Invariance, PTL DEF Spec, ImplementsProgramText, Abstract!Spec
==============================================================================
