--------------------------- MODULE Identities_proofs ----------------------------
(***************************************************************************)
(* The keys are distinct, for every alphabet and all texts, and so lookups *)
(* find what was stored for their identity.                                *)
(***************************************************************************)
EXTENDS Identities, Publication_proofs, SequenceTheorems

\* What the texts are sequences of.
Marks == {<<c>> : c \in Characters \union Delimiters} \union {<<"%", c>> : c \in Characters}
Texts == Seq(Marks)

\* s is free of the delimiter.
Free(s, delimiter) == \A i \in 1 .. Len(s) : s[i] # <<delimiter>>

\* An escaped character is no delimiter, and no other's.
LEMMA EscapeMarks ==
    /\ \A c \in Characters : Escape(c) \in Marks
    /\ \A c \in Characters, d \in Delimiters : Escape(c) # <<d>>
    /\ \A b, c \in Characters : Escape(b) = Escape(c) => b = c
BY UnreservedAssumption DEF Escape, Marks

\* A sequence ends where its domain does.
LEMMA SameLength == \A m, n \in Nat : 1 .. m = 1 .. n => m = n
<1>1. ASSUME NEW m \in Nat, NEW n \in Nat, 1 .. m = 1 .. n, m < n PROVE FALSE
  <2>1. n \in 1 .. n /\ n \notin 1 .. m
    BY <1>1
  <2> QED
    BY <1>1, <2>1
<1> QED
    BY <1>1

\* An escaped text is free of delimiters ...
LEMMA EscapedFree ==
    ASSUME NEW text \in Parts
    PROVE  /\ Escaped(text) \in Texts
           /\ \A d \in Delimiters : Free(Escaped(text), d)
<1>1. text \in Seq(Characters) /\ DOMAIN text = 1 .. Len(text) /\ Len(text) \in Nat
    BY PartsAssumption
<1>2. \A i \in 1 .. Len(text) : text[i] \in Characters
    BY <1>1
<1>3. Escaped(text) = [i \in 1 .. Len(text) |-> Escape(text[i])]
    BY <1>1 DEF Escaped
<1>4. /\ Escaped(text) \in Texts /\ Len(Escaped(text)) = Len(text)
      /\ \A i \in 1 .. Len(text) : Escaped(text)[i] = Escape(text[i])
    BY <1>1, <1>2, <1>3, EscapeMarks, IsASeq DEF Texts
<1> QED
    BY <1>2, <1>4, EscapeMarks DEF Free

\* ... and no other's.
LEMMA EscapedInjective ==
    ASSUME NEW left \in Parts, NEW right \in Parts, Escaped(left) = Escaped(right)
    PROVE  left = right
<1>1. /\ left \in Seq(Characters) /\ DOMAIN left = 1 .. Len(left) /\ Len(left) \in Nat
      /\ right \in Seq(Characters) /\ DOMAIN right = 1 .. Len(right) /\ Len(right) \in Nat
    BY PartsAssumption
<1>2. DOMAIN left = DOMAIN right
    BY DEF Escaped
<1>3. Len(left) = Len(right)
    BY <1>1, <1>2, SameLength
<1>4. ASSUME NEW i \in 1 .. Len(left) PROVE left[i] = right[i]
  <2>1. Escape(left[i]) = Escape(right[i])
    <3>1. Escaped(left)[i] = Escape(left[i]) /\ Escaped(right)[i] = Escape(right[i])
        BY <1>1, <1>2 DEF Escaped
    <3> QED
        BY <3>1
  <2>2. left[i] \in Characters /\ right[i] \in Characters
    BY <1>1, <1>3
  <2> QED
    BY <2>1, <2>2, EscapeMarks
<1> QED
    BY <1>1, <1>3, <1>4, SeqEqual

\* What is joined is there, in its place.
LEMMA Joined ==
    ASSUME NEW s \in Texts, NEW t \in Texts
    PROVE  /\ Len(s) \in Nat /\ Len(t) \in Nat
           /\ s \o t \in Texts /\ Len(s \o t) = Len(s) + Len(t)
           /\ \A i \in 1 .. Len(s) : (s \o t)[i] = s[i]
           /\ \A i \in 1 .. Len(t) : (s \o t)[Len(s) + i] = t[i]
<1>1. Len(s) \in Nat /\ Len(t) \in Nat
    BY DEF Texts
<1>2. /\ s \o t \in Texts /\ Len(s \o t) = Len(s) + Len(t)
      /\ \A i \in 1 .. Len(s) + Len(t) :
             (s \o t)[i] = IF i <= Len(s) THEN s[i] ELSE t[i - Len(s)]
    BY ConcatProperties DEF Texts
<1>3. ASSUME NEW i \in 1 .. Len(s) PROVE (s \o t)[i] = s[i]
    BY <1>1, <1>2
<1>4. ASSUME NEW i \in 1 .. Len(t) PROVE (s \o t)[Len(s) + i] = t[i]
  <2>1. Len(s) + i \in 1 .. Len(s) + Len(t) /\ ~ Len(s) + i <= Len(s) /\ Len(s) + i - Len(s) = i
    BY <1>1
  <2> QED
    BY <1>2, <2>1
<1> QED
    BY <1>1, <1>2, <1>3, <1>4

\* u is the delimiter, and the text after it.
After(u, d, t) == /\ u \in Texts /\ Len(u) = 1 + Len(t) /\ u[1] = <<d>>
                  /\ \A i \in 1 .. Len(t) : u[1 + i] = t[i]

\* That is what they are when they are joined.
LEMMA Marked ==
    ASSUME NEW d \in Delimiters, NEW t \in Texts
    PROVE  After(Mark(d) \o t, d, t)
<1> DEFINE m == Mark(d)
<1>1. m \in Texts /\ Len(m) = 1 /\ m[1] = <<d>>
    BY DEF Mark, Texts, Marks
<1> HIDE DEF m
<1>2. /\ m \o t \in Texts /\ Len(m \o t) = Len(m) + Len(t)
      /\ \A i \in 1 .. Len(m) : (m \o t)[i] = m[i]
      /\ \A i \in 1 .. Len(t) : (m \o t)[Len(m) + i] = t[i]
    BY <1>1, Joined
<1>3. After(m \o t, d, t)
    BY <1>1, <1>2 DEF After
<1> QED
    BY <1>3 DEF m

\* A text is divided in one way at the first of its delimiters ...
LEMMA DivisionBefore ==
    ASSUME NEW d \in Delimiters, NEW s1 \in Texts, NEW s2 \in Texts,
           NEW u1 \in Texts, NEW u2 \in Texts, Free(s1, d), Free(s2, d),
           Len(u1) >= 1, Len(u2) >= 1, u1[1] = <<d>>, u2[1] = <<d>>,
           s1 \o u1 = s2 \o u2
    PROVE  s1 = s2 /\ u1 = u2
<1> DEFINE text == s1 \o u1
<1>1. /\ Len(s1) \in Nat /\ Len(u1) \in Nat /\ Len(text) = Len(s1) + Len(u1)
      /\ \A i \in 1 .. Len(s1) : text[i] = s1[i]
      /\ \A i \in 1 .. Len(u1) : text[Len(s1) + i] = u1[i]
    BY Joined
<1>2. /\ Len(s2) \in Nat /\ Len(u2) \in Nat /\ Len(s2 \o u2) = Len(s2) + Len(u2)
      /\ \A i \in 1 .. Len(s2) : (s2 \o u2)[i] = s2[i]
      /\ \A i \in 1 .. Len(u2) : (s2 \o u2)[Len(s2) + i] = u2[i]
    BY Joined
<1>3. text = s2 \o u2
    OBVIOUS
<1> HIDE DEF text
<1>4. /\ Len(text) = Len(s2) + Len(u2)
      /\ \A i \in 1 .. Len(s2) : text[i] = s2[i]
      /\ \A i \in 1 .. Len(u2) : text[Len(s2) + i] = u2[i]
    BY <1>2, <1>3
<1>5. text[Len(s1) + 1] = <<d>> /\ text[Len(s2) + 1] = <<d>>
    BY <1>1, <1>2, <1>4
<1>6. Len(s1) = Len(s2)
  <2>1. ASSUME Len(s1) < Len(s2) PROVE FALSE
    <3>1. Len(s1) + 1 \in 1 .. Len(s2)
        BY <1>1, <1>2, <2>1
    <3> QED
        BY <1>4, <1>5, <3>1 DEF Free
  <2>2. ASSUME Len(s2) < Len(s1) PROVE FALSE
    <3>1. Len(s2) + 1 \in 1 .. Len(s1)
        BY <1>1, <1>2, <2>2
    <3> QED
        BY <1>1, <1>5, <3>1 DEF Free
  <2> QED
    BY <1>1, <1>2, <2>1, <2>2
<1>7. s1 = s2
    BY <1>1, <1>4, <1>6, SeqEqual DEF Texts
<1>8. u1 = u2
  <2>1. Len(u1) = Len(u2)
    BY <1>1, <1>2, <1>4, <1>6
  <2>2. ASSUME NEW i \in 1 .. Len(u1) PROVE u1[i] = u2[i]
    BY <1>1, <1>4, <1>6, <2>1
  <2> QED
    BY <2>1, <2>2, SeqEqual DEF Texts
<1> QED
    BY <1>7, <1>8

\* ... with one text after it.
LEMMA SameAfter ==
    ASSUME NEW d, NEW t1 \in Texts, NEW t2 \in Texts, NEW u, After(u, d, t1), After(u, d, t2)
    PROVE  t1 = t2
<1>1. Len(t1) \in Nat /\ Len(t2) \in Nat
    BY DEF Texts
<1>2. Len(t1) = Len(t2)
    BY <1>1 DEF After
<1>3. \A i \in 1 .. Len(t1) : t1[i] = t2[i]
    BY <1>2 DEF After
<1> QED
    BY <1>2, <1>3, SeqEqual DEF Texts

\* Both together.
LEMMA Division ==
    ASSUME NEW d \in Delimiters, NEW s1 \in Texts, NEW s2 \in Texts,
           NEW t1 \in Texts, NEW t2 \in Texts, Free(s1, d), Free(s2, d),
           s1 \o (Mark(d) \o t1) = s2 \o (Mark(d) \o t2)
    PROVE  s1 = s2 /\ t1 = t2
<1> DEFINE u1 == Mark(d) \o t1
           u2 == Mark(d) \o t2
<1>1. After(u1, d, t1) /\ After(u2, d, t2) /\ s1 \o u1 = s2 \o u2
    BY Marked
<1> HIDE DEF u1, u2
<1>2. /\ u1 \in Texts /\ u1[1] = <<d>> /\ Len(u1) >= 1
      /\ u2 \in Texts /\ u2[1] = <<d>> /\ Len(u2) >= 1
    BY <1>1 DEF After, Texts
<1>3. s1 = s2 /\ u1 = u2
    BY <1>1, <1>2, DivisionBefore
<1> QED
    BY <1>1, <1>3, SameAfter

\* A numeral is no other's.
LEMMA PlainInjective ==
    ASSUME NEW left \in Numerals, NEW right \in Numerals, Plain(left) = Plain(right)
    PROVE  left = right
<1>1. /\ left \in Seq(Unreserved) /\ DOMAIN left = 1 .. Len(left) /\ Len(left) \in Nat
      /\ right \in Seq(Unreserved) /\ DOMAIN right = 1 .. Len(right) /\ Len(right) \in Nat
    BY NumeralsAssumption
<1>2. DOMAIN left = DOMAIN right
    BY DEF Plain
<1>3. Len(left) = Len(right)
    BY <1>1, <1>2, SameLength
<1>4. ASSUME NEW i \in 1 .. Len(left) PROVE left[i] = right[i]
  <2>1. Plain(left)[i] = <<left[i]>> /\ Plain(right)[i] = <<right[i]>>
    BY <1>1, <1>2 DEF Plain
  <2>2. <<left[i]>> = <<right[i]>>
    BY <2>1
  <2> QED
    BY <2>2
<1> QED
    BY <1>1, <1>3, <1>4, SeqEqual

\* A numeral is a text.
LEMMA PlainTyped ==
    ASSUME NEW text \in Numerals
    PROVE  Plain(text) \in Texts
<1>1. text \in Seq(Unreserved) /\ DOMAIN text = 1 .. Len(text) /\ Len(text) \in Nat
    BY NumeralsAssumption
<1>2. \A i \in 1 .. Len(text) : <<text[i]>> \in Marks
    BY <1>1, UnreservedAssumption DEF Marks
<1>3. Plain(text) = [i \in 1 .. Len(text) |-> <<text[i]>>]
    BY <1>1 DEF Plain
<1> QED
    BY <1>1, <1>2, <1>3 DEF Texts

--------------------------------------------------------------------------------

\* A delimiter is free of the others.
LEMMA MarkFree ==
    ASSUME NEW d \in Delimiters, NEW e \in Delimiters, d # e
    PROVE  Mark(e) \in Texts /\ Free(Mark(e), d)
BY DEF Mark, Texts, Marks, Free

\* What is joined is free of what its parts are free of.
LEMMA JoinedFree ==
    ASSUME NEW d, NEW s \in Texts, NEW t \in Texts, Free(s, d), Free(t, d)
    PROVE  s \o t \in Texts /\ Free(s \o t, d)
<1> DEFINE u == s \o t
<1>1. /\ Len(s) \in Nat /\ Len(t) \in Nat /\ u \in Texts /\ Len(u) = Len(s) + Len(t)
      /\ \A i \in 1 .. Len(s) : u[i] = s[i]
      /\ \A i \in 1 .. Len(t) : u[Len(s) + i] = t[i]
    BY Joined
<1> HIDE DEF u
<1>2. ASSUME NEW i \in 1 .. Len(u) PROVE u[i] # <<d>>
  <2>1. CASE i <= Len(s)
    BY <1>1, <2>1 DEF Free
  <2>2. CASE ~ i <= Len(s)
    <3>1. i - Len(s) \in 1 .. Len(t) /\ Len(s) + (i - Len(s)) = i
        BY <1>1, <2>2
    <3>2. u[i] = t[i - Len(s)]
        BY <1>1, <3>1
    <3> QED
        BY <3>1, <3>2 DEF Free
  <2> QED
    BY <2>1, <2>2
<1>3. u \in Texts /\ Free(u, d)
    BY <1>1, <1>2 DEF Free
<1> QED
    BY <1>3 DEF u

Named(key) == key.namespace \in Parts /\ key.kind \in Parts /\ key.name \in Parts

\* An address is free of what follows it.
LEMMA AddressFree ==
    ASSUME NEW key, Named(key), NEW d \in {"@", "#"}
    PROVE  Address(key) \in Texts /\ Free(Address(key), d)
<1>0. d \in Delimiters /\ ":" \in Delimiters /\ "/" \in Delimiters /\ d # ":" /\ d # "/"
    BY DEF Delimiters
<1> DEFINE a == Escaped(key.namespace)
           b == Escaped(key.kind)
           c == Escaped(key.name)
           colon == Mark(":")
           slash == Mark("/")
<1>1. /\ a \in Texts /\ b \in Texts /\ c \in Texts
      /\ Free(a, d) /\ Free(b, d) /\ Free(c, d)
    BY <1>0, EscapedFree DEF Named
<1>2. colon \in Texts /\ slash \in Texts /\ Free(colon, d) /\ Free(slash, d)
    BY <1>0, MarkFree
<1>3. Address(key) = a \o (colon \o (b \o (slash \o c)))
    BY DEF Address
<1> HIDE DEF a, b, c, colon, slash
<1>4. slash \o c \in Texts /\ Free(slash \o c, d)
    BY <1>1, <1>2, JoinedFree
<1>5. b \o (slash \o c) \in Texts /\ Free(b \o (slash \o c), d)
    BY <1>1, <1>4, JoinedFree
<1>6. colon \o (b \o (slash \o c)) \in Texts /\ Free(colon \o (b \o (slash \o c)), d)
    BY <1>2, <1>5, JoinedFree
<1> QED
    BY <1>1, <1>3, <1>6, JoinedFree

\* An address is of one logical name.
LEMMA AddressInjective ==
    ASSUME NEW left, NEW right, Named(left), Named(right), Address(left) = Address(right)
    PROVE  left.namespace = right.namespace /\ left.kind = right.kind /\ left.name = right.name
<1>0. ":" \in Delimiters /\ "/" \in Delimiters
    BY DEF Delimiters
<1> DEFINE a1 == Escaped(left.namespace)
           b1 == Escaped(left.kind)
           c1 == Escaped(left.name)
           a2 == Escaped(right.namespace)
           b2 == Escaped(right.kind)
           c2 == Escaped(right.name)
           t1 == b1 \o (Mark("/") \o c1)
           t2 == b2 \o (Mark("/") \o c2)
<1>1. /\ a1 \in Texts /\ b1 \in Texts /\ c1 \in Texts
      /\ a2 \in Texts /\ b2 \in Texts /\ c2 \in Texts
      /\ Free(a1, ":") /\ Free(a2, ":") /\ Free(b1, "/") /\ Free(b2, "/")
    BY <1>0, EscapedFree DEF Named
<1>2. a1 \o (Mark(":") \o t1) = a2 \o (Mark(":") \o t2)
    BY DEF Address
<1>3. /\ a1 = a2 => left.namespace = right.namespace
      /\ b1 = b2 => left.kind = right.kind
      /\ c1 = c2 => left.name = right.name
    BY EscapedInjective DEF Named
<1> HIDE DEF a1, b1, c1, a2, b2, c2
<1>4. t1 \in Texts /\ t2 \in Texts
  <2>1. Mark("/") \in Texts
    BY <1>0 DEF Mark, Texts, Marks
  <2>2. Mark("/") \o c1 \in Texts /\ Mark("/") \o c2 \in Texts
    BY <1>1, <2>1, Joined
  <2> QED
    BY <1>1, <2>2, Joined
<1> HIDE DEF t1, t2
<1>5. a1 = a2 /\ t1 = t2
    BY <1>0, <1>1, <1>2, <1>4, Division
<1>6. b1 \o (Mark("/") \o c1) = b2 \o (Mark("/") \o c2)
    BY <1>5 DEF t1, t2
<1>7. b1 = b2 /\ c1 = c2
    BY <1>0, <1>1, <1>6, Division
<1> QED
    BY <1>3, <1>5, <1>7

\* Resources, channel rows and orphan candidates are told apart by their keys,
\* whatever characters their parts are made of.
THEOREM KeysDistinct == KeysAreDistinct
<1>0. /\ ":" \in Delimiters /\ "/" \in Delimiters /\ "@" \in Delimiters
      /\ "#" \in Delimiters /\ "|" \in Delimiters
    BY DEF Delimiters
<1>a. \A text \in Parts : /\ Escaped(text) \in Texts
                          /\ Free(Escaped(text), "@") /\ Free(Escaped(text), "|")
    BY <1>0, EscapedFree
<1>b. \A left, right \in Parts : Escaped(left) = Escaped(right) => left = right
    BY EscapedInjective
<1>1. ASSUME NEW left \in Identities, NEW right \in Identities,
             Canonical(left) = Canonical(right)
      PROVE  left = right
  <2>1. Named(left) /\ Named(right) /\ left.version \in Parts /\ right.version \in Parts
    BY DEF Identities, Named
  <2>2. Address(left) \o (Mark("@") \o Escaped(left.version))
            = Address(right) \o (Mark("@") \o Escaped(right.version))
    BY <1>1 DEF Canonical
  <2>3. /\ Address(left) \in Texts /\ Free(Address(left), "@")
        /\ Address(right) \in Texts /\ Free(Address(right), "@")
    BY <2>1, AddressFree
  <2>4. Address(left) = Address(right) /\ Escaped(left.version) = Escaped(right.version)
    BY <1>0, <1>a, <2>1, <2>2, <2>3, Division
  <2>5. /\ left.namespace = right.namespace /\ left.kind = right.kind
        /\ left.name = right.name /\ left.version = right.version
    BY <1>b, <2>1, <2>4, AddressInjective
  <2> QED
    BY <2>5 DEF Identities
<1>2. ASSUME NEW left \in ChannelVersions, NEW right \in ChannelVersions,
             ChannelVersionId(left) = ChannelVersionId(right)
      PROVE  left = right
  <2> DEFINE rest(row) == Escaped(row.channel) \o (Mark("@") \o Plain(row.version))
  <2>1. /\ Named(left) /\ left.channel \in Parts /\ left.version \in Numerals
        /\ Named(right) /\ right.channel \in Parts /\ right.version \in Numerals
    BY DEF ChannelVersions, Named
  <2>2. Plain(left.version) \in Texts /\ Plain(right.version) \in Texts
    BY <2>1, PlainTyped
  <2>3. ASSUME NEW s \in Texts, NEW t \in Texts PROVE s \o (Mark("@") \o t) \in Texts
    <3>1. Mark("@") \in Texts
        BY <1>0 DEF Mark, Texts, Marks
    <3>2. Mark("@") \o t \in Texts
        BY <3>1, Joined
    <3> QED
        BY <3>2, Joined
  <2>4. rest(left) \in Texts /\ rest(right) \in Texts
    BY <1>a, <2>1, <2>2, <2>3
  <2>5. Address(left) \o (Mark("#") \o rest(left)) = Address(right) \o (Mark("#") \o rest(right))
    BY <1>2 DEF ChannelVersionId
  <2>6. /\ Address(left) \in Texts /\ Free(Address(left), "#")
        /\ Address(right) \in Texts /\ Free(Address(right), "#")
    BY <2>1, AddressFree
  <2> HIDE DEF rest
  <2>7. Address(left) = Address(right) /\ rest(left) = rest(right)
    BY <1>0, <2>4, <2>5, <2>6, Division
  <2>8. Escaped(left.channel) \o (Mark("@") \o Plain(left.version))
            = Escaped(right.channel) \o (Mark("@") \o Plain(right.version))
    BY <2>7 DEF rest
  <2>9. Escaped(left.channel) = Escaped(right.channel) /\ Plain(left.version) = Plain(right.version)
    <3>1. /\ Escaped(left.channel) \in Texts /\ Free(Escaped(left.channel), "@")
          /\ Escaped(right.channel) \in Texts /\ Free(Escaped(right.channel), "@")
        BY <1>a, <2>1
    <3> QED
        BY <1>0, <2>2, <2>8, <3>1, Division
  <2>10. /\ left.namespace = right.namespace /\ left.kind = right.kind
         /\ left.name = right.name /\ left.channel = right.channel
         /\ left.version = right.version
    BY <1>b, <2>1, <2>7, <2>9, AddressInjective, PlainInjective
  <2> QED
    BY <2>10 DEF ChannelVersions
<1>3. ASSUME NEW left \in OrphanCandidates, NEW right \in OrphanCandidates,
             OrphanCandidateId(left) = OrphanCandidateId(right)
      PROVE  left = right
  <2> DEFINE rest(row) == Escaped(row.object) \o (Mark("|") \o Escaped(row.digest))
  <2>1. /\ left.resource \in Parts /\ left.object \in Parts /\ left.digest \in Parts
        /\ right.resource \in Parts /\ right.object \in Parts /\ right.digest \in Parts
    BY DEF OrphanCandidates
  <2>2. ASSUME NEW s \in Texts, NEW t \in Texts PROVE s \o (Mark("|") \o t) \in Texts
    <3>1. Mark("|") \in Texts
        BY <1>0 DEF Mark, Texts, Marks
    <3>2. Mark("|") \o t \in Texts
        BY <3>1, Joined
    <3> QED
        BY <3>2, Joined
  <2>3. rest(left) \in Texts /\ rest(right) \in Texts
    BY <1>a, <2>1, <2>2
  <2>4. Escaped(left.resource) \o (Mark("|") \o rest(left))
            = Escaped(right.resource) \o (Mark("|") \o rest(right))
    BY <1>3 DEF OrphanCandidateId
  <2> HIDE DEF rest
  <2>5. Escaped(left.resource) = Escaped(right.resource) /\ rest(left) = rest(right)
    <3>1. /\ Escaped(left.resource) \in Texts /\ Free(Escaped(left.resource), "|")
          /\ Escaped(right.resource) \in Texts /\ Free(Escaped(right.resource), "|")
        BY <1>a, <2>1
    <3> QED
        BY <1>0, <2>3, <2>4, <3>1, Division
  <2>6. Escaped(left.object) \o (Mark("|") \o Escaped(left.digest))
            = Escaped(right.object) \o (Mark("|") \o Escaped(right.digest))
    BY <2>5 DEF rest
  <2>7. Escaped(left.object) = Escaped(right.object) /\ Escaped(left.digest) = Escaped(right.digest)
    <3>1. /\ Escaped(left.object) \in Texts /\ Free(Escaped(left.object), "|")
          /\ Escaped(right.object) \in Texts /\ Free(Escaped(right.object), "|")
          /\ Escaped(left.digest) \in Texts /\ Escaped(right.digest) \in Texts
        BY <1>a, <2>1
    <3> QED
        BY <1>0, <2>6, <3>1, Division
  <2>8. left.resource = right.resource /\ left.object = right.object /\ left.digest = right.digest
    BY <1>b, <2>1, <2>5, <2>7
  <2> QED
    BY <2>8 DEF OrphanCandidates
<1> QED
    BY <1>1, <1>2, <1>3 DEF KeysAreDistinct

\* A lookup by resource id finds the rows and the Object of its identity, and
\* nobody else's, in every reachable state.
THEOREM LookupsOwn == Spec => []LookupsFindTheirOwn
<1>1. ASSUME NEW left \in Resources, NEW right \in Resources,
             Canonical(IdentityOf[left]) = Canonical(IdentityOf[right])
      PROVE  left = right
  <2>1. IdentityOf[left] \in Identities /\ IdentityOf[right] \in Identities
    BY IdentitiesAssumption
  <2>2. IdentityOf[left] = IdentityOf[right]
    BY <1>1, <2>1, KeysDistinct DEF KeysAreDistinct
  <2> QED
    BY <2>2, IdentitiesAssumption
<1>2. ASSUME NEW table, \A row \in table : row.id \in Resources, NEW id \in Resources
      PROVE  RowsUnder(table, Canonical(IdentityOf[id])) = RowsOf(table, id)
    BY <1>1, <1>2 DEF RowsUnder, RowsOf
<1>3. IInv => LookupsFindTheirOwn
  <2>1. ASSUME IInv
        PROVE  /\ \A row \in metadata : row.id \in Resources
               /\ \A row \in objects : row.id \in Resources
    BY <2>1 DEF IInv, TypeOK, MetadataRows, ObjectRows
  <2> QED
    BY <1>2, <2>1 DEF LookupsFindTheirOwn
<1> QED
    BY <1>3, InvariantInit, InvariantNext, PTL DEF Spec
================================================================================
