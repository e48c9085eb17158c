------------------------ MODULE ContextManagerProofs ------------------------
(***************************************************************************)
(* Theorems about ContextManager, and about what AnthropicPayload and      *)
(* AnthropicChat make of its messages and of answers, for any              *)
(* configurations and conversations.  Whatever sequence of truncations,    *)
(* summaries and answers makes a list, each of its messages but a          *)
(* summary's is one of the list before, in the same order: the proofs      *)
(* follow where each comes from.                                           *)
(***************************************************************************)
EXTENDS ContextManager, ListsProofs

-----------------------------------------------------------------------------
(***************************************************************************)
(* Conversations.  Talk is what an invariant says of the messages: beside  *)
(* WellFormed, that only the assistant calls tools and that a system       *)
(* message is nowhere but in front.  Without these, fix_messages may drop  *)
(* the very result that keeps a call, and the leading system messages may  *)
(* grow.                                                                   *)
(***************************************************************************)
Msg == [role: Roles, calls: BOOLEAN, answered: BOOLEAN, content: Contents, n: 0..MaxMessages]

InOrder(s) ==
  \A i, j \in DOMAIN s : i < j /\ s[i].n > 0 /\ s[j].n > 0 => s[i].n < s[j].n

CallsOfAssistant(s) ==
  \A i \in DOMAIN s : /\ s[i].calls => s[i].role = "assistant"
                      /\ s[i].answered => s[i].calls

Sound(s) ==
  /\ s \in Seq(Msg)
  /\ InOrder(s)
  /\ CallsOfAssistant(s)
  /\ \A i \in DOMAIN s : s[i].role = "system" => i = 1

Talk(s) == Sound(s) /\ Paired(s) /\ StartsWithUser(s)

(* A list made of messages of another, in their order, is as sound.        *)
LEMMA EmbedsSound ==
  ASSUME NEW s, Sound(s), NEW r \in Seq(Msg), NEW h, Embeds(h, r, s)
  PROVE  Sound(r)
  <1> s \in Seq(Msg) /\ Len(s) \in Nat /\ Len(r) \in Nat /\ DOMAIN s = 1..Len(s) /\ DOMAIN r = 1..Len(r)
    BY DEF Sound
  <1>1. \A i \in 1..Len(r) : h[i] \in 1..Len(s) /\ r[i] = s[h[i]]
    BY DEF Embeds
  <1>2. \A i, j \in 1..Len(r) : i < j => h[i] < h[j]
    BY DEF Embeds
  <1>3. InOrder(r)
    <2>1. \A i, j \in 1..Len(s) : i < j /\ s[i].n > 0 /\ s[j].n > 0 => s[i].n < s[j].n
      BY DEF Sound, InOrder
    <2>2. ASSUME NEW i \in 1..Len(r), NEW j \in 1..Len(r), i < j, r[i].n > 0, r[j].n > 0
          PROVE  r[i].n < r[j].n
      BY ONLY <1>1, <1>2, <2>1, <2>2, ZenonT(30)
    <2> QED BY ONLY <2>2, DOMAIN r = 1..Len(r) DEF InOrder
  <1>4. CallsOfAssistant(r)
    BY <1>1 DEF Sound, CallsOfAssistant
  <1>5. ASSUME NEW i \in DOMAIN r, r[i].role = "system" PROVE i = 1
    <2>1. h[i] = 1
      BY <1>1, <1>5 DEF Sound
    <2>2. 1 \in 1..Len(r) /\ ~ (1 < i)
      <3>1. 1 \in 1..Len(r)
        OBVIOUS
      <3>2. h[1] \in 1..Len(s)
        BY <1>1, <3>1
      <3> QED BY <3>1, <3>2, <1>2, <2>1
    <2> QED BY <2>2
  <1> QED BY <1>3, <1>4, <1>5 DEF Sound

(* The system prompt, if there is one, and a request after it.             *)
LEMMA Lead ==
  ASSUME NEW s, Sound(s), StartsWithUser(s)
  PROVE  /\ LeadingSystem(s) \in {0, 1}
         /\ LeadingSystem(s) < Len(s)
         /\ s[LeadingSystem(s) + 1].role = "user"
         /\ \A i \in 1..LeadingSystem(s) : s[i].role = "system"
         /\ Positions(s, "user") # {}
         /\ Min(Positions(s, "user")) = LeadingSystem(s) + 1
         /\ System(s) = IF s[1].role = "system" THEN <<s[1]>> ELSE <<>>
  <1> s \in Seq(Msg) /\ Len(s) \in Nat /\ DOMAIN s = 1..Len(s)
    BY DEF Sound
  <1> DEFINE others == DOMAIN s \ Positions(s, "system")
             L == LeadingSystem(s)
  <1>1. PICK u \in 1..Len(s) : s[u].role = "user" /\ \A j \in 1..(u - 1) : s[j].role = "system"
    BY DEF StartsWithUser
  <1>2. u = 1 \/ u = 2
    <2>1. ASSUME u > 2 PROVE FALSE
      <3>1. 2 \in 1..(u - 1) /\ 2 \in DOMAIN s
        BY <2>1
      <3> QED BY <3>1, <1>1 DEF Sound
    <2> QED BY <2>1
  <1>3. u \in others /\ others \in SUBSET Nat
    BY <1>1 DEF Positions
  <1>4. Min(others) = u
    <2>1. Min(others) \in others /\ Min(others) <= u
      BY <1>3, LeastElement
    <2>2. ~ (Min(others) < u)
      <3>1. ASSUME Min(others) < u PROVE FALSE
        <4>1. Min(others) \in 1..(u - 1)
          BY <3>1, <2>1
        <4> QED BY <4>1, <2>1, <1>1 DEF Positions
      <3> QED BY <3>1
    <2> QED BY <2>1, <2>2, <1>3
  <1>5. L = u - 1
    BY <1>3, <1>4 DEF LeadingSystem
  <1>6. Min(Positions(s, "user")) = u /\ Positions(s, "user") # {}
    <2>1. u \in Positions(s, "user") /\ Positions(s, "user") \in SUBSET Nat
      BY <1>1 DEF Positions
    <2>2. Min(Positions(s, "user")) \in Positions(s, "user") /\ Min(Positions(s, "user")) <= u
      BY <2>1, LeastElement
    <2>3. ASSUME Min(Positions(s, "user")) < u PROVE FALSE
      <3>1. Min(Positions(s, "user")) \in 1..(u - 1)
        BY <2>3, <2>2 DEF Positions
      <3> QED BY <3>1, <2>2, <1>1 DEF Positions
    <2> QED BY <2>1, <2>2, <2>3
  <1>7. System(s) = IF s[1].role = "system" THEN <<s[1]>> ELSE <<>>
    <2>1. CASE u = 1
      <3>1. s[1].role = "user" /\ System(s) = SubSeq(s, 1, 0)
        BY <2>1, <1>1, <1>5 DEF System, Upto
      <3>2. SubSeq(s, 1, 0) = <<>>
        BY SubSeqEmpty
      <3> QED BY <3>1, <3>2
    <2>2. CASE u = 2
      <3>1. s[1].role = "system" /\ System(s) = SubSeq(s, 1, 1)
        BY <2>2, <1>1, <1>5 DEF System, Upto
      <3>2. SubSeq(s, 1, 1) = <<s[1]>>
        <4>1. 1 \in 1..Len(s) /\ \A i \in 1..1 : s[i] \in Msg
          BY <2>2
        <4>2. /\ SubSeq(s, 1, 1) \in Seq(Msg)
              /\ Len(SubSeq(s, 1, 1)) = 1
              /\ SubSeq(s, 1, 1)[1] = s[1]
          BY <4>1, SubSeqProperties
        <4>3. <<s[1]>> \in Seq(Msg) /\ Len(<<s[1]>>) = 1 /\ <<s[1]>>[1] = s[1]
          BY <4>1
        <4>4. \A i \in 1..Len(SubSeq(s, 1, 1)) : SubSeq(s, 1, 1)[i] = <<s[1]>>[i]
          BY <4>2, <4>3
        <4> QED BY <4>2, <4>3, <4>4, SeqEqual
      <3> QED BY <3>1, <3>2
    <2> QED BY <1>2, <2>1, <2>2
  <1> HIDE DEF others, L
  <1>8. L \in {0, 1} /\ L < Len(s) /\ L + 1 = u /\ \A i \in 1..L : i \in 1..(u - 1)
    BY <1>2, <1>5
  <1> QED BY <1>1, <1>6, <1>7, <1>8 DEF L

(***************************************************************************)
(* ContextTruncator.  What KeepLast keeps is a suffix.                     *)
(***************************************************************************)
LEMMA SuffixOfSuffix ==
  ASSUME NEW s \in Seq(Msg), NEW a \in 1..(Len(s) + 1), NEW k \in Nat
  PROVE  \E b \in a..(Len(s) + 1) :
           After(SubSeq(s, a, Len(s)), k) = SubSeq(s, b, Len(s))
  <1> DEFINE x == SubSeq(s, a, Len(s))
  <1> Len(s) \in Nat /\ a \in Nat
    OBVIOUS
  <1>1. /\ x \in Seq(Msg)
        /\ Len(x) = Len(s) - a + 1
        /\ \A i \in 1..(Len(s) - a + 1) : x[i] = s[a + i - 1]
    <2>1. \A i \in a..Len(s) : s[i] \in Msg
      OBVIOUS
    <2> QED BY <2>1, SubSeqProperties
  <1> HIDE DEF x
  <1>2. CASE k >= Len(x)
    <2>1. SubSeq(x, k + 1, Len(x)) = <<>>
      <3>1. k + 1 \in Int /\ Len(x) \in Int /\ Len(x) < k + 1
        BY <1>1, <1>2
      <3> QED BY ONLY <3>1, SubSeqEmpty
    <2>2. SubSeq(s, Len(s) + 1, Len(s)) = <<>>
      BY SubSeqEmpty
    <2>3. Len(s) + 1 \in a..(Len(s) + 1)
      OBVIOUS
    <2> QED BY <2>1, <2>2, <2>3 DEF After, x
  <1>3. CASE k < Len(x)
    <2> DEFINE y == SubSeq(x, k + 1, Len(x))
               z == SubSeq(s, a + k, Len(s))
    <2>1. a + k \in a..(Len(s) + 1) /\ a + k \in 1..Len(s)
      BY <1>1, <1>3
    <2>2. /\ y \in Seq(Msg)
          /\ Len(y) = Len(x) - k
          /\ \A i \in 1..(Len(x) - k) : y[i] = x[k + i]
      <3>1. \A i \in (k + 1)..Len(x) : x[i] \in Msg
        BY <1>1
      <3> QED BY <3>1, <1>1, <1>3, SubSeqProperties
    <2>3. /\ z \in Seq(Msg)
          /\ Len(z) = Len(s) - (a + k) + 1
          /\ \A i \in 1..(Len(s) - (a + k) + 1) : z[i] = s[a + k + i - 1]
      <3>1. \A i \in (a + k)..Len(s) : s[i] \in Msg
        BY <2>1
      <3> QED BY <3>1, <2>1, SubSeqProperties
    <2> HIDE DEF y, z
    <2>4. y = z
      <3>1. Len(y) = Len(z)
        BY <1>1, <2>2, <2>3
      <3>2. ASSUME NEW i \in 1..Len(y) PROVE y[i] = z[i]
        <4>1. i \in 1..(Len(x) - k) /\ k + i \in 1..(Len(s) - a + 1)
          <5>1. i \in 1..(Len(x) - k) /\ Len(x) = Len(s) - a + 1
            BY ONLY i \in 1..Len(y), <1>1, <2>2
          <5> QED BY ONLY <5>1, k \in Nat, a \in Nat, Len(s) \in Nat
        <4>2. y[i] = x[k + i] /\ x[k + i] = s[a + (k + i) - 1]
          BY <4>1, <1>1, <2>2
        <4>3. z[i] = s[a + k + i - 1]
          BY <3>1, <2>3
        <4>4. a + (k + i) - 1 = a + k + i - 1
          OBVIOUS
        <4> QED BY <4>2, <4>3, <4>4
      <3> QED BY <3>1, <3>2, <2>2, <2>3, SeqEqual
    <2> QED BY <2>1, <2>4 DEF After, x, y, z
  <1> QED BY <1>1, <1>2, <1>3

LEMMA FromUserSuffix ==
  ASSUME NEW s \in Seq(Msg), NEW a \in 1..(Len(s) + 1)
  PROVE  \E b \in a..(Len(s) + 1) :
           FromUser(SubSeq(s, a, Len(s))) = SubSeq(s, b, Len(s))
  <1> DEFINE x == SubSeq(s, a, Len(s))
             users == Positions(x, "user")
  <1> Len(s) \in Nat
    OBVIOUS
  <1>1. CASE users = {}
    BY <1>1, a \in a..(Len(s) + 1) DEF FromUser
  <1>2. CASE users # {}
    <2>1. x \in Seq(Msg)
      OBVIOUS
    <2> HIDE DEF x
    <2>2. users \in SUBSET Nat /\ 0 \notin users
      BY <2>1 DEF Positions
    <2> HIDE DEF users
    <2>3. Min(users) - 1 \in Nat
      <3>1. Min(users) \in users
        BY <1>2, <2>2, LeastElement
      <3>2. \A u \in users : u - 1 \in Nat
        BY <2>2
      <3> QED BY <3>1, <3>2
    <2>4. FromUser(x) = After(x, Min(users) - 1)
      BY <1>2 DEF FromUser, users
    <2> QED BY <2>3, <2>4, SuffixOfSuffix, ZenonT(30) DEF x
  <1> QED BY <1>1, <1>2

(* The first user message is put in front unless it is there already.      *)
LEMMA Ensured ==
  ASSUME NEW s, Talk(s), NEW b \in (LeadingSystem(s) + 1)..(Len(s) + 1)
  PROVE  LET L == LeadingSystem(s)
             r == EnsureUserMessage(s, SubSeq(s, b, Len(s)))
         IN
         /\ r \in Seq(Msg)
         /\ \E h : Embeds(h, r, s)
         /\ L < Len(r)
         /\ r[L + 1].role = "user"
         /\ \A i \in 1..L : r[i] = s[i]
  <1> DEFINE L == LeadingSystem(s)
             kept == SubSeq(s, b, Len(s))
             lead == System(s)
             user == <<s[L + 1]>>
             r == EnsureUserMessage(s, kept)
  <1>1. /\ s \in Seq(Msg) /\ Len(s) \in Nat /\ DOMAIN s = 1..Len(s)
        /\ Sound(s) /\ StartsWithUser(s)
    BY DEF Talk, Sound
  <1>2. /\ L \in {0, 1} /\ L < Len(s) /\ s[L + 1].role = "user"
        /\ Positions(s, "user") # {} /\ Min(Positions(s, "user")) = L + 1
    BY <1>1, Lead
  <1>3. /\ kept \in Seq(Msg) /\ Len(kept) = Len(s) + 1 - b
        /\ \A i \in 1..(Len(s) + 1 - b) : kept[i] = s[b + i - 1]
    <2>1. \A i \in b..Len(s) : s[i] \in Msg
      BY <1>1, <1>2
    <2> QED BY <2>1, <1>1, <1>2, SubSeqProperties
  <1>4. lead \in Seq(Msg) /\ Len(lead) = L /\ \A i \in 1..L : lead[i] = s[i]
    <2>1. \A i \in 1..L : s[i] \in Msg
      BY <1>1, <1>2
    <2> QED BY <2>1, <1>2, SubSeqProperties DEF System, Upto
  <1>5. user \in Seq(Msg) /\ Len(user) = 1 /\ user[1] = s[L + 1]
    BY <1>1, <1>2
  <1> HIDE DEF L, kept, lead, user
  <1>6. CASE kept # <<>> /\ kept[1].role = "user"
    <2>1. r = lead \o kept
      BY <1>6 DEF EnsureUserMessage, lead, kept
    <2> HIDE DEF r
    <2>2. /\ r \in Seq(Msg) /\ Len(r) = L + Len(kept)
          /\ \A i \in 1..(L + Len(kept)) : r[i] = IF i <= L THEN lead[i] ELSE kept[i - L]
      <3>1. lead \in Seq(Msg) /\ kept \in Seq(Msg)
        BY <1>3, <1>4
      <3>2. /\ lead \o kept \in Seq(Msg) /\ Len(lead \o kept) = Len(lead) + Len(kept)
            /\ \A i \in 1..(Len(lead) + Len(kept)) :
                 (lead \o kept)[i] = IF i <= Len(lead) THEN lead[i] ELSE kept[i - Len(lead)]
        BY ONLY <3>1, ConcatProperties
      <3>3. Len(lead) = L
        BY <1>4
      <3> QED BY ONLY <2>1, <3>2, <3>3
    <2>3. Len(kept) >= 1 /\ r[L + 1] = kept[1] /\ L < Len(r)
      <3>1. Len(kept) \in Nat /\ Len(kept) # 0
        BY <1>3, <1>6
      <3>2. L + 1 \in 1..(L + Len(kept)) /\ ~ (L + 1 <= L) /\ (L + 1) - L = 1
        BY ONLY <1>2, <3>1
      <3>3. r[L + 1] = kept[1]
        BY ONLY <2>2, <3>2
      <3> QED BY ONLY <1>2, <2>2, <3>1, <3>3
    <2> DEFINE h == [i \in 1..Len(r) |-> IF i <= L THEN i ELSE b + i - L - 1]
    <2>4. ASSUME NEW i \in 1..Len(r) PROVE h[i] \in 1..Len(s) /\ r[i] = s[h[i]]
      <3>1. CASE i <= L
        BY <3>1, <2>2, <1>2, <1>4
      <3>2. CASE ~ (i <= L)
        <4>1. i - L \in 1..(Len(s) + 1 - b)
          BY <3>2, <2>2, <1>2, <1>3
        <4>2. r[i] = s[b + (i - L) - 1]
          BY <3>2, <2>2, <4>1, <1>3
        <4>3. h[i] = b + i - L - 1
          BY <3>2
        <4>4. b + i - L - 1 = b + (i - L) - 1 /\ b + i - L - 1 \in 1..Len(s)
          <5>1. L \in Int /\ b \in Int /\ b >= 1
            BY <1>2 DEF L
          <5> QED BY ONLY <5>1, <4>1, <1>1
        <4> QED BY <4>2, <4>3, <4>4
      <3> QED BY <3>1, <3>2
    <2>5. \A i, j \in 1..Len(r) : i < j => h[i] < h[j]
      <3>1. L \in Int /\ b \in Int /\ b >= L + 1 /\ Len(r) \in Int
        BY <1>1, <1>2, <2>2 DEF L
      <3> QED BY ONLY <3>1 DEF h
    <2>6. Embeds(h, r, s)
      <3> DOMAIN r = 1..Len(r) /\ h \in [1..Len(r) -> 1..Len(s)]
        BY <2>2, <2>4
      <3> HIDE DEF h
      <3> QED BY <2>4, <2>5, <1>1 DEF Embeds
    <2>7. ASSUME NEW i \in 1..L PROVE r[i] = s[i]
      <3>1. Len(kept) \in Nat
        BY <1>3
      <3>2. i \in 1..(L + Len(kept)) /\ i <= L
        BY ONLY <1>2, <3>1, i \in 1..L
      <3>3. r[i] = lead[i]
        BY ONLY <2>2, <3>2
      <3>4. lead[i] = s[i]
        BY <1>4
      <3> QED BY ONLY <3>3, <3>4
    <2> QED BY <2>2, <2>3, <2>6, <2>7, <1>6 DEF r, L, kept
  <1>7. CASE ~ (kept # <<>> /\ kept[1].role = "user")
    <2>1. r = (lead \o user) \o kept
      <3>1. r = lead \o user \o kept
        BY <1>7, <1>2 DEF EnsureUserMessage, lead, kept, user
      <3> QED BY <3>1
    <2>2. b # L + 1
      BY <1>7, <1>3, <1>2, <1>1
    <2> HIDE DEF r
    <2> DEFINE f == lead \o user
    <2>3. /\ f \in Seq(Msg) /\ Len(f) = L + 1 /\ f[L + 1] = s[L + 1]
          /\ \A i \in 1..L : f[i] = s[i]
      <3>1. f \in Seq(Msg) /\ Len(f) = L + 1
            /\ \A i \in 1..(L + 1) : f[i] = IF i <= L THEN lead[i] ELSE user[i - L]
        <4>1. lead \in Seq(Msg) /\ user \in Seq(Msg)
          BY <1>4, <1>5
        <4>2. /\ f \in Seq(Msg) /\ Len(f) = Len(lead) + Len(user)
              /\ \A i \in 1..(Len(lead) + Len(user)) :
                   f[i] = IF i <= Len(lead) THEN lead[i] ELSE user[i - Len(lead)]
          BY ONLY <4>1, ConcatProperties
        <4> HIDE DEF f
        <4> QED BY <4>2, <1>4, <1>5
      <3> HIDE DEF f
      <3>2. f[L + 1] = user[1]
        <4>1. L + 1 \in 1..(L + 1) /\ ~ (L + 1 <= L) /\ (L + 1) - L = 1
          BY ONLY <1>2
        <4> QED BY ONLY <3>1, <4>1
      <3> HIDE DEF f
      <3> QED BY <3>1, <3>2, <1>4, <1>5, <1>2
    <2>4. r = f \o kept
      BY <2>1
    <2> HIDE DEF f
    <2>5. /\ r \in Seq(Msg) /\ Len(r) = L + 1 + Len(kept)
          /\ \A i \in 1..(L + 1 + Len(kept)) : r[i] = IF i <= L + 1 THEN f[i] ELSE kept[i - (L + 1)]
      <3>1. /\ f \o kept \in Seq(Msg) /\ Len(f \o kept) = Len(f) + Len(kept)
            /\ \A i \in 1..(Len(f) + Len(kept)) :
                 (f \o kept)[i] = IF i <= Len(f) THEN f[i] ELSE kept[i - Len(f)]
        <4>1. f \in Seq(Msg) /\ kept \in Seq(Msg)
          BY <2>3, <1>3
        <4> QED BY ONLY <4>1, ConcatProperties
      <3> QED BY <3>1, <2>3, <2>4
    <2> DEFINE h == [i \in 1..Len(r) |-> IF i <= L + 1 THEN i ELSE b + i - L - 2]
    <2>6. ASSUME NEW i \in 1..Len(r) PROVE h[i] \in 1..Len(s) /\ r[i] = s[h[i]]
      <3>1. CASE i <= L + 1
        <4>1. r[i] = f[i]
          BY <3>1, <2>5
        <4>2. f[i] = s[i]
          BY <3>1, <2>3, <1>2, <2>5
        <4>3. h[i] = i /\ i \in 1..Len(s)
          BY <3>1, <1>1, <1>2
        <4> QED BY <4>1, <4>2, <4>3
      <3>2. CASE ~ (i <= L + 1)
        <4>1. i - (L + 1) \in 1..(Len(s) + 1 - b)
          BY <3>2, <2>5, <1>2, <1>3
        <4>2. r[i] = s[b + (i - (L + 1)) - 1]
          <5>1. r[i] = kept[i - (L + 1)]
            BY <3>2, <2>5
          <5>2. kept[i - (L + 1)] = s[b + (i - (L + 1)) - 1]
            BY ONLY <1>3, <4>1
          <5> QED BY ONLY <5>1, <5>2
        <4>3. h[i] = b + i - L - 2
          BY <3>2
        <4>4. b + i - L - 2 = b + (i - (L + 1)) - 1 /\ b + i - L - 2 \in 1..Len(s)
          <5>1. L \in Int /\ b \in Int /\ b >= 1
            BY <1>2 DEF L
          <5> QED BY ONLY <5>1, <4>1, <1>1
        <4> QED BY <4>2, <4>3, <4>4
      <3> QED BY <3>1, <3>2
    <2>7. \A i, j \in 1..Len(r) : i < j => h[i] < h[j]
      <3>1. L \in Int /\ b \in Int /\ b >= L + 2 /\ Len(r) \in Int
        BY <1>1, <1>2, <2>2, <2>5 DEF L
      <3> QED BY ONLY <3>1 DEF h
    <2>8. Embeds(h, r, s)
      <3> DOMAIN r = 1..Len(r) /\ h \in [1..Len(r) -> 1..Len(s)]
        BY <2>5, <2>6
      <3> HIDE DEF h
      <3> QED BY <2>6, <2>7, <1>1 DEF Embeds
    <2>9. L < Len(r) /\ r[L + 1].role = "user" /\ \A i \in 1..L : r[i] = s[i]
      <3>1. Len(kept) \in Nat
        BY <1>3
      <3>2. \A i \in 1..(L + 1) : i \in 1..(L + 1 + Len(kept)) /\ r[i] = f[i]
        BY <2>5, <1>2, <3>1
      <3>3. L + 1 \in 1..(L + 1) /\ \A i \in 1..L : i \in 1..(L + 1)
        BY <1>2
      <3>4. L < Len(r)
        BY <2>5, <1>2, <3>1
      <3> QED BY <3>2, <3>3, <3>4, <2>3, <1>2
    <2> QED BY <2>5, <2>8, <2>9 DEF r, L, kept
  <1> QED BY <1>6, <1>7

(* Calls and results that are all kept, and those alone, stay paired.      *)
LEMMA PairsKept ==
  ASSUME NEW s \in Seq(Msg), CallsOfAssistant(s), NEW r \in Seq(Msg), NEW I, NEW h,
         Selects(h, r, s, I),
         \A i \in DOMAIN s :
           /\ i \in I => /\ s[i].role = "tool" => Called(s, i)
                         /\ s[i].answered => Answered(s, i)
           /\ s[i].calls /\ Answered(s, i) => i \in I
           /\ s[i].role = "tool" /\ Called(s, i) => i \in I
  PROVE  Paired(r)
  <1> /\ Len(s) \in Nat /\ DOMAIN s = 1..Len(s)
      /\ Len(r) \in Nat /\ DOMAIN r = 1..Len(r)
    OBVIOUS
  <1>1. /\ \A i \in 1..Len(r) : h[i] \in 1..Len(s) /\ r[i] = s[h[i]] /\ h[i] \in I
        /\ \A i, j \in 1..Len(r) : i < j => h[i] < h[j]
        /\ \A k \in 1..Len(s) : k \in I => \E i \in 1..Len(r) : h[i] = k
    BY DEF Selects, Embeds
  <1>2. ASSUME NEW i \in 1..Len(r), r[i].role = "tool" PROVE Called(r, i)
    <2>1. h[i] \in I /\ s[h[i]].role = "tool"
      BY <1>1, <1>2
    <2>2. Called(s, h[i])
      BY <1>1, <2>1
    <2>3. PICK j \in 1..(h[i] - 1) :
            s[j].calls /\ \A k \in (j + 1)..h[i] : s[k].role = "tool"
      BY <2>2 DEF Called
    <2>4. j \in 1..Len(s) /\ j + 1 \in (j + 1)..h[i]
      BY <2>3, <1>1
    <2>5. j \in I
      <3>1. Answered(s, j)
        BY <2>3, <2>4, <1>1 DEF Answered
      <3> QED BY <2>3, <2>4, <3>1
    <2>6. PICK m \in 1..Len(r) : h[m] = j
      BY <1>1, <2>4, <2>5
    <2>7. m < i
      <3>1. h[m] < h[i]
        BY <2>3, <2>6, <1>1
      <3>2. m # i /\ ~ (i < m)
        BY <3>1, <1>1
      <3> QED BY <3>2
    <2>8. ASSUME NEW k \in (m + 1)..i PROVE r[k].role = "tool"
      <3> k \in (m + 1)..i /\ m \in 1..Len(r) /\ i \in 1..Len(r) /\ Len(r) \in Nat
        OBVIOUS
      <3>1. k \in 1..Len(r) /\ m < k /\ (k < i \/ k = i)
        <4>1. m \in Nat /\ i \in Nat /\ k \in Int /\ m + 1 <= k /\ k <= i /\ i <= Len(r) /\ 1 <= m
          OBVIOUS
        <4>2. k \in Int /\ 1 <= k /\ k <= Len(r) /\ m < k
          BY ONLY <4>1, Len(r) \in Nat
        <4>3. k < i \/ k = i
          BY ONLY <4>1
        <4> QED BY ONLY <4>2, <4>3, Len(r) \in Nat
      <3>2. h[m] < h[k] /\ h[k] <= h[i] /\ h[k] \in 1..Len(s) /\ r[k] = s[h[k]]
        BY <3>1, <1>1, SMTT(30)
      <3>3. h[k] \in (j + 1)..h[i]
        BY <3>2, <2>6, <2>4
      <3> QED BY <3>2, <3>3, <2>3
    <2>9. m \in 1..(i - 1) /\ r[m].calls
      BY <2>3, <2>6, <2>7, <1>1
    <2> QED BY <2>8, <2>9 DEF Called
  <1>3. ASSUME NEW i \in 1..Len(r), r[i].answered PROVE Answered(r, i)
    <2>1. h[i] \in 1..Len(s) /\ s[h[i]].calls /\ Answered(s, h[i])
      BY <1>1, <1>3 DEF CallsOfAssistant
    <2>2. h[i] + 1 \in 1..Len(s) /\ s[h[i] + 1].role = "tool"
      BY <2>1 DEF Answered
    <2>3. h[i] + 1 \in I
      <3>1. Called(s, h[i] + 1)
        <4>1. h[i] \in 1..((h[i] + 1) - 1)
          BY <2>1
        <4>2. \A k \in (h[i] + 1)..(h[i] + 1) : s[k].role = "tool"
          BY <2>2, <2>1
        <4> QED BY <4>1, <4>2, <2>1 DEF Called
      <3> QED BY <2>2, <3>1
    <2>4. i + 1 \in DOMAIN r /\ h[i + 1] = h[i] + 1
      <3>1. h[i] + 1 \in DOMAIN s /\ i \in DOMAIN r
        BY <2>2
      <3> QED BY ONLY <3>1, <2>3, s \in Seq(Msg), r \in Seq(Msg), Selects(h, r, s, I), SelectsNext
    <2>5. r[i + 1].role = "tool"
      BY <2>2, <2>4, <1>1
    <2> QED BY <2>4, <2>5 DEF Answered
  <1> QED BY <1>2, <1>3 DEF Paired

(* fix_messages pairs calls and results, and leaves what is in front.      *)
LEMMA Fixed ==
  ASSUME NEW s \in Seq(Msg), CallsOfAssistant(s),
         NEW L \in {0, 1}, L < Len(s), s[L + 1].role = "user",
         \A i \in 1..L : s[i].role = "system"
  PROVE  LET r == FixMessages(s) IN
         /\ r \in Seq(Msg)
         /\ \E h : Embeds(h, r, s)
         /\ Paired(r)
         /\ L < Len(r)
         /\ \A i \in 1..(L + 1) : r[i] = s[i]
  <1> DEFINE I == {i \in DOMAIN s : /\ s[i].role = "tool" => Called(s, i)
                                    /\ s[i].calls => Answered(s, i)}
             r == FixMessages(s)
  <1> Len(s) \in Nat /\ DOMAIN s = 1..Len(s)
    OBVIOUS
  <1>1. r \in Seq(Msg) /\ \E h : Selects(h, r, s, I)
    <2> HIDE DEF I
    <2>1. Kept(s, I) \in Seq(Msg) /\ \E h : Selects(h, Kept(s, I), s, I)
      BY KeptSelects
    <2> QED BY <2>1 DEF FixMessages, I
  <1>2. PICK h : Selects(h, r, s, I)
    BY <1>1
  <1> HIDE DEF r
  <1> Len(r) \in Nat /\ DOMAIN r = 1..Len(r)
    BY <1>1
  <1>3. /\ \A i \in 1..Len(r) : h[i] \in 1..Len(s) /\ r[i] = s[h[i]] /\ h[i] \in I
        /\ \A i, j \in 1..Len(r) : i < j => h[i] < h[j]
        /\ \A k \in 1..Len(s) : k \in I => \E i \in 1..Len(r) : h[i] = k
    <2> HIDE DEF I
    <2> QED BY <1>2 DEF Selects, Embeds
  <1>4. L < Len(r) /\ \A i \in 1..(L + 1) : r[i] = s[i]
    <2>1. \A k \in 1..(L + 1) : k \in I
      <3>1. \A k \in 1..(L + 1) : k \in DOMAIN s /\ (k \in 1..L \/ k = L + 1)
        OBVIOUS
      <3>2. \A k \in 1..(L + 1) : s[k].role # "tool" /\ s[k].role # "assistant"
        BY <3>1
      <3> QED BY <3>1, <3>2 DEF CallsOfAssistant
    <2>2. L + 1 \in 0..Len(s)
      OBVIOUS
    <2> HIDE DEF I
    <2>3. L + 1 <= Len(r) /\ \A i \in 1..(L + 1) : r[i] = s[i]
      BY <1>1, <1>2, <2>1, <2>2, SelectsPrefix
    <2> QED BY <2>3
  <1>5. Paired(r)
    <2>1. \A i \in DOMAIN s : s[i].role = "tool" => ~ s[i].calls
      BY DEF CallsOfAssistant
    <2>2. \A i \in DOMAIN s : /\ s[i].calls => s[i].role = "assistant"
                             /\ s[i].answered => s[i].calls
      BY DEF CallsOfAssistant
    <2>3. \A i \in DOMAIN s :
            /\ i \in I => /\ s[i].role = "tool" => Called(s, i)
                          /\ s[i].answered => Answered(s, i)
            /\ s[i].calls /\ Answered(s, i) => i \in I
            /\ s[i].role = "tool" /\ Called(s, i) => i \in I
      BY <2>1, <2>2
    <2> HIDE DEF I
    <2> QED BY <1>1, <1>2, <2>3, PairsKept
  <1> HIDE DEF I
  <1>6. \E g : Embeds(g, r, s)
    BY <1>2 DEF Selects
  <1> QED BY <1>1, <1>4, <1>5, <1>6 DEF r

(* A sound list that begins as a conversation does is one, with the same   *)
(* system prompt.                                                          *)
LEMMA SameLead ==
  ASSUME NEW s, Talk(s), NEW r, Sound(r),
         LeadingSystem(s) < Len(r),
         r[LeadingSystem(s) + 1].role = "user",
         \A i \in 1..LeadingSystem(s) : r[i] = s[i]
  PROVE  StartsWithUser(r) /\ System(r) = System(s)
  <1> DEFINE L == LeadingSystem(s)
  <1>1. /\ s \in Seq(Msg) /\ Len(s) \in Nat
        /\ r \in Seq(Msg) /\ Len(r) \in Nat /\ DOMAIN r = 1..Len(r)
        /\ Sound(s) /\ StartsWithUser(s)
    BY DEF Talk, Sound
  <1>2. /\ L \in {0, 1} /\ s[L + 1].role = "user" /\ \A i \in 1..L : s[i].role = "system"
        /\ System(s) = IF s[1].role = "system" THEN <<s[1]>> ELSE <<>>
    BY <1>1, Lead
  <1> HIDE DEF L
  <1>3. r[L + 1].role = "user" /\ L + 1 \in DOMAIN r /\ \A i \in 1..L : r[i] = s[i]
    BY <1>1, <1>2 DEF L
  <1>4. StartsWithUser(r)
    <2>1. \A j \in 1..((L + 1) - 1) : r[j].role = "system"
      BY <1>2, <1>3
    <2> QED BY <1>3, <2>1 DEF StartsWithUser
  <1>5. System(r) = IF r[1].role = "system" THEN <<r[1]>> ELSE <<>>
    BY <1>4, Lead
  <1>6. CASE L = 0
    BY <1>2, <1>3, <1>4, <1>5, <1>6
  <1>7. CASE L = 1
    <2>1. 1 \in 1..L
      BY <1>7
    <2> QED BY <2>1, <1>2, <1>3, <1>4, <1>5
  <1> QED BY <1>2, <1>6, <1>7

(* What every way of compacting s does: the result r is a conversation     *)
(* with the same system prompt, and no message in it is new.               *)
Compacts(s, r) ==
  /\ Talk(r)
  /\ System(r) = System(s)
  /\ \A i \in DOMAIN r : r[i].n = 0 \/ \E k \in DOMAIN s : r[i].n = s[k].n

LEMMA CompactsTwice ==
  ASSUME NEW s, NEW r, NEW q, Compacts(s, r), Compacts(r, q)
  PROVE  Compacts(s, q)
  BY DEF Compacts

LEMMA CompactsItself ==
  ASSUME NEW s, Talk(s)
  PROVE  Compacts(s, s)
  BY DEF Compacts

LEMMA KeepLastCompacts ==
  ASSUME NEW s, Talk(s), NEW n \in Nat
  PROVE  Compacts(s, KeepLast(s, n))
  <1> DEFINE L == LeadingSystem(s)
             rest == Rest(s)
             kept == IF n >= Len(rest) THEN rest ELSE After(rest, Len(rest) - n)
             u == EnsureUserMessage(s, FromUser(kept))
             r == KeepLast(s, n)
  <1>1. /\ s \in Seq(Msg) /\ Len(s) \in Nat /\ DOMAIN s = 1..Len(s)
        /\ Sound(s) /\ StartsWithUser(s)
    BY DEF Talk, Sound
  <1>2. L \in {0, 1} /\ L < Len(s) /\ \A i \in 1..L : s[i].role = "system"
    BY <1>1, Lead
  <1>3. \E b \in (L + 1)..(Len(s) + 1) : kept = SubSeq(s, b, Len(s))
    <2>1. rest = SubSeq(s, L + 1, Len(s)) /\ L + 1 \in 1..(Len(s) + 1)
      BY <1>1, <1>2 DEF Rest, After
    <2>2. rest \in Seq(Msg)
      BY <2>1, <1>1, <1>2
    <2> HIDE DEF L, rest
    <2>3. CASE n >= Len(rest)
      <3>1. kept = SubSeq(s, L + 1, Len(s))
        BY <2>1, <2>3
      <3> HIDE DEF kept
      <3>2. L + 1 \in (L + 1)..(Len(s) + 1)
        BY ONLY <2>1, <1>1
      <3> QED BY <3>1, <3>2
    <2>4. CASE ~ (n >= Len(rest))
      <3>1. Len(rest) - n \in Nat
        BY <2>2, <2>4
      <3>2. kept = After(rest, Len(rest) - n)
        BY <2>4
      <3> HIDE DEF kept
      <3> QED BY <2>1, <3>1, <3>2, <1>1, SuffixOfSuffix
    <2> QED BY <2>3, <2>4
  <1>4. PICK a \in (L + 1)..(Len(s) + 1) : kept = SubSeq(s, a, Len(s))
    BY <1>3
  <1> HIDE DEF kept
  <1>5. \E b \in a..(Len(s) + 1) : FromUser(kept) = SubSeq(s, b, Len(s))
    <2>1. a \in 1..(Len(s) + 1)
      BY <1>1, <1>2
    <2> QED BY <2>1, <1>1, <1>4, FromUserSuffix
  <1>6. PICK b \in (L + 1)..(Len(s) + 1) : FromUser(kept) = SubSeq(s, b, Len(s))
    BY <1>1, <1>2, <1>5
  <1>7. /\ u \in Seq(Msg)
        /\ \E h : Embeds(h, u, s)
        /\ L < Len(u)
        /\ u[L + 1].role = "user"
        /\ \A i \in 1..L : u[i] = s[i]
    BY <1>6, Ensured
  <1> HIDE DEF u
  <1>8. Sound(u)
    BY <1>1, <1>7, EmbedsSound
  <1>9. r = FixMessages(u)
    BY DEF KeepLast, u, kept
  <1>10. /\ r \in Seq(Msg)
         /\ \E h : Embeds(h, r, u)
         /\ Paired(r)
         /\ L < Len(r)
         /\ \A i \in 1..(L + 1) : r[i] = u[i]
    <2> HIDE DEF r, L
    <2>1. CallsOfAssistant(u) /\ \A i \in 1..L : u[i].role = "system"
      BY <1>2, <1>7, <1>8 DEF Sound
    <2> QED BY <2>1, <1>2, <1>7, <1>9, Fixed, SMTT(30)
  <1> HIDE DEF r
  <1>11. Sound(r)
    BY <1>8, <1>10, EmbedsSound
  <1>12. StartsWithUser(r) /\ System(r) = System(s)
    <2>1. \A i \in 1..L : r[i] = s[i]
      BY <1>2, <1>7, <1>10
    <2>2. r[L + 1].role = "user"
      BY <1>2, <1>7, <1>10
    <2> QED BY <2>1, <2>2, <1>10, <1>11, SameLead
  <1>13. ASSUME NEW i \in DOMAIN r PROVE \E k \in DOMAIN s : r[i].n = s[k].n
    <2>1. \E k \in DOMAIN u : r[i] = u[k]
      BY ONLY <1>10, i \in DOMAIN r DEF Embeds
    <2>2. PICK k \in DOMAIN u : r[i] = u[k]
      BY ONLY <2>1
    <2>3. \E l \in DOMAIN s : u[k] = s[l]
      BY ONLY <1>7, k \in DOMAIN u DEF Embeds
    <2> QED BY ONLY <2>2, <2>3
  <1> QED BY <1>10, <1>11, <1>12, <1>13 DEF Compacts, Talk, r

(* The three truncations: the numbers they keep are natural numbers.       *)
LEMMA TruncationsCompact ==
  ASSUME NEW s, Talk(s)
  PROVE  /\ \A keep \in Nat \cup {NoLimit}, drop \in Nat : Compacts(s, TruncateByTurns(s, keep, drop))
         /\ \A drop \in Nat : Compacts(s, TruncateByDroppingOldestTurns(s, drop))
         /\ Compacts(s, TruncateByHalving(s))
  <1> DEFINE n == Len(Rest(s))
  <1>1. n \in Nat
    <2>1. s \in Seq(Msg) /\ LeadingSystem(s) \in {0, 1}
      BY Lead DEF Talk, Sound
    <2>2. Rest(s) \in Seq(Msg)
      BY <2>1 DEF Rest, After
    <2> QED BY <2>2
  <1> HIDE DEF n
  <1>2. ASSUME NEW keep \in Nat \cup {NoLimit}, NEW drop \in Nat
        PROVE  Compacts(s, TruncateByTurns(s, keep, drop))
    <2>1. CASE keep = NoLimit \/ n \div 2 <= keep
      BY <2>1, CompactsItself DEF TruncateByTurns, n
    <2>2. CASE ~ (keep = NoLimit \/ n \div 2 <= keep)
      <3> DEFINE m == Max({keep - drop + 1, 0})
      <3>1. m \in Nat
        <4>1. \E x \in {keep - drop + 1, 0} : \A y \in {keep - drop + 1, 0} : x >= y
          <5>1. keep - drop + 1 \in Int
            BY <2>2
          <5>2. keep - drop + 1 >= 0 \/ 0 >= keep - drop + 1
            BY <5>1
          <5> QED BY <5>1, <5>2
        <4>2. m \in {keep - drop + 1, 0} /\ \A y \in {keep - drop + 1, 0} : m >= y
          BY <4>1 DEF Max
        <4> HIDE DEF m
        <4> QED BY <4>2, <2>2
      <3> HIDE DEF m
      <3>2. 2 * m \in Nat
        BY <3>1
      <3>3. TruncateByTurns(s, keep, drop) = KeepLast(s, 2 * m)
        BY <2>2 DEF TruncateByTurns, n, m
      <3> QED BY <3>2, <3>3, KeepLastCompacts
    <2> QED BY <2>1, <2>2
  <1>3. ASSUME NEW drop \in Nat
        PROVE  Compacts(s, TruncateByDroppingOldestTurns(s, drop))
    <2>1. CASE drop = 0
      BY <2>1, CompactsItself DEF TruncateByDroppingOldestTurns
    <2>2. CASE drop # 0
      <3> DEFINE m == IF n \div 2 <= drop THEN 0 ELSE n - 2 * drop
      <3>1. m \in Nat
        BY <1>1
      <3>2. TruncateByDroppingOldestTurns(s, drop) = KeepLast(s, m)
        BY <2>2 DEF TruncateByDroppingOldestTurns, n
      <3> QED BY <3>1, <3>2, KeepLastCompacts
    <2> QED BY <2>1, <2>2
  <1>4. Compacts(s, TruncateByHalving(s))
    <2>1. CASE Len(s) <= 2 \/ n \div 2 = 0
      BY <2>1, CompactsItself DEF TruncateByHalving, n
    <2>2. CASE ~ (Len(s) <= 2 \/ n \div 2 = 0)
      <3>1. n - n \div 2 \in Nat
        BY <1>1
      <3>2. TruncateByHalving(s) = KeepLast(s, n - n \div 2)
        BY <2>2 DEF TruncateByHalving, n
      <3> QED BY <3>1, <3>2, KeepLastCompacts
    <2> QED BY <2>1, <2>2
  <1> QED BY <1>2, <1>3, <1>4

-----------------------------------------------------------------------------
(***************************************************************************)
(* LLMSummaryCompressor.  A summary stands between the system prompt and   *)
(* what begins with a user message.                                        *)
(***************************************************************************)
LEMMA SummaryCompacts ==
  ASSUME NEW s, Talk(s), NEW start \in (LeadingSystem(s) + 2)..(Len(s) + 1),
         start <= Len(s) => s[start].role = "user"
  PROVE  Compacts(s, System(s) \o Summary \o SubSeq(s, start, Len(s)))
  <1> DEFINE L == LeadingSystem(s)
             tail == SubSeq(s, start, Len(s))
             lead == System(s)
             f == lead \o Summary
             r == f \o tail
  <1>1. /\ s \in Seq(Msg) /\ Len(s) \in Nat /\ DOMAIN s = 1..Len(s)
        /\ Sound(s) /\ StartsWithUser(s) /\ Paired(s)
    BY DEF Talk, Sound
  <1>2. L \in {0, 1} /\ L < Len(s) /\ \A i \in 1..L : s[i].role = "system"
    BY <1>1, Lead
  <1>3. lead \in Seq(Msg) /\ Len(lead) = L /\ \A i \in 1..L : lead[i] = s[i]
    <2>1. \A i \in 1..L : s[i] \in Msg
      BY <1>1, <1>2
    <2> QED BY <2>1, <1>2, SubSeqProperties DEF System, Upto
  <1>4. /\ Summary \in Seq(Msg) /\ Len(Summary) = 2
        /\ Summary[1] = Plain("user", 0)
        /\ Summary[2] = Plain("assistant", 0)
    BY ContextManagerAssumption DEF Summary, Plain, Message, Msg, Roles, Contents
  <1>5. /\ tail \in Seq(Msg) /\ Len(tail) = Len(s) + 1 - start
        /\ \A i \in 1..(Len(s) + 1 - start) : tail[i] = s[start + i - 1]
    <2>1. \A i \in start..Len(s) : s[i] \in Msg
      BY <1>1, <1>2
    <2> QED BY <2>1, <1>1, <1>2, SubSeqProperties, SMTT(20)
  <1>6. start \in Nat /\ start >= L + 2 /\ start <= Len(s) + 1
    BY <1>1, <1>2
  <1> HIDE DEF L, tail, lead, Summary
  <1>7. /\ f \in Seq(Msg) /\ Len(f) = L + 2
        /\ \A i \in 1..L : f[i] = s[i]
        /\ f[L + 1] = Plain("user", 0)
        /\ f[L + 2] = Plain("assistant", 0)
    <2>1. /\ f \in Seq(Msg) /\ Len(f) = Len(lead) + Len(Summary)
          /\ \A i \in 1..(Len(lead) + Len(Summary)) :
               f[i] = IF i <= Len(lead) THEN lead[i] ELSE Summary[i - Len(lead)]
      <3>1. lead \in Seq(Msg) /\ Summary \in Seq(Msg)
        BY <1>3, <1>4
      <3> QED BY ONLY <3>1, ConcatProperties
    <2> HIDE DEF f
    <2>2. f[L + 1] = Summary[1] /\ f[L + 2] = Summary[2]
      <3>1. \A i \in {1, 2} : /\ L + i \in 1..(Len(lead) + Len(Summary))
                             /\ ~ (L + i <= Len(lead)) /\ (L + i) - Len(lead) = i
        BY <1>2, <1>3, <1>4
      <3> QED BY <3>1, <2>1
    <2> QED BY <2>1, <2>2, <1>2, <1>3, <1>4
  <1> HIDE DEF f
  <1> DEFINE from(i) == start + (i - (L + 2)) - 1
  <1>8. /\ r \in Seq(Msg) /\ Len(r) = L + 2 + (Len(s) + 1 - start)
        /\ \A i \in 1..(L + 2) : r[i] = f[i]
        /\ \A i \in (L + 3)..Len(r) : from(i) \in start..Len(s) /\ r[i] = s[from(i)]
    <2>1. /\ r \in Seq(Msg) /\ Len(r) = Len(f) + Len(tail)
          /\ \A i \in 1..(Len(f) + Len(tail)) :
               r[i] = IF i <= Len(f) THEN f[i] ELSE tail[i - Len(f)]
      <3>1. f \in Seq(Msg) /\ tail \in Seq(Msg)
        BY <1>5, <1>7
      <3> QED BY ONLY <3>1, ConcatProperties
    <2> HIDE DEF r
    <2>2. ASSUME NEW i \in (L + 3)..Len(r)
          PROVE  from(i) \in start..Len(s) /\ r[i] = s[from(i)]
      <3>1. i - (L + 2) \in 1..(Len(s) + 1 - start)
        <4>1. Len(r) = L + 2 + (Len(s) + 1 - start)
          BY <2>1, <1>5, <1>7
        <4>2. L \in Int /\ start \in Int /\ Len(s) \in Int /\ i \in (L + 3)..Len(r)
          BY <1>1, <1>2, <1>6
        <4> QED BY ONLY <4>1, <4>2
      <3>2. r[i] = tail[i - (L + 2)]
        BY <2>1, <1>2, <1>7, SMTT(20)
      <3>3. tail[i - (L + 2)] = s[from(i)]
        BY ONLY <3>1, <1>5
      <3>4. from(i) \in start..Len(s)
        BY ONLY <3>1, <1>1, <1>6
      <3> QED BY ONLY <3>2, <3>3, <3>4
    <2>3. ASSUME NEW i \in 1..(L + 2) PROVE r[i] = f[i]
      <3>1. i \in 1..(Len(f) + Len(tail)) /\ i <= Len(f)
        BY <1>1, <1>2, <1>5, <1>6, <1>7
      <3> QED BY <3>1, <2>1
    <2> QED BY <2>1, <2>2, <2>3, <1>5, <1>7
  <1> HIDE DEF r
  <1>9. Len(r) \in Nat /\ DOMAIN r = 1..Len(r) /\ L + 2 <= Len(r)
    BY <1>8, <1>1, <1>2, <1>6
  <1>10. \A i \in 1..Len(r) : i \in 1..L \/ i = L + 1 \/ i = L + 2 \/ i \in (L + 3)..Len(r)
    BY <1>2, <1>9
  <1>11. /\ \A i \in 1..L : r[i] = s[i] /\ i \in 1..Len(s) /\ i < start
         /\ r[L + 1] = Plain("user", 0)
         /\ r[L + 2] = Plain("assistant", 0)
    <2>1. L + 1 \in 1..(L + 2) /\ L + 2 \in 1..(L + 2) /\ \A i \in 1..L : i \in 1..(L + 2)
      BY <1>2
    <2>2. \A i \in 1..L : i \in 1..Len(s) /\ i < start
      BY <1>1, <1>2, <1>6
    <2> QED BY <2>1, <2>2, <1>7, <1>8
  <1>12. /\ r[L + 1].n = 0 /\ r[L + 1].role = "user"
        /\ r[L + 1].calls = FALSE /\ r[L + 1].answered = FALSE
        /\ r[L + 2].n = 0 /\ r[L + 2].role = "assistant"
        /\ r[L + 2].calls = FALSE /\ r[L + 2].answered = FALSE
    BY <1>11 DEF Plain, Message
  <1>13. InOrder(r)
    <2> DEFINE g(i) == IF i <= L THEN i ELSE from(i)
    <2>1. ASSUME NEW i \in 1..Len(r), r[i].n > 0
          PROVE  g(i) \in 1..Len(s) /\ r[i] = s[g(i)] /\ (i <= L \/ i >= L + 3)
      <3>1. i \in 1..L \/ i \in (L + 3)..Len(r)
        BY <2>1, <1>10, <1>12
      <3>2. CASE i \in 1..L
        BY <3>2, <1>2, <1>11
      <3>3. CASE i \in (L + 3)..Len(r)
        <4>1. from(i) \in 1..Len(s) /\ r[i] = s[from(i)] /\ ~ (i <= L)
          BY <3>3, <1>2, <1>6, <1>8
        <4> QED BY <4>1, <3>3, <1>2
      <3> QED BY <3>1, <3>2, <3>3
    <2>2. ASSUME NEW i \in 1..Len(r), NEW j \in 1..Len(r), i < j,
                 i <= L \/ i >= L + 3, j <= L \/ j >= L + 3
          PROVE  g(i) < g(j)
      BY <2>2, <1>2, <1>6, <1>9
    <2> HIDE DEF g, from
    <2>3. ASSUME NEW i \in 1..Len(r), NEW j \in 1..Len(r), i < j, r[i].n > 0, r[j].n > 0
          PROVE  r[i].n < r[j].n
      BY <2>1, <2>2, <2>3, <1>1 DEF Sound, InOrder
    <2> QED BY <2>3, <1>9 DEF InOrder
  <1>14. CallsOfAssistant(r)
    <2>1. ASSUME NEW i \in 1..Len(r), r[i].calls \/ r[i].answered
          PROVE  r[i].role = "assistant" /\ r[i].calls
      <3>1. i \in 1..L \/ i \in (L + 3)..Len(r)
        BY <2>1, <1>10, <1>12
      <3>2. \E k \in 1..Len(s) : r[i] = s[k]
        BY <3>1, <1>2, <1>6, <1>8, <1>11, SMTT(20)
      <3> QED BY <3>2, <2>1, <1>1 DEF Sound, CallsOfAssistant
    <2> QED BY <2>1, <1>9 DEF CallsOfAssistant
  <1>15. ASSUME NEW i \in 1..Len(r), r[i].role = "system" PROVE i = 1
    <2>1. i \in 1..L \/ i \in (L + 3)..Len(r)
      BY <1>15, <1>10, <1>12
    <2>2. CASE i \in 1..L
      BY <2>2, <1>2
    <2>3. CASE i \in (L + 3)..Len(r)
      <3>1. from(i) \in 1..Len(s) /\ from(i) # 1 /\ r[i] = s[from(i)]
        BY <2>3, <1>2, <1>6, <1>8
      <3> QED BY <3>1, <1>15, <1>1 DEF Sound
    <2> QED BY <2>1, <2>2, <2>3
  <1>16. Sound(r)
    BY <1>8, <1>9, <1>13, <1>14, <1>15 DEF Sound
  <1>17. ASSUME NEW i \in 1..Len(r), r[i].role = "tool" PROVE Called(r, i)
    <2>1. i \in (L + 3)..Len(r)
      BY <1>17, <1>10, <1>11, <1>12, <1>2
    <2>2. from(i) \in start..Len(s) /\ s[from(i)].role = "tool"
      BY <2>1, <1>8, <1>17
    <2>3. PICK j \in 1..(from(i) - 1) :
            s[j].calls /\ \A k \in (j + 1)..from(i) : s[k].role = "tool"
      BY <2>2, <1>1, <1>6 DEF Called, Paired
    <2>4. j >= start
      <3>1. ASSUME j < start PROVE FALSE
        <4>1. start \in (j + 1)..from(i)
          BY <3>1, <2>2, <1>6
        <4> QED BY <4>1, <2>3, <2>2, <1>6
      <3> QED BY <3>1, <1>6
    <2> DEFINE m == j - start + L + 3
    <2>5. m \in 1..(i - 1) /\ m \in (L + 3)..Len(r) /\ from(m) = j
      BY <2>1, <2>2, <2>4, <1>2, <1>6, <1>9
    <2>6. r[m].calls
      BY <2>5, <2>3, <1>8, ZenonT(30)
    <2>8. /\ i \in Int /\ j \in Int /\ start \in Int /\ L \in Int /\ Len(r) \in Int
          /\ from(i) = start + i - L - 3
      BY <2>1, <2>2, <1>2, <1>6, <1>9
    <2>7. ASSUME NEW k \in (m + 1)..i PROVE r[k].role = "tool"
      <3>1. k \in Int /\ m + 1 <= k /\ k <= i /\ L + 3 <= m /\ i <= Len(r)
        BY <2>1, <2>5, <1>2, <1>9
      <3>2. k \in (L + 3)..Len(r)
        BY <3>1, <2>8
      <3>3. from(k) \in (j + 1)..from(i)
        <4>1. from(k) = start + k - L - 3
          BY <3>1, <2>8
        <4>2. j + 1 <= start + k - L - 3 /\ start + k - L - 3 <= start + i - L - 3
          BY <3>1, <2>8
        <4> HIDE DEF from
        <4> QED BY <3>1, <4>1, <4>2, <2>8
      <3> HIDE DEF from, m
      <3> QED BY <3>2, <3>3, <2>3, <1>8
    <2> HIDE DEF m
    <2> QED BY <2>5, <2>6, <2>7 DEF Called
  <1>18. ASSUME NEW i \in 1..Len(r), r[i].answered PROVE Answered(r, i)
    <2>1. i \in 1..L \/ i \in (L + 3)..Len(r)
      BY <1>18, <1>10, <1>12
    <2>2. i \notin 1..L
      <3>1. ASSUME i \in 1..L PROVE FALSE
        BY <3>1, <1>18, <1>2, <1>11, <1>1 DEF Sound, CallsOfAssistant
      <3> QED BY <3>1
    <2>3. i \in (L + 3)..Len(r) /\ from(i) \in start..Len(s) /\ s[from(i)].answered
      BY <2>1, <2>2, <1>8, <1>18
    <2>4. from(i) < Len(s) /\ s[from(i) + 1].role = "tool"
      <3>1. from(i) \in DOMAIN s
        BY <2>3, <1>1, <1>2, <1>6
      <3> HIDE DEF from
      <3> QED BY <2>3, <3>1, <1>1 DEF Paired, Answered
    <2>5. i + 1 \in (L + 3)..Len(r) /\ from(i + 1) = from(i) + 1 /\ i < Len(r)
      <3>1. /\ i \in Int /\ L \in Int /\ start \in Int /\ Len(s) \in Int /\ Len(r) \in Int
            /\ L + 3 <= i
        BY <2>3, <1>1, <1>2, <1>6, <1>9
      <3>2. from(i) = start + i - L - 3 /\ from(i + 1) = start + i - L - 2
        BY <3>1
      <3>3. Len(r) = L + 2 + (Len(s) + 1 - start) /\ from(i) < Len(s)
        BY <2>4, <1>8
      <3> HIDE DEF from
      <3> QED BY <3>1, <3>2, <3>3, SMTT(30)
    <2> QED BY <2>4, <2>5, <1>8 DEF Answered
  <1>19. Paired(r)
    BY <1>9, <1>17, <1>18 DEF Paired
  <1>20. StartsWithUser(r) /\ System(r) = System(s)
    <2>1. L < Len(r) /\ r[L + 1].role = "user" /\ \A i \in 1..L : r[i] = s[i]
      <3>1. L < Len(r)
        BY <1>2, <1>9
      <3> QED BY <3>1, <1>11, <1>12
    <2> QED BY <2>1, <1>16, SameLead DEF L
  <1>21. ASSUME NEW i \in DOMAIN r PROVE r[i].n = 0 \/ \E k \in DOMAIN s : r[i].n = s[k].n
    <2>1. CASE i \in 1..L
      BY <2>1, <1>1, <1>11
    <2>2. CASE i \in (L + 3)..Len(r)
      <3>1. from(i) \in DOMAIN s /\ r[i] = s[from(i)]
        <4>1. \A k \in start..Len(s) : k \in DOMAIN s
          BY <1>1, <1>2, <1>6
        <4> HIDE DEF from
        <4> QED BY <2>2, <1>8, <4>1
      <3> HIDE DEF from
      <3> QED BY <3>1
    <2> QED BY <2>1, <2>2, <1>9, <1>10, <1>12
  <1> QED BY <1>16, <1>19, <1>20, <1>21 DEF Compacts, Talk, r, f, lead, tail

(* Wherever the recent rounds start.                                       *)
LEMMA SummarisedCompacts ==
  ASSUME NEW s, Talk(s), NEW split \in Splits(s)
  PROVE  Compacts(s, Summarised(s, split))
  <1> DEFINE L == LeadingSystem(s)
             start == RecentStart(s, split)
  <1>1. s \in Seq(Msg) /\ Len(s) \in Nat /\ DOMAIN s = 1..Len(s)
    BY DEF Talk, Sound
  <1>2. /\ L \in {0, 1} /\ L < Len(s) /\ s[L + 1].role = "user"
        /\ \A i \in 1..L : s[i].role = "system"
    BY Lead DEF Talk
  <1>3. ~ OnlySystem(s)
    BY <1>1, <1>2 DEF OnlySystem
  <1>4. start \in 1..(Len(s) + 1) /\ (start <= Len(s) /\ start # 1 => s[start].role = "user")
    <2>1. split \in 1..(Len(s) + 1) /\ (split <= Len(s) /\ split # 1 => s[split].role = "user")
      BY <1>1 DEF Splits, RoundStarts
    <2>2. CASE EndsWithUser(s) /\ split > Len(s)
      BY <2>2, <1>1, <1>2 DEF RecentStart, EndsWithUser
    <2>3. CASE ~ (EndsWithUser(s) /\ split > Len(s))
      BY <2>1, <2>3 DEF RecentStart
    <2> QED BY <2>2, <2>3
  <1> HIDE DEF start
  <1>5. CASE ~ OnlySystem(Upto(s, start - 1))
    <2>1. start >= L + 2
      <3>1. ASSUME start < L + 2 PROVE OnlySystem(Upto(s, start - 1))
        <4> DEFINE x == SubSeq(s, 1, start - 1)
        <4>1. start - 1 \in Int /\ \A i \in 1..(start - 1) : i \in 1..L /\ i \in 1..Len(s)
          BY <3>1, <1>1, <1>2, <1>4
        <4>2. /\ x \in Seq(Msg)
              /\ Len(x) = start - 1
              /\ \A i \in 1..(start - 1) : x[i] = s[1 + i - 1]
          <5>1. \A i \in 1..(start - 1) : s[i] \in Msg
            BY <1>1, <4>1
          <5> QED BY <5>1, <4>1, <1>4, SubSeqProperties
        <4> HIDE DEF x
        <4>3. \A i \in DOMAIN x : i \in 1..L /\ x[i] = s[i]
          BY <4>1, <4>2
        <4>4. OnlySystem(x)
          BY <4>3, <1>2 DEF OnlySystem
        <4> QED BY <4>4 DEF Upto, x
      <3> QED BY <3>1, <1>5, <1>2, <1>4
    <2>2. start \in (L + 2)..(Len(s) + 1) /\ (start <= Len(s) => s[start].role = "user")
      BY <2>1, <1>1, <1>2, <1>4
    <2>3. Summarised(s, split) = System(s) \o Summary \o SubSeq(s, start, Len(s))
      <3>1. (start - 1) + 1 = start
        BY <1>4, <1>1
      <3>2. After(s, start - 1) = SubSeq(s, start, Len(s))
        BY <3>1 DEF After
      <3>3. Summarised(s, split) = System(s) \o Summary \o After(s, start - 1)
        BY <1>3, <1>5 DEF Summarised, start
      <3> QED BY <3>2, <3>3
    <2> QED BY <2>2, <2>3, SummaryCompacts
  <1>6. CASE OnlySystem(Upto(s, start - 1)) /\ EndsWithUser(s)
    <2>1. Summarised(s, split) = s
      BY <1>6 DEF Summarised, start
    <2> QED BY <2>1, CompactsItself
  <1>7. CASE OnlySystem(Upto(s, start - 1)) /\ ~ EndsWithUser(s)
    <2> DEFINE none == Len(s) + 1
    <2>1. Summarised(s, split) = System(s) \o Summary
      BY <1>3, <1>7 DEF Summarised, start
    <2>2. Compacts(s, System(s) \o Summary \o SubSeq(s, none, Len(s)))
      <3>1. none \in (L + 2)..(Len(s) + 1) /\ ~ (none <= Len(s))
        BY <1>1, <1>2
      <3> QED BY <3>1, SummaryCompacts
    <2>3. SubSeq(s, none, Len(s)) = <<>>
      BY <1>1, SubSeqEmpty
    <2>4. System(s) \in Seq(Msg) /\ Summary \in Seq(Msg)
      <3>1. \A i \in 1..L : s[i] \in Msg
        BY <1>1, <1>2
      <3>2. System(s) \in Seq(Msg)
        BY <3>1, <1>2, SubSeqProperties DEF System, Upto
      <3> QED BY <3>2, ContextManagerAssumption DEF Summary, Plain, Message, Msg, Roles, Contents
    <2>5. System(s) \o Summary \in Seq(Msg)
      BY <2>4, ConcatProperties
    <2>6. System(s) \o Summary \o SubSeq(s, none, Len(s)) = System(s) \o Summary
      <3> DEFINE f == System(s) \o Summary
      <3>1. f \o <<>> = f
        BY <2>5, ConcatEmptySeq
      <3> QED BY <3>1, <2>3
    <2> QED BY <2>1, <2>2, <2>6
  <1> QED BY <1>5, <1>6, <1>7

-----------------------------------------------------------------------------
(***************************************************************************)
(* The conversation.                                                       *)
(***************************************************************************)
Within(s, m) == \A i \in DOMAIN s : s[i].n <= m

ContextInv == TypeOK /\ Talk(messages) /\ Within(messages, said)

(* process compacts: whichever of its steps are taken.                     *)
LEMMA ProcessCompacts == ContextInv /\ Process => Compacts(messages, messages')
  <1> SUFFICES ASSUME ContextInv, Process PROVE Compacts(messages, messages')
    OBVIOUS
  <1>1. /\ config.keep \in Nat \cup {NoLimit} /\ config.drop \in Nat
        /\ Talk(messages)
    BY ContextManagerAssumption DEF ContextInv, TypeOK
  <1>2. Compacts(messages, Enforced)
    BY <1>1, TruncationsCompact DEF Enforced
  <1>3. CASE UNCHANGED messages
    BY <1>1, <1>3, CompactsItself
  <1>4. CASE messages' = Enforced
    BY <1>2, <1>4
  <1>5. ASSUME NEW compressed \in Compressed(Enforced),
               messages' \in {compressed, TruncateByHalving(compressed)}
        PROVE  Compacts(messages, messages')
    <2>1. Talk(Enforced)
      BY <1>2 DEF Compacts
    <2>2. Compacts(Enforced, compressed)
      <3>1. CASE compressed = TruncateByDroppingOldestTurns(Enforced, config.drop)
        BY <3>1, <1>1, <2>1, TruncationsCompact
      <3>2. CASE compressed = Enforced
        BY <3>2, <2>1, CompactsItself
      <3>3. ASSUME NEW split \in Splits(Enforced), compressed = Summarised(Enforced, split)
            PROVE  Compacts(Enforced, compressed)
        BY <3>3, <2>1, SummarisedCompacts
      <3> QED BY <1>5, <3>1, <3>2, <3>3 DEF Compressed
    <2>3. Compacts(messages, compressed)
      BY <1>2, <2>2, CompactsTwice
    <2>4. Compacts(compressed, TruncateByHalving(compressed))
      BY <2>3, TruncationsCompact DEF Compacts
    <2>5. Compacts(messages, TruncateByHalving(compressed))
      BY <2>3, <2>4, CompactsTwice
    <2> QED BY <1>5, <2>3, <2>5
  <1> QED BY <1>3, <1>4, <1>5 DEF Process

LEMMA ProcessStep == ContextInv /\ Process => ContextInv' /\ System(messages') = System(messages)
  <1> SUFFICES ASSUME ContextInv, Process
               PROVE  ContextInv' /\ System(messages') = System(messages)
    OBVIOUS
  <1>1. Compacts(messages, messages')
    BY ProcessCompacts
  <1>2. Talk(messages)' /\ System(messages') = System(messages)
    BY <1>1 DEF Compacts, Talk, Sound, InOrder, CallsOfAssistant, Paired, StartsWithUser, Called, Answered
  <1>3. messages' \in Seq(Msg) /\ messages' # <<>>
    BY <1>2 DEF Talk, Sound, StartsWithUser
  <1>4. TypeOK'
    BY <1>3 DEF ContextInv, TypeOK, Process, Msg
  <1>5. Within(messages, said)'
    <2>1. said \in Nat /\ said' = said
      BY ContextManagerAssumption DEF ContextInv, TypeOK, Process
    <2>2. \A k \in DOMAIN messages : messages[k].n <= said
      BY DEF ContextInv, Within
    <2> QED BY <1>1, <2>1, <2>2 DEF Compacts, Within
  <1> QED BY <1>2, <1>4, <1>5 DEF ContextInv

(* What is said next goes behind a conversation, with the numbers that     *)
(* follow.                                                                 *)
LEMMA Extended ==
  ASSUME NEW s, Talk(s), NEW m \in Nat, Within(s, m),
         NEW r \in Seq(Msg), Len(s) <= Len(r),
         \A i \in 1..Len(s) : r[i] = s[i],
         \A i \in (Len(s) + 1)..Len(r) :
           /\ r[i].n = m + i - Len(s)
           /\ r[i].role # "system"
           /\ r[i].calls => r[i].role = "assistant"
           /\ r[i].answered => r[i].calls /\ Answered(r, i)
           /\ r[i].role = "tool" => Called(r, i)
  PROVE  /\ Talk(r)
         /\ System(r) = System(s)
         /\ Within(r, m + Len(r) - Len(s))
  <1> /\ s \in Seq(Msg) /\ Len(s) \in Nat /\ DOMAIN s = 1..Len(s)
      /\ Len(r) \in Nat /\ DOMAIN r = 1..Len(r)
    BY DEF Talk, Sound
  <1>1. \A i \in 1..Len(r) : i \in 1..Len(s) \/ i \in (Len(s) + 1)..Len(r)
    OBVIOUS
  <1>2. \A i \in 1..Len(s) : i \in 1..Len(r) /\ r[i] = s[i] /\ s[i].n <= m /\ s[i].n \in Nat
    <2>1. ASSUME NEW i \in 1..Len(s) PROVE s[i].n \in Nat
      <3>1. s[i] \in Msg
        OBVIOUS
      <3>2. s[i].n \in 0..MaxMessages
        BY <3>1 DEF Msg
      <3> QED BY <3>2, ContextManagerAssumption
    <2>2. \A i \in 1..Len(s) : s[i].n <= m
      BY DEF Within
    <2>3. \A i \in 1..Len(s) : i \in 1..Len(r)
      BY ONLY Len(s) \in Nat, Len(r) \in Nat, Len(s) <= Len(r)
    <2>4. \A i \in 1..Len(s) : r[i] = s[i]
      OBVIOUS
    <2> QED BY ONLY <2>1, <2>2, <2>3, <2>4
  <1>3. InOrder(r)
    <2>1. ASSUME NEW i \in 1..Len(r), NEW j \in 1..Len(r), i < j, r[i].n > 0, r[j].n > 0
          PROVE  r[i].n < r[j].n
      <3>1. CASE j \in 1..Len(s)
        <4>1. i \in 1..Len(s)
          BY <2>1, <3>1
        <4> QED BY <2>1, <3>1, <4>1, <1>2 DEF Talk, Sound, InOrder
      <3>2. CASE j \in (Len(s) + 1)..Len(r) /\ i \in 1..Len(s)
        <4>1. r[j].n = m + j - Len(s) /\ j - Len(s) >= 1 /\ j \in Int
          BY <3>2
        <4>2. r[i].n <= m /\ r[i].n \in Nat
          BY <3>2, <1>2
        <4> QED BY <4>1, <4>2
      <3>3. CASE j \in (Len(s) + 1)..Len(r) /\ i \in (Len(s) + 1)..Len(r)
        <4>1. r[j].n = m + j - Len(s) /\ r[i].n = m + i - Len(s)
          BY <3>3
        <4> QED BY <4>1, <2>1, <3>3
      <3> QED BY <3>1, <3>2, <3>3, <1>1
    <2> QED BY <2>1 DEF InOrder
  <1>4. CallsOfAssistant(r)
    BY <1>1, <1>2 DEF Talk, Sound, CallsOfAssistant
  <1>5. \A i \in DOMAIN r : r[i].role = "system" => i = 1
    BY <1>1, <1>2 DEF Talk, Sound
  <1>6. Sound(r)
    BY <1>3, <1>4, <1>5 DEF Sound
  <1>7. ASSUME NEW i \in 1..Len(s)
        PROVE  (r[i].role = "tool" => Called(r, i)) /\ (r[i].answered => Answered(r, i))
    <2>1. ASSUME r[i].role = "tool" PROVE Called(r, i)
      <3>1. Called(s, i)
        BY <2>1, <1>2 DEF Talk, Paired
      <3>2. PICK j \in 1..(i - 1) : s[j].calls /\ \A k \in (j + 1)..i : s[k].role = "tool"
        BY <3>1 DEF Called
      <3>3. j \in 1..Len(s) /\ \A k \in (j + 1)..i : k \in 1..Len(s)
        OBVIOUS
      <3> QED BY <3>2, <3>3, <1>2, SMTT(30) DEF Called
    <2>2. ASSUME r[i].answered PROVE Answered(r, i)
      <3>1. Answered(s, i)
        BY <2>2, <1>2 DEF Talk, Paired
      <3>2. i + 1 \in 1..Len(s)
        BY <3>1 DEF Answered
      <3> QED BY <3>1, <3>2, <1>2 DEF Answered
    <2> QED BY <2>1, <2>2
  <1>8. Paired(r)
    BY <1>1, <1>7 DEF Paired
  <1>9. /\ LeadingSystem(s) \in {0, 1} /\ LeadingSystem(s) < Len(s)
        /\ s[LeadingSystem(s) + 1].role = "user"
    BY Lead DEF Talk
  <1>10. StartsWithUser(r) /\ System(r) = System(s)
    <2>1. /\ LeadingSystem(s) < Len(r)
          /\ LeadingSystem(s) + 1 \in 1..Len(s)
          /\ \A i \in 1..LeadingSystem(s) : i \in 1..Len(s)
      BY <1>9
    <2> QED BY <2>1, <1>2, <1>6, <1>9, SameLead
  <1>11. Within(r, m + Len(r) - Len(s))
    <2>1. ASSUME NEW i \in 1..Len(r) PROVE r[i].n <= m + Len(r) - Len(s)
      <3>1. CASE i \in 1..Len(s)
        BY <3>1, <1>2
      <3>2. CASE i \in (Len(s) + 1)..Len(r)
        <4>1. r[i].n = m + i - Len(s)
          BY <3>2
        <4> QED BY <4>1, <3>2
      <3> QED BY <1>1, <3>1, <3>2
    <2> QED BY <2>1 DEF Within
  <1> QED BY <1>6, <1>8, <1>10, <1>11 DEF Talk

(* A request or an answer.                                                 *)
LEMMA AppendTalk ==
  ASSUME NEW s, Talk(s), NEW m \in Nat, Within(s, m), m < MaxMessages,
         NEW role \in {"user", "assistant"}, NEW content \in Contents
  PROVE  LET r == Append(s, Message(role, FALSE, FALSE, content, m + 1)) IN
         /\ Talk(r)
         /\ System(r) = System(s)
         /\ Within(r, m + 1)
  <1> DEFINE x == Message(role, FALSE, FALSE, content, m + 1)
             r == Append(s, x)
  <1>1. s \in Seq(Msg) /\ Len(s) \in Nat /\ DOMAIN s = 1..Len(s)
    BY DEF Talk, Sound
  <1>2. x \in Msg /\ x.role = role /\ x.calls = FALSE /\ x.answered = FALSE /\ x.n = m + 1
    BY ContextManagerAssumption DEF Message, Msg, Roles
  <1> HIDE DEF x
  <1>3. /\ r \in Seq(Msg) /\ Len(r) = Len(s) + 1
        /\ \A i \in 1..Len(s) : r[i] = s[i]
        /\ r[Len(s) + 1] = x
    BY <1>1, <1>2, AppendProperties
  <1> HIDE DEF r
  <1>4. \A i \in (Len(s) + 1)..Len(r) : i = Len(s) + 1 /\ m + i - Len(s) = m + 1
    BY <1>1, <1>3
  <1>5. Len(s) <= Len(r) /\ m + Len(r) - Len(s) = m + 1
    BY <1>1, <1>3
  <1>6. \A i \in (Len(s) + 1)..Len(r) :
          /\ r[i].n = m + i - Len(s)
          /\ r[i].role # "system"
          /\ r[i].calls => r[i].role = "assistant"
          /\ r[i].answered => r[i].calls /\ Answered(r, i)
          /\ r[i].role = "tool" => Called(r, i)
    BY <1>2, <1>3, <1>4
  <1>7. Talk(r) /\ System(r) = System(s) /\ Within(r, m + Len(r) - Len(s))
    BY <1>3, <1>5, <1>6, Extended
  <1> QED BY <1>5, <1>7 DEF r, x

(* A message with calls, and the results recorded with them.               *)
LEMMA CallsTalk ==
  ASSUME NEW s, Talk(s), NEW m \in Nat, Within(s, m),
         NEW results \in 0..(MaxMessages - m - 1), NEW content \in Contents
  PROVE  LET r == s \o <<Message("assistant", TRUE, results > 0, content, m + 1)>> \o
                    [i \in 1..results |-> Plain("tool", m + 1 + i)]
         IN
         /\ Talk(r)
         /\ System(r) = System(s)
         /\ Within(r, m + 1 + results)
  <1> DEFINE call == <<Message("assistant", TRUE, results > 0, content, m + 1)>>
             tail == [i \in 1..results |-> Plain("tool", m + 1 + i)]
             f == s \o call
             r == f \o tail
  <1>1. s \in Seq(Msg) /\ Len(s) \in Nat /\ DOMAIN s = 1..Len(s)
    BY DEF Talk, Sound
  <1>2. results \in Nat /\ m + 1 <= MaxMessages /\ m + 1 + results <= MaxMessages /\ MaxMessages \in Nat
    BY ContextManagerAssumption
  <1>3. /\ call \in Seq(Msg) /\ Len(call) = 1
        /\ call[1].role = "assistant" /\ call[1].calls = TRUE /\ call[1].n = m + 1
        /\ call[1].answered = (results > 0)
    <2>1. (results > 0) \in BOOLEAN /\ m + 1 \in 0..MaxMessages
      BY <1>2
    <2> DEFINE a == results > 0
    <2> HIDE DEF a
    <2>2. /\ Message("assistant", TRUE, a, content, m + 1) \in Msg
          /\ Message("assistant", TRUE, a, content, m + 1).answered = a
      BY <2>1 DEF Message, Msg, Roles, a
    <2>3. Message("assistant", TRUE, results > 0, content, m + 1) \in Msg
      BY <2>2 DEF a
    <2> QED BY <2>2, <2>3 DEF Message, a
  <1>4. /\ tail \in Seq(Msg) /\ Len(tail) = results
        /\ \A i \in 1..results :
             tail[i].role = "tool" /\ tail[i].calls = FALSE /\ tail[i].answered = FALSE /\ tail[i].n = m + 1 + i
    <2>1. ASSUME NEW i \in 1..results PROVE Plain("tool", m + 1 + i) \in Msg
      <3>1. m + 1 + i \in 0..MaxMessages
        BY <1>2
      <3> QED BY <3>1 DEF Plain, Message, Msg, Roles, Contents
    <2>2. tail \in [1..results -> Msg]
      BY <2>1
    <2>3. tail \in Seq(Msg) /\ Len(tail) = results
      <3> HIDE DEF tail
      <3>1. results \in Nat /\ DOMAIN tail = 1..results
        BY <2>2, <1>2
      <3>2. tail \in Seq(Msg)
        BY <2>2, <3>1, SeqDef
      <3> QED BY <3>1, <3>2
    <2>4. \A i \in 1..results : tail[i] = Plain("tool", m + 1 + i)
      OBVIOUS
    <2> QED BY <2>3, <2>4 DEF Plain, Message
  <1> HIDE DEF call, tail
  <1>5. /\ f \in Seq(Msg) /\ Len(f) = Len(s) + 1
        /\ \A i \in 1..(Len(s) + 1) : f[i] = IF i <= Len(s) THEN s[i] ELSE call[i - Len(s)]
    <2>0. s \in Seq(Msg) /\ call \in Seq(Msg)
      BY <1>1, <1>3
    <2>1. /\ f \in Seq(Msg) /\ Len(f) = Len(s) + Len(call)
          /\ \A i \in 1..(Len(s) + Len(call)) :
               f[i] = IF i <= Len(s) THEN s[i] ELSE call[i - Len(s)]
      BY ONLY <2>0, ConcatProperties
    <2> HIDE DEF f
    <2> QED BY <2>1, <1>1, <1>3
  <1> HIDE DEF f
  <1>6. /\ r \in Seq(Msg) /\ Len(r) = Len(s) + 1 + results
        /\ \A i \in 1..(Len(s) + 1 + results) :
             r[i] = IF i <= Len(s) + 1 THEN f[i] ELSE tail[i - (Len(s) + 1)]
    <2>1. /\ r \in Seq(Msg) /\ Len(r) = Len(f) + Len(tail)
          /\ \A i \in 1..(Len(f) + Len(tail)) :
               r[i] = IF i <= Len(f) THEN f[i] ELSE tail[i - Len(f)]
      <3>1. f \in Seq(Msg) /\ tail \in Seq(Msg)
        BY <1>4, <1>5
      <3> QED BY ONLY <3>1, ConcatProperties
    <2> HIDE DEF r
    <2> QED BY <2>1, <1>4, <1>5
  <1> HIDE DEF r
  <1>7. \A i \in 1..Len(s) : r[i] = s[i]
    <2>1. \A i \in 1..Len(s) : /\ i \in 1..(Len(s) + 1 + results) /\ i <= Len(s) + 1
                               /\ i \in 1..(Len(s) + 1) /\ i <= Len(s)
      BY <1>1, <1>2
    <2> QED BY <2>1, <1>5, <1>6
  <1>8. r[Len(s) + 1] = call[1]
    <2>1. /\ Len(s) + 1 \in 1..(Len(s) + 1 + results) /\ Len(s) + 1 \in 1..(Len(s) + 1)
          /\ ~ (Len(s) + 1 <= Len(s)) /\ (Len(s) + 1) - Len(s) = 1
      BY <1>1, <1>2
    <2> QED BY <2>1, <1>5, <1>6
  <1>9. ASSUME NEW i \in (Len(s) + 2)..Len(r)
        PROVE  r[i].role = "tool" /\ r[i].calls = FALSE /\ r[i].answered = FALSE /\ r[i].n = m + i - Len(s)
    <2>1. i \in 1..(Len(s) + 1 + results) /\ ~ (i <= Len(s) + 1) /\ i - (Len(s) + 1) \in 1..results
      BY <1>1, <1>2, <1>6
    <2>2. r[i] = tail[i - (Len(s) + 1)] /\ tail[i - (Len(s) + 1)].n = m + 1 + (i - (Len(s) + 1))
      BY <2>1, <1>4, <1>6
    <2>3. m + 1 + (i - (Len(s) + 1)) = m + i - Len(s)
      BY <1>1
    <2> QED BY <2>1, <2>2, <2>3, <1>4
  <1>10. ASSUME NEW i \in (Len(s) + 1)..Len(r)
         PROVE  /\ r[i].n = m + i - Len(s)
                /\ r[i].role # "system"
                /\ r[i].calls => r[i].role = "assistant"
                /\ r[i].answered => r[i].calls /\ Answered(r, i)
                /\ r[i].role = "tool" => Called(r, i)
    <2>1. CASE i = Len(s) + 1
      <3>1. i + 1 = Len(s) + 2 /\ (results > 0 => Len(s) + 2 \in (Len(s) + 2)..Len(r) /\ i < Len(r))
        BY <2>1, <1>1, <1>2, <1>6
      <3>2. results > 0 => Answered(r, i)
        BY <3>1, <1>9 DEF Answered
      <3>3. m + i - Len(s) = m + 1
        BY <2>1, <1>1
      <3> QED BY <2>1, <3>2, <3>3, <1>3, <1>8
    <2>2. CASE i \in (Len(s) + 2)..Len(r)
      <3>1. Called(r, i)
        <4>1. Len(s) + 1 \in 1..(i - 1) /\ r[Len(s) + 1].calls
          BY <2>2, <1>1, <1>3, <1>8
        <4>2. \A k \in ((Len(s) + 1) + 1)..i : k \in (Len(s) + 2)..Len(r)
          BY <2>2, <1>1, <1>6
        <4> QED BY <4>1, <4>2, <1>9 DEF Called
      <3> QED BY <2>2, <3>1, <1>9
    <2> QED BY <2>1, <2>2, <1>1
  <1>11. Len(s) <= Len(r) /\ m + Len(r) - Len(s) = m + 1 + results
    BY <1>1, <1>2, <1>6
  <1>12. Talk(r) /\ System(r) = System(s) /\ Within(r, m + Len(r) - Len(s))
    BY <1>6, <1>7, <1>10, <1>11, Extended
  <1> QED BY <1>11, <1>12 DEF r, f, call, tail

LEMMA FirstTalk == Init => Talk(messages) /\ Within(messages, said) /\ TypeOK
  <1> SUFFICES ASSUME Init PROVE Talk(messages) /\ Within(messages, said) /\ TypeOK
    OBVIOUS
  <1>0. MaxMessages \in Nat /\ MaxMessages >= 2
    BY ContextManagerAssumption
  <1>1. CASE messages = <<Plain("user", 1)>>
    <2>1. /\ messages \in Seq(Msg) /\ Len(messages) = 1 /\ DOMAIN messages = {1}
          /\ messages[1].role = "user" /\ messages[1].calls = FALSE /\ messages[1].answered = FALSE /\ messages[1].n = 1
      BY <1>0, <1>1 DEF Plain, Message, Msg, Roles, Contents
    <2>2. said = 1
      BY <2>1 DEF Init
    <2>3. Sound(messages)
      BY <2>1 DEF Sound, InOrder, CallsOfAssistant
    <2>4. Paired(messages) /\ StartsWithUser(messages)
      BY <2>1 DEF Paired, StartsWithUser
    <2>5. Within(messages, said)
      BY <2>1, <2>2 DEF Within
    <2>6. TypeOK
      <3>1. messages # <<>> /\ said \in 0..MaxMessages
        <4>1. messages # <<>>
          <5>1. Len(messages) # 0
            BY ONLY <2>1
          <5> QED BY ONLY <5>1
        <4>2. said \in 0..MaxMessages
          BY ONLY <1>0, <2>2
        <4> QED BY <4>1, <4>2
      <3>2. /\ config \in [keep: EnforceMaxTurns, drop: TruncateTurns, compressor: Compressors]
            /\ pc = "ask"
        BY DEF Init
      <3> QED BY <2>1, <3>1, <3>2 DEF TypeOK, Msg
    <2> QED BY <2>3, <2>4, <2>5, <2>6 DEF Talk
  <1>2. CASE messages = <<Plain("system", 1), Plain("user", 2)>>
    <2>1. /\ messages \in Seq(Msg) /\ Len(messages) = 2 /\ DOMAIN messages = {1, 2}
          /\ messages[1].role = "system" /\ messages[1].calls = FALSE /\ messages[1].answered = FALSE /\ messages[1].n = 1
          /\ messages[2].role = "user" /\ messages[2].calls = FALSE /\ messages[2].answered = FALSE /\ messages[2].n = 2
      BY <1>0, <1>2 DEF Plain, Message, Msg, Roles, Contents
    <2>2. said = 2
      BY <2>1 DEF Init
    <2>3. Sound(messages)
      BY <2>1 DEF Sound, InOrder, CallsOfAssistant
    <2>4. Paired(messages) /\ StartsWithUser(messages)
      BY <2>1 DEF Paired, StartsWithUser
    <2>5. Within(messages, said)
      BY <2>1, <2>2 DEF Within
    <2>6. TypeOK
      <3>1. messages # <<>> /\ said \in 0..MaxMessages
        <4>1. messages # <<>>
          <5>1. Len(messages) # 0
            BY ONLY <2>1
          <5> QED BY ONLY <5>1
        <4>2. said \in 0..MaxMessages
          BY ONLY <1>0, <2>2
        <4> QED BY <4>1, <4>2
      <3>2. /\ config \in [keep: EnforceMaxTurns, drop: TruncateTurns, compressor: Compressors]
            /\ pc = "ask"
        BY DEF Init
      <3> QED BY <2>1, <3>1, <3>2 DEF TypeOK, Msg
    <2> QED BY <2>3, <2>4, <2>5, <2>6 DEF Talk
  <1> QED BY <1>1, <1>2 DEF Init

(* What the steps say is kept by appending.                                *)
LEMMA AnswerStep ==
  ASSUME NEW turn \in Turns
  PROVE  ContextInv /\ Answer(turn) => ContextInv' /\ System(messages') = System(messages)
  <1> SUFFICES ASSUME ContextInv, Answer(turn)
               PROVE  ContextInv' /\ System(messages') = System(messages)
    OBVIOUS
  <1>1. said \in Nat /\ said + 1 \in 0..MaxMessages /\ said' = said + 1 /\ MaxMessages \in Nat
    BY ContextManagerAssumption DEF ContextInv, TypeOK, Answer
  <1>2. turn.content \in Contents
    BY DEF Turns, Turn, Content, Contents
  <1>3. /\ Talk(messages')
        /\ System(messages') = System(messages)
        /\ Within(messages', said')
    BY <1>1, <1>2, AppendTalk DEF ContextInv, Answer
  <1>4. messages' \in Seq(Msg) /\ messages' # <<>>
    BY <1>3 DEF Talk, Sound, StartsWithUser
  <1>5. TypeOK'
    BY <1>1, <1>4 DEF ContextInv, TypeOK, Answer, Msg
  <1> QED BY <1>3, <1>5 DEF ContextInv

LEMMA CallToolsStep ==
  ASSUME NEW turn \in Turns
  PROVE  ContextInv /\ CallTools(turn) => ContextInv' /\ System(messages') = System(messages)
  <1> SUFFICES ASSUME ContextInv, CallTools(turn)
               PROVE  ContextInv' /\ System(messages') = System(messages)
    OBVIOUS
  <1>0. PICK results \in 0..(MaxMessages - said - 1) :
          /\ said' = said + 1 + results
          /\ messages' = messages \o <<Message("assistant", TRUE, results > 0, turn.content, said + 1)>> \o
               [i \in 1..results |-> Plain("tool", said + 1 + i)]
    BY DEF CallTools
  <1>1. /\ said \in Nat /\ MaxMessages \in Nat /\ said' \in 0..MaxMessages
    BY <1>0, ContextManagerAssumption DEF ContextInv, TypeOK
  <1>2. turn.content \in Contents
    BY DEF Turns, Turn, Content, Contents
  <1>3. /\ Talk(messages')
        /\ System(messages') = System(messages)
        /\ Within(messages', said')
    <2>1. Talk(messages) /\ Within(messages, said)
      BY DEF ContextInv
    <2> QED BY ONLY <1>0, <1>1, <1>2, <2>1, CallsTalk, ZenonT(30)
  <1>4. messages' \in Seq(Msg) /\ messages' # <<>>
    BY <1>3 DEF Talk, Sound, StartsWithUser
  <1>5. TypeOK'
    BY <1>1, <1>4 DEF ContextInv, TypeOK, CallTools, Msg
  <1> QED BY <1>3, <1>5 DEF ContextInv

LEMMA NewRequestStep ==
  ContextInv /\ NewRequest => ContextInv' /\ System(messages') = System(messages)
  <1> SUFFICES ASSUME ContextInv, NewRequest
               PROVE  ContextInv' /\ System(messages') = System(messages)
    OBVIOUS
  <1>1. said \in Nat /\ said + 1 \in 0..MaxMessages /\ said' = said + 1 /\ MaxMessages \in Nat
    BY ContextManagerAssumption DEF ContextInv, TypeOK, NewRequest
  <1>2. /\ Talk(messages')
        /\ System(messages') = System(messages)
        /\ Within(messages', said')
    BY <1>1, AppendTalk DEF ContextInv, NewRequest, Plain, Contents
  <1>4. messages' \in Seq(Msg) /\ messages' # <<>>
    BY <1>2 DEF Talk, Sound, StartsWithUser
  <1>5. TypeOK'
    BY <1>1, <1>4 DEF ContextInv, TypeOK, NewRequest, Msg
  <1> QED BY <1>2, <1>5 DEF ContextInv

LEMMA ContextStep ==
  ContextInv /\ [Next]_vars => ContextInv' /\ System(messages') = System(messages)
  <1> SUFFICES ASSUME ContextInv, [Next]_vars
               PROVE  ContextInv' /\ System(messages') = System(messages)
    OBVIOUS
  <1>1. CASE Process
    BY <1>1, ProcessStep
  <1>2. CASE Fail
    BY <1>2 DEF ContextInv, TypeOK, Fail
  <1>3. ASSUME NEW turn \in Turns, Answer(turn)
        PROVE  ContextInv' /\ System(messages') = System(messages)
    BY <1>3, AnswerStep
  <1>4. ASSUME NEW turn \in Turns, CallTools(turn)
        PROVE  ContextInv' /\ System(messages') = System(messages)
    BY <1>4, CallToolsStep
  <1>5. CASE NewRequest
    BY <1>5, NewRequestStep
  <1>6. CASE UNCHANGED vars
    BY <1>6 DEF ContextInv, TypeOK, vars
  <1> QED BY <1>1, <1>2, <1>3, <1>4, <1>5, <1>6 DEF Next

LEMMA ContextInvariant == Spec => []ContextInv
  <1>1. Init => ContextInv
    BY FirstTalk DEF ContextInv
  <1>2. ContextInv /\ [Next]_vars => ContextInv'
    BY ContextStep
  <1> QED BY <1>1, <1>2, PTL DEF Spec

(***************************************************************************)
(* However the messages were truncated and summarised (truncator.py:33 and *)
(* 47), and in whichever order, results follow their calls, the first      *)
(* message after the system messages is a user's, and what is left of the  *)
(* conversation is in order, once: for conversations of any length.        *)
(***************************************************************************)
THEOREM ContextWellFormed == Spec => []WellFormed
  <1>1. ContextInv => WellFormed
    BY DEF ContextInv, WellFormed, Talk, Sound, InOrder
  <1> QED BY <1>1, ContextInvariant, PTL

(***************************************************************************)
(* No step changes the leading system messages (truncator.py:20): they are *)
(* those the first request came with, after any truncation or summary.     *)
(***************************************************************************)
THEOREM SystemPromptKept == Spec => SystemKept
  <1>1. ContextInv /\ [Next]_vars => [System(messages') = System(messages)]_vars
    BY ContextStep
  <1> QED BY <1>1, ContextInvariant, PTL DEF Spec, SystemKept

-----------------------------------------------------------------------------
(***************************************************************************)
(* What a provider gets.                                                   *)
(***************************************************************************)
LEMMA MessageWithoutTools ==
  ASSUME NEW m \in Msg
  PROVE  LET user == Plain("user", m.n)
             bare == WithoutCalls(m)
         IN
         /\ user \in Msg /\ user.role = "user" /\ user.n = m.n
         /\ user.calls = FALSE /\ user.answered = FALSE
         /\ bare \in Msg /\ bare.role = m.role /\ bare.n = m.n
         /\ bare.calls = FALSE /\ bare.answered = FALSE
         /\ m.calls = FALSE /\ m.answered = FALSE => bare = m
  <1>1. m.n \in 0..MaxMessages
    BY DEF Msg
  <1>2. Plain("user", m.n) \in Msg
    BY <1>1 DEF Plain, Message, Msg, Roles, Contents
  <1>3. WithoutCalls(m) \in Msg
    BY DEF WithoutCalls, Message, Msg
  <1>4. m.calls = FALSE /\ m.answered = FALSE => WithoutCalls(m) = m
    BY DEF WithoutCalls, Message, Msg
  <1>5. /\ Plain("user", m.n).role = "user" /\ Plain("user", m.n).n = m.n
        /\ Plain("user", m.n).calls = FALSE /\ Plain("user", m.n).answered = FALSE
    BY DEF Plain, Message
  <1>6. /\ WithoutCalls(m).role = m.role /\ WithoutCalls(m).n = m.n
        /\ WithoutCalls(m).calls = FALSE /\ WithoutCalls(m).answered = FALSE
    BY DEF WithoutCalls, Message
  <1> QED BY ONLY <1>2, <1>3, <1>4, <1>5, <1>6

LEMMA WithoutToolsSound ==
  ASSUME NEW s, Talk(s), NEW tools \in BOOLEAN
  PROVE  LET left == WithoutTools(s, tools) IN
         /\ Sound(left) /\ Paired(left)
         /\ Len(left) = Len(s)
         /\ \A i \in DOMAIN s : s[i].role = "system" => left[i] = s[i]
         /\ \A i \in DOMAIN s : s[i].role = "user" => left[i].role = "user"
         /\ ~tools => \A i \in DOMAIN left : left[i].role # "tool" /\ ~ left[i].calls
  <1> DEFINE left == WithoutTools(s, tools)
  <1>1. s \in Seq(Msg) /\ Len(s) \in Nat /\ DOMAIN s = 1..Len(s) /\ Sound(s) /\ Paired(s)
    BY DEF Talk, Sound
  <1>2. CASE tools
    <2>1. left = [i \in DOMAIN s |-> s[i]]
      BY <1>2 DEF WithoutTools
    <2>2. left = s
      BY <2>1, <1>1
    <2> QED BY <2>2, <1>1, <1>2
  <1>3. CASE ~tools
    <2>1. left = [i \in 1..Len(s) |->
                    IF s[i].role = "tool" THEN Plain("user", s[i].n)
                    ELSE WithoutCalls(s[i])]
      BY <1>1, <1>3 DEF WithoutTools
    <2>2. ASSUME NEW i \in 1..Len(s)
          PROVE  /\ left[i] \in Msg /\ left[i].n = s[i].n
                 /\ left[i].calls = FALSE /\ left[i].answered = FALSE
                 /\ left[i].role = IF s[i].role = "tool" THEN "user" ELSE s[i].role
                 /\ s[i].role = "system" => left[i] = s[i]
      <3>1. s[i] \in Msg /\ s[i].role # "assistant" => s[i].calls = FALSE /\ s[i].answered = FALSE
        BY <1>1 DEF Sound, CallsOfAssistant, Msg
      <3>2. s[i] \in Msg
        BY <1>1
      <3>3. CASE s[i].role = "tool"
        <4>1. left[i] = Plain("user", s[i].n)
          BY <2>1, <3>3
        <4>2. /\ Plain("user", s[i].n) \in Msg /\ Plain("user", s[i].n).n = s[i].n
              /\ Plain("user", s[i].n).calls = FALSE /\ Plain("user", s[i].n).answered = FALSE
              /\ Plain("user", s[i].n).role = "user"
          BY ONLY <3>2, MessageWithoutTools, Zenon
        <4> HIDE DEF left
        <4> QED BY ONLY <4>1, <4>2, <3>3
      <3>4. CASE s[i].role # "tool"
        <4>1. left[i] = WithoutCalls(s[i])
          BY <2>1, <3>4
        <4>2. /\ WithoutCalls(s[i]) \in Msg /\ WithoutCalls(s[i]).n = s[i].n
              /\ WithoutCalls(s[i]).role = s[i].role
              /\ WithoutCalls(s[i]).calls = FALSE /\ WithoutCalls(s[i]).answered = FALSE
              /\ s[i].calls = FALSE /\ s[i].answered = FALSE => WithoutCalls(s[i]) = s[i]
          BY ONLY <3>2, MessageWithoutTools, Zenon
        <4> HIDE DEF left
        <4> QED BY ONLY <3>1, <3>2, <3>4, <4>1, <4>2
      <3> QED BY <3>3, <3>4
    <2>3. left \in Seq(Msg) /\ Len(left) = Len(s) /\ DOMAIN left = 1..Len(s)
      <3>1. left \in [1..Len(s) -> Msg]
        <4>1. left = [i \in 1..Len(s) |-> left[i]]
          BY <2>1
        <4> HIDE DEF left
        <4> QED BY ONLY <4>1, <2>2
      <3> HIDE DEF left
      <3>2. left \in Seq(Msg)
        BY <3>1, <1>1, SeqDef
      <3> QED BY <3>1, <3>2, <1>1
    <2> HIDE DEF left
    <2>4. InOrder(left)
      BY <1>1, <2>2, <2>3, ZenonT(30) DEF Sound, InOrder
    <2>5. CallsOfAssistant(left) /\ Paired(left)
      <3>1. \A i \in DOMAIN left : ~ left[i].calls /\ ~ left[i].answered /\ left[i].role # "tool"
        BY <2>2, <2>3
      <3> QED BY <3>1 DEF CallsOfAssistant, Paired
    <2>6. \A i \in DOMAIN left : left[i].role = "system" => i = 1
      BY <1>1, <2>2, <2>3 DEF Sound
    <2>7. \A i \in DOMAIN left : left[i].role # "tool" /\ ~ left[i].calls
      BY <2>2, <2>3
    <2>8. \A i \in DOMAIN s : s[i].role = "user" => left[i].role = "user"
      BY <2>2, <1>1
    <2> QED BY <1>1, <2>2, <2>3, <2>4, <2>5, <2>6, <2>7, <2>8 DEF Sound, left
  <1> QED BY <1>2, <1>3

LEMMA SanitizedTalk ==
  ASSUME NEW s, Talk(s), NEW tools \in BOOLEAN
  PROVE  LET r == Sanitized(s, tools) IN
         /\ Talk(r)
         /\ System(r) = System(s)
         /\ \A i \in DOMAIN r :
              /\ r[i].role = "assistant" => r[i].calls \/ r[i].content # "none"
              /\ ~tools => r[i].role # "tool" /\ ~ r[i].calls
  <1> DEFINE left == WithoutTools(s, tools)
             I == {i \in DOMAIN left : left[i].role = "assistant" => left[i].calls \/ left[i].content # "none"}
             r == Sanitized(s, tools)
             L == LeadingSystem(s)
  <1>1. /\ Sound(left) /\ Paired(left)
        /\ Len(left) = Len(s)
        /\ \A i \in DOMAIN s : s[i].role = "system" => left[i] = s[i]
        /\ \A i \in DOMAIN s : s[i].role = "user" => left[i].role = "user"
        /\ ~tools => \A i \in DOMAIN left : left[i].role # "tool" /\ ~ left[i].calls
    BY WithoutToolsSound
  <1>2. /\ L \in {0, 1} /\ L < Len(s) /\ s[L + 1].role = "user"
        /\ \A i \in 1..L : s[i].role = "system"
        /\ s \in Seq(Msg) /\ Len(s) \in Nat /\ DOMAIN s = 1..Len(s)
    BY Lead DEF Talk, Sound
  <1>3. r = Kept(left, I)
    BY DEF Sanitized
  <1> HIDE DEF left, L
  <1>4. left \in Seq(Msg) /\ DOMAIN left = 1..Len(s) /\ CallsOfAssistant(left)
    BY <1>1, <1>2 DEF Sound
  <1>5. r \in Seq(Msg) /\ \E h : Selects(h, r, left, I)
    <2> HIDE DEF I, r
    <2> QED BY <1>3, <1>4, KeptSelects
  <1> HIDE DEF r
  <1>6. PICK h : Selects(h, r, left, I)
    BY <1>5
  <1>7. /\ \A i \in DOMAIN r : h[i] \in DOMAIN left /\ r[i] = left[h[i]] /\ h[i] \in I
    <2> HIDE DEF I
    <2> QED BY <1>6 DEF Selects, Embeds
  <1>8. Paired(r)
    <2>1. \A i \in DOMAIN left :
            /\ left[i].role = "tool" => Called(left, i)
            /\ left[i].answered => Answered(left, i)
      BY <1>1 DEF Paired
    <2>2. \A i \in DOMAIN left :
            /\ i \in I => /\ left[i].role = "tool" => Called(left, i)
                          /\ left[i].answered => Answered(left, i)
            /\ left[i].calls /\ Answered(left, i) => i \in I
            /\ left[i].role = "tool" /\ Called(left, i) => i \in I
      BY <2>1
    <2> HIDE DEF I
    <2> QED BY <1>4, <1>5, <1>6, <2>2, PairsKept
  <1>9. Sound(r)
    <2> HIDE DEF I
    <2> QED BY <1>1, <1>5, <1>6, EmbedsSound DEF Selects
  <1>10. L + 1 <= Len(r) /\ \A i \in 1..(L + 1) : r[i] = left[i]
    <2>1. \A i \in 1..(L + 1) : i \in DOMAIN left /\ (i \in 1..L \/ i = L + 1)
      BY <1>2, <1>4
    <2>2. \A i \in 1..(L + 1) : left[i].role # "assistant"
      BY <2>1, <1>1, <1>2, <1>4
    <2>3. \A i \in 1..(L + 1) : i \in I
      BY <2>1, <2>2
    <2>4. L + 1 \in 0..Len(left)
      BY <1>1, <1>2
    <2> HIDE DEF I
    <2> QED BY <1>4, <1>5, <1>6, <2>3, <2>4, SelectsPrefix
  <1>11. StartsWithUser(r) /\ System(r) = System(s)
    <2>1. L < Len(r) /\ r[L + 1].role = "user" /\ \A i \in 1..L : r[i] = s[i]
      <3>1. L < Len(r) /\ \A i \in 1..L : i \in 1..(L + 1) /\ i \in DOMAIN s
        BY <1>2, <1>5, <1>10
      <3>2. L + 1 \in 1..(L + 1) /\ L + 1 \in DOMAIN s
        BY <1>2
      <3> QED BY <3>1, <3>2, <1>1, <1>2, <1>10
    <2> QED BY <2>1, <1>9, SameLead DEF L
  <1>12. \A i \in DOMAIN r :
           /\ r[i].role = "assistant" => r[i].calls \/ r[i].content # "none"
           /\ ~tools => r[i].role # "tool" /\ ~ r[i].calls
    BY <1>1, <1>7
  <1> QED BY <1>8, <1>9, <1>11, <1>12 DEF Talk, r

(* The last of the system messages of a conversation is the only one.      *)
LEMMA PromptOfTalk ==
  ASSUME NEW s, Sound(s), StartsWithUser(s)
  PROVE  SystemPrompt(s) = System(s)
  <1> DEFINE J == {i \in DOMAIN s : s[i].role = "system"}
             p == Kept(s, J)
  <1>1. s \in Seq(Msg) /\ Len(s) \in Nat /\ DOMAIN s = 1..Len(s) /\ s # <<>>
    BY DEF Sound, StartsWithUser
  <1>2. System(s) = IF s[1].role = "system" THEN <<s[1]>> ELSE <<>>
    BY Lead
  <1>3. p \in Seq(Msg) /\ \E h : Selects(h, p, s, J)
    <2> HIDE DEF J
    <2> QED BY <1>1, KeptSelects
  <1>4. SystemPrompt(s) = IF p = <<>> THEN <<>> ELSE <<p[Len(p)]>>
    BY DEF SystemPrompt
  <1>5. PICK h : Selects(h, p, s, J)
    BY <1>3
  <1> HIDE DEF p
  <1> Len(p) \in Nat /\ DOMAIN p = 1..Len(p)
    BY <1>3
  <1>6. /\ \A i \in 1..Len(p) : h[i] \in J /\ p[i] = s[h[i]]
        /\ \A k \in J : \E i \in 1..Len(p) : h[i] = k
    <2>1. J \subseteq DOMAIN s
      OBVIOUS
    <2> HIDE DEF J
    <2> QED BY <1>5, <2>1 DEF Selects, Embeds
  <1>7. \A k \in J : k = 1 /\ s[1].role = "system"
    BY DEF Sound
  <1>8. CASE s[1].role = "system"
    <2>1. 1 \in J
      BY <1>1, <1>8
    <2>2. p # <<>>
      BY <1>6, <2>1, <1>3
    <2>3. Len(p) \in 1..Len(p)
      BY <1>3, <2>2
    <2>4. p[Len(p)] = s[1]
      BY <1>6, <1>7, <2>3
    <2> QED BY <1>2, <1>4, <1>8, <2>2, <2>4
  <1>9. CASE s[1].role # "system"
    <2>1. J = {}
      BY <1>7, <1>9
    <2>2. ~ (1 \in 1..Len(p))
      BY <1>6, <2>1
    <2>3. p = <<>>
      BY <1>3, <2>2
    <2> QED BY <1>2, <1>4, <1>9, <2>3
  <1> QED BY <1>8, <1>9

(***************************************************************************)
(* _prepare_payload.  Added is one turn of its loop, and Matched says what *)
(* holds of the new messages after n of the old ones: only the calls of    *)
(* the last message may still wait for their results.                      *)
(***************************************************************************)
AnyBlock == [type: {"text", "tool_use", "lone_use", "tool_result"}, n: 0..MaxMessages]
Item == [role: {"user", "assistant"}, blocks: Seq(AnyBlock)]

Added(new, m) ==
  CASE m.role = "system" -> new
    [] m.role = "assistant" -> Append(new, Said("assistant", AssistantBlocks(m)))
    [] m.role = "tool" -> AddResult(new, m)
    [] m.role = "user" -> Append(new, Said("user", <<Block("text", m.n)>>))

IsNew(F, s) ==
  F = [i \in 0..Len(s) |-> IF i = 0 THEN <<>> ELSE Added(F[i - 1], s[i])]

Filled(x, s) ==
  x.blocks = <<>> => x.role = "assistant" /\ \E j \in DOMAIN s : OnlyThinks(s[j])

Matched(new, s, n) ==
  /\ new \in Seq(Item)
  /\ \A k \in 1..Len(new) :
       /\ Filled(new[k], s)
       /\ HasAnswered(new[k]) => \/ k < Len(new) /\ ResultsOnly(new[k + 1])
                                 \/ k = Len(new) /\ n > 0 /\ s[n].answered
       /\ ResultsOnly(new[k]) => k > 1 /\ HasCalls(new[k - 1])
  /\ n > 0 /\ s[n].role = "tool" => Len(new) > 0 /\ ResultsOnly(new[Len(new)])
  /\ n > 0 /\ s[n].calls => Len(new) > 0 /\ HasCalls(new[Len(new)])

LEMMA NewDefined ==
  ASSUME NEW s, Len(s) \in Nat
  PROVE  \E F : IsNew(F, s)
  <1> DEFINE Built(F, n) == /\ F = [i \in 0..n |-> F[i]]
                           /\ F[0] = <<>>
                           /\ \A i \in 1..n : F[i] = Added(F[i - 1], s[i])
             G == {n \in 0..Len(s) : \E F : Built(F, n)}
  <1>1. 0 \in G
    <2>1. Built([i \in 0..0 |-> <<>>], 0)
      OBVIOUS
    <2> HIDE DEF Built
    <2> QED BY <2>1
  <1>2. ASSUME NEW n \in 0..(Len(s) - 1), n \in G PROVE n + 1 \in G
    <2>1. PICK F : Built(F, n)
      BY <1>2
    <2> n + 1 \in 0..Len(s)
      OBVIOUS
    <2> HIDE DEF Built
    <2> DEFINE E == [i \in 0..(n + 1) |-> IF i = n + 1 THEN Added(F[n], s[n + 1]) ELSE F[i]]
    <2>2. ASSUME NEW i \in 1..(n + 1) PROVE E[i] = Added(E[i - 1], s[i])
      <3>1. E[i - 1] = F[i - 1]
        OBVIOUS
      <3>2. CASE i = n + 1
        BY <3>1, <3>2
      <3>3. CASE i # n + 1
        <4>1. i \in 1..n
          BY ONLY <3>3, i \in 1..(n + 1), n \in Nat
        <4>2. E[i] = F[i]
          BY <3>3
        <4> QED BY <2>1, <3>1, <4>1, <4>2 DEF Built
      <3> QED BY <3>2, <3>3
    <2>3. E = [i \in 0..(n + 1) |-> E[i]]
      OBVIOUS
    <2>4. E[0] = <<>>
      BY <2>1 DEF Built
    <2>5. Built(E, n + 1)
      <3> HIDE DEF E
      <3> QED BY <2>2, <2>3, <2>4 DEF Built
    <2> QED BY <2>5
  <1>3. Len(s) \in G
    <2>1. \A n \in 0..(Len(s) - 1) : n \in G => n + 1 \in G
      BY <1>2
    <2> HIDE DEF G
    <2>2. 0..Len(s) \subseteq G
      BY <1>1, <2>1, CountUp
    <2> QED BY <2>2
  <1>4. PICK F : Built(F, Len(s))
    BY <1>3
  <1>5. \A i \in 0..Len(s) : F[i] = IF i = 0 THEN <<>> ELSE Added(F[i - 1], s[i])
    <2>1. \A i \in 0..Len(s) : i # 0 => i \in 1..Len(s)
      OBVIOUS
    <2> QED BY <1>4, <2>1
  <1>6. F = [i \in 0..Len(s) |-> F[i]]
    BY <1>4
  <1>7. IsNew(F, s)
    BY <1>5, <1>6 DEF IsNew
  <1> QED BY <1>7

LEMMA NewMessagesFold ==
  ASSUME NEW s, Len(s) \in Nat
  PROVE  \E F : /\ F[0] = <<>>
                /\ \A i \in 1..Len(s) : F[i] = Added(F[i - 1], s[i])
                /\ NewMessages(s) = F[Len(s)]
  <1> DEFINE C == CHOOSE F : IsNew(F, s)
  <1>1. IsNew(C, s)
    BY NewDefined
  <1>2. NewMessages(s) = C[Len(s)]
    BY DEF NewMessages, IsNew, Added
  <1> HIDE DEF C
  <1>3. C[0] = <<>> /\ \A i \in 1..Len(s) : C[i] = Added(C[i - 1], s[i])
    BY <1>1 DEF IsNew
  <1> QED BY <1>2, <1>3

(* A message of its own at the end.                                        *)
LEMMA ItemAppended ==
  ASSUME NEW new \in Seq(Item), NEW x \in Item, NEW s, NEW n \in Nat,
         Matched(new, s, n), Filled(x, s),
         HasCalls(x) <=> s[n + 1].calls,
         HasAnswered(x) => s[n + 1].answered,
         ResultsOnly(x) <=> s[n + 1].role = "tool",
         n > 0 /\ s[n].answered => s[n + 1].role = "tool",
         s[n + 1].role = "tool" => n > 0 /\ s[n].calls
  PROVE  Matched(Append(new, x), s, n + 1)
  <1> DEFINE q == Append(new, x)
  <1>1. /\ q \in Seq(Item) /\ Len(q) = Len(new) + 1 /\ Len(new) \in Nat
        /\ \A k \in 1..Len(new) : q[k] = new[k]
        /\ q[Len(new) + 1] = x
    BY AppendProperties
  <1> HIDE DEF q
  <1>2. ASSUME NEW k \in 1..Len(new)
        PROVE  /\ Filled(q[k], s)
               /\ HasAnswered(q[k]) => k < Len(q) /\ ResultsOnly(q[k + 1])
               /\ ResultsOnly(q[k]) => k > 1 /\ HasCalls(q[k - 1])
    <2>1. q[k] = new[k] /\ k < Len(q)
      BY <1>1
    <2>2. CASE k < Len(new)
      <3>1. q[k + 1] = new[k + 1] /\ (k > 1 => q[k - 1] = new[k - 1])
        <4>1. k + 1 \in 1..Len(new) /\ (k > 1 => k - 1 \in 1..Len(new))
          BY ONLY <1>1, <2>2, k \in 1..Len(new)
        <4> QED BY ONLY <1>1, <4>1
      <3> QED BY <2>1, <2>2, <3>1 DEF Matched
    <2>3. CASE k = Len(new)
      <3>1. q[k + 1] = x /\ (k > 1 => q[k - 1] = new[k - 1])
        <4>1. k > 1 => k - 1 \in 1..Len(new)
          BY ONLY <1>1, <2>3
        <4> QED BY ONLY <1>1, <2>3, <4>1
      <3> QED BY <2>1, <2>3, <3>1 DEF Matched
    <2> QED BY <2>2, <2>3
  <1>3. ResultsOnly(x) => Len(new) + 1 > 1 /\ HasCalls(q[Len(new)])
    <2>1. ResultsOnly(x) => Len(new) > 0 /\ HasCalls(new[Len(new)])
      BY DEF Matched
    <2> QED BY <2>1, <1>1
  <1>4. \A k \in 1..Len(q) : k \in 1..Len(new) \/ k = Len(new) + 1
    BY <1>1
  <1>5. n + 1 > 0 /\ (Len(new) + 1) - 1 = Len(new) /\ Len(q) > 0 /\ q[Len(q)] = x
    BY <1>1
  <1>6. ASSUME NEW k \in 1..Len(q)
        PROVE  /\ Filled(q[k], s)
               /\ HasAnswered(q[k]) => \/ k < Len(q) /\ ResultsOnly(q[k + 1])
                                       \/ k = Len(q) /\ n + 1 > 0 /\ s[n + 1].answered
               /\ ResultsOnly(q[k]) => k > 1 /\ HasCalls(q[k - 1])
    <2>1. CASE k \in 1..Len(new)
      BY <1>2, <2>1
    <2>2. CASE k = Len(new) + 1
      <3>1. k = Len(q) /\ k - 1 = Len(new) /\ q[k] = x
        BY <1>1, <2>2
      <3> QED BY <3>1, <1>3, <1>5
    <2> QED BY <1>4, <2>1, <2>2
  <1>7. Matched(q, s, n + 1)
    <2>1. /\ s[n + 1].role = "tool" => ResultsOnly(q[Len(q)])
          /\ s[n + 1].calls => HasCalls(q[Len(q)])
      BY <1>5
    <2> QED BY ONLY <1>1, <1>5, <1>6, <2>1 DEF Matched
  <1> QED BY <1>7 DEF q

LEMMA ResultJoined ==
  ASSUME NEW new \in Seq(Item), NEW s, NEW n \in Nat, NEW b,
         b \in [type: {"tool_result"}, n: 0..MaxMessages],
         Matched(new, s, n), n > 0, s[n].role = "tool", ~ s[n].answered,
         s[n + 1].role = "tool", ~ s[n + 1].calls
  PROVE  Matched([new EXCEPT ![Len(new)].blocks = Append(@, b)], s, n + 1)
  <1> DEFINE l == Len(new)
             y == new[l]
             z == [y EXCEPT !.blocks = Append(@, b)]
             q == [new EXCEPT ![Len(new)].blocks = Append(@, b)]
  <1>1. l \in Nat /\ l > 0 /\ ResultsOnly(y) /\ y \in Item
    BY DEF Matched
  <1>2. /\ z \in Item /\ ResultsOnly(z) /\ ~ HasAnswered(z) /\ z.blocks # <<>>
    <2> DEFINE B == AnyBlock
               bs == y.blocks
    <2>1. bs \in Seq(B) /\ y.role = "user" /\ \A i \in 1..Len(bs) : bs[i].type = "tool_result"
      BY <1>1 DEF Item, ResultsOnly
    <2>2. b \in B /\ b.type = "tool_result"
      BY DEF AnyBlock
    <2>3. /\ Append(bs, b) \in Seq(B) /\ Len(Append(bs, b)) = Len(bs) + 1 /\ Len(bs) \in Nat
          /\ \A i \in 1..Len(bs) : Append(bs, b)[i] = bs[i]
          /\ Append(bs, b)[Len(bs) + 1] = b
      <3> HIDE DEF bs, B
      <3> QED BY <2>1, <2>2, AppendProperties
    <2>4. /\ z \in Item /\ z.role = "user" /\ z.blocks = Append(bs, b)
      <3> DEFINE more == Append(bs, b)
      <3>1. z = [y EXCEPT !.blocks = more]
        OBVIOUS
      <3>2. more \in Seq(B)
        BY <2>3
      <3> HIDE DEF more
      <3>3. z \in Item /\ z.role = "user" /\ z.blocks = more
        BY <1>1, <2>1, <3>1, <3>2 DEF Item
      <3> QED BY <3>3 DEF more
    <2> HIDE DEF bs, B, z
    <2>5. \A i \in DOMAIN z.blocks : z.blocks[i].type = "tool_result"
      <3>1. DOMAIN z.blocks = 1..(Len(bs) + 1)
        BY <2>3, <2>4
      <3>2. \A i \in 1..(Len(bs) + 1) : i \in 1..Len(bs) \/ i = Len(bs) + 1
        BY <2>3
      <3> QED BY <3>1, <3>2, <2>1, <2>2, <2>3, <2>4
    <2>6. z.blocks # <<>>
      <3>1. Len(z.blocks) = Len(bs) + 1 /\ Len(bs) \in Nat /\ Len(<<>>) = 0
        BY <2>3, <2>4, EmptySeq
      <3> QED BY ONLY <3>1
    <2> QED BY <2>4, <2>5, <2>6 DEF ResultsOnly, HasAnswered, Has
  <1>3. /\ q \in Seq(Item) /\ Len(q) = l
        /\ q[l] = z
        /\ \A k \in 1..l : k # l => q[k] = new[k]
    <2>1. q = [new EXCEPT ![l] = z]
      OBVIOUS
    <2> HIDE DEF z, q, y
    <2>2. l \in 1..l
      BY <1>1
    <2> QED BY <1>1, <1>2, <2>1, <2>2, ExceptSeq
  <1> HIDE DEF q, z
  <1>4. ~ HasAnswered(y)
    BY <1>1 DEF ResultsOnly, HasAnswered, Has
  <1>5. ASSUME NEW k \in 1..l
        PROVE  /\ Filled(q[k], s)
               /\ HasAnswered(q[k]) => k < l /\ ResultsOnly(q[k + 1])
               /\ ResultsOnly(q[k]) => k > 1 /\ HasCalls(q[k - 1])
    <2>1. k > 1 => q[k - 1] = new[k - 1]
      BY <1>3, <1>1
    <2>2. CASE k = l
      <3>1. k > 1 /\ HasCalls(new[k - 1])
        BY <1>1, <2>2 DEF Matched
      <3>2. Filled(z, s)
        BY <1>2 DEF Filled
      <3> QED BY <1>2, <1>3, <2>1, <2>2, <3>1, <3>2
    <2>3. CASE k # l
      <3>1. k + 1 \in 1..l /\ q[k] = new[k]
        BY <1>1, <1>3, <2>3
      <3>2. q[k + 1] = new[k + 1] \/ (k + 1 = l /\ q[k + 1] = z)
        BY <1>3, <3>1
      <3>3. /\ Filled(new[k], s)
            /\ HasAnswered(new[k]) => k < l /\ ResultsOnly(new[k + 1])
            /\ ResultsOnly(new[k]) => k > 1 /\ HasCalls(new[k - 1])
        BY <2>3 DEF Matched
      <3> QED BY <1>2, <2>1, <3>1, <3>2, <3>3
    <2> QED BY <2>2, <2>3
  <1> QED BY <1>1, <1>2, <1>3, <1>5 DEF Matched, q

(* What a message becomes, when it is one of its own.                      *)
LEMMA Items ==
  ASSUME NEW m \in Msg
  PROVE  LET user == Said("user", <<Block("text", m.n)>>)
             result == Said("user", <<Block("tool_result", m.n)>>)
             answer == Said("assistant", AssistantBlocks(m))
         IN
         /\ user \in Item /\ user.blocks # <<>> /\ ResultsOnly(user) = FALSE
         /\ ~ HasCalls(user) /\ ~ HasAnswered(user)
         /\ result \in Item /\ result.blocks # <<>> /\ ResultsOnly(result)
         /\ ~ HasCalls(result) /\ ~ HasAnswered(result)
         /\ answer \in Item /\ answer.role = "assistant" /\ ~ ResultsOnly(answer)
         /\ HasCalls(answer) <=> m.calls
         /\ HasAnswered(answer) => m.answered
         /\ m.calls \/ m.content = "blocks" => answer.blocks # <<>>
  <1> DEFINE B == AnyBlock
             t == Block("text", m.n)
             u == Block(IF m.answered THEN "tool_use" ELSE "lone_use", m.n)
             v == Block("tool_result", m.n)
  <1>1. /\ t \in B /\ u \in B /\ v \in B /\ t.type = "text" /\ v.type = "tool_result"
        /\ u.type \in {"tool_use", "lone_use"}
        /\ u.type = "tool_use" => m.answered
    BY DEF Msg, Block, AnyBlock
  <1>2. m.calls \in BOOLEAN
    BY DEF Msg
  <1> DEFINE a == AssistantBlocks(m)
             shown == m.content = "blocks"
  <1>3. /\ a \in Seq(B)
        /\ m.calls \/ shown => a # <<>>
        /\ \A i \in DOMAIN a : a[i] = t \/ (m.calls /\ a[i] = u)
        /\ m.calls => \E i \in DOMAIN a : a[i] = u
    <2>1. a = (IF shown THEN <<t>> ELSE <<>>) \o (IF m.calls THEN <<u>> ELSE <<>>)
      BY DEF AssistantBlocks
    <2> HIDE DEF t, u, v, B, a, shown
    <2>2. /\ <<t>> \in Seq(B) /\ Len(<<t>>) = 1 /\ <<t>>[1] = t /\ DOMAIN <<t>> = {1}
          /\ <<u>> \in Seq(B) /\ Len(<<u>>) = 1 /\ <<u>>[1] = u /\ DOMAIN <<u>> = {1}
          /\ <<>> \in Seq(B)
      BY <1>1
    <2>3. CASE shown /\ m.calls
      <3> DEFINE q == <<t>> \o <<u>>
      <3>1. a = q
        BY <2>1, <2>3
      <3>2. /\ q \in Seq(B) /\ Len(q) = Len(<<t>>) + Len(<<u>>)
            /\ \A i \in 1..(Len(<<t>>) + Len(<<u>>)) :
                 q[i] = IF i <= Len(<<t>>) THEN <<t>>[i] ELSE <<u>>[i - Len(<<t>>)]
        BY <2>2, ConcatProperties
      <3> HIDE DEF q
      <3>3. Len(q) = 2 /\ q[1] = t /\ q[2] = u
        BY <2>2, <3>2
      <3>4. DOMAIN q = {1, 2} /\ q # <<>>
        <4>1. DOMAIN q = 1..2 /\ Len(<<>>) = 0
          BY <3>2, <3>3, EmptySeq
        <4> QED BY <4>1, <3>3
      <3> QED BY <2>3, <3>1, <3>2, <3>3, <3>4
    <2>4. CASE shown /\ ~m.calls
      <3>1. a = <<t>>
        BY <2>1, <2>2, <2>4, ConcatEmptySeq
      <3>2. <<t>> # <<>>
        OBVIOUS
      <3> QED BY <2>2, <2>4, <3>1, <3>2
    <2>5. CASE ~shown /\ m.calls
      <3>1. a = <<u>>
        BY <2>1, <2>2, <2>5, ConcatEmptySeq
      <3>2. <<u>> # <<>>
        OBVIOUS
      <3> QED BY <2>2, <2>5, <3>1, <3>2
    <2>6. CASE ~shown /\ ~m.calls
      <3>1. a = <<>>
        BY <2>1, <2>2, <2>6, ConcatEmptySeq
      <3> QED BY <2>2, <2>6, <3>1
    <2> QED BY <1>2, <2>3, <2>4, <2>5, <2>6
  <1>4. ASSUME NEW x \in B
        PROVE  /\ <<x>> \in Seq(B) /\ <<x>> # <<>> /\ DOMAIN <<x>> = {1} /\ <<x>>[1] = x
    BY DEF B
  <1>5. /\ Said("user", <<t>>) \in Item /\ Said("user", <<t>>).blocks # <<>>
        /\ ~ HasCalls(Said("user", <<t>>)) /\ ~ HasAnswered(Said("user", <<t>>))
        /\ ResultsOnly(Said("user", <<t>>)) = FALSE
    <2> HIDE DEF t
    <2> QED BY <1>1, <1>4 DEF Said, Item, HasCalls, HasAnswered, Has, ResultsOnly
  <1>6. /\ Said("user", <<v>>) \in Item /\ Said("user", <<v>>).blocks # <<>>
        /\ ~ HasCalls(Said("user", <<v>>)) /\ ~ HasAnswered(Said("user", <<v>>))
        /\ ResultsOnly(Said("user", <<v>>))
    <2> HIDE DEF v
    <2> QED BY <1>1, <1>4 DEF Said, Item, HasCalls, HasAnswered, Has, ResultsOnly
  <1>7. /\ Said("assistant", a) \in Item /\ Said("assistant", a).role = "assistant"
        /\ ~ ResultsOnly(Said("assistant", a))
        /\ m.calls \/ shown => Said("assistant", a).blocks # <<>>
    <2> HIDE DEF a
    <2> QED BY <1>3 DEF Said, Item, ResultsOnly
  <1>8. /\ HasCalls(Said("assistant", a)) <=> m.calls
        /\ HasAnswered(Said("assistant", a)) => m.answered
    <2>1. Said("assistant", a).blocks = a
      BY DEF Said
    <2> HIDE DEF a, t, u
    <2> QED BY <1>1, <1>2, <1>3, <2>1 DEF HasCalls, HasAnswered, Has
  <1> QED BY <1>5, <1>6, <1>7, <1>8

LEMMA NewStep ==
  ASSUME NEW s, Sound(s), Paired(s),
         \A i \in DOMAIN s : s[i].role = "assistant" => s[i].calls \/ s[i].content # "none",
         NEW n \in 0..(Len(s) - 1), NEW new, Matched(new, s, n)
  PROVE  Matched(Added(new, s[n + 1]), s, n + 1)
  <1> DEFINE m == s[n + 1]
  <1>1. s \in Seq(Msg) /\ Len(s) \in Nat /\ DOMAIN s = 1..Len(s) /\ new \in Seq(Item)
    BY DEF Sound, Matched
  <1>2. n + 1 \in DOMAIN s /\ n \in Nat /\ (n > 0 => n \in DOMAIN s)
    BY <1>1
  <1>3. m \in Msg /\ m.role \in Roles
    <2>1. m \in Msg
      BY <1>1, <1>2
    <2> HIDE DEF m
    <2> QED BY <2>1 DEF Msg
  <1>4. /\ m.calls => m.role = "assistant"
        /\ m.answered => m.calls
        /\ m.role = "assistant" => m.calls \/ m.content # "none"
    BY <1>2 DEF Sound, CallsOfAssistant
  <1>5. /\ n > 0 /\ s[n].answered => m.role = "tool"
        /\ n > 0 /\ s[n].role = "tool" => ~ s[n].calls /\ ~ s[n].answered
    BY <1>2 DEF Paired, Answered, Sound, CallsOfAssistant
  <1>6. m.role = "tool" => n > 0 /\ (s[n].calls \/ s[n].role = "tool")
    <2>1. ASSUME m.role = "tool" PROVE n > 0 /\ (s[n].calls \/ s[n].role = "tool")
      <3>1. Called(s, n + 1)
        BY <1>2, <2>1 DEF Paired
      <3>2. PICK j \in 1..((n + 1) - 1) :
              s[j].calls /\ \A k \in (j + 1)..(n + 1) : s[k].role = "tool"
        BY <3>1 DEF Called
      <3>3. n > 0 /\ (j = n \/ n \in (j + 1)..(n + 1))
        BY <1>2, <3>2
      <3> QED BY <3>2, <3>3
    <2> QED BY <2>1
  <1> DEFINE user == Said("user", <<Block("text", m.n)>>)
             result == Said("user", <<Block("tool_result", m.n)>>)
             answer == Said("assistant", AssistantBlocks(m))
  <1>7. /\ user \in Item /\ user.blocks # <<>> /\ ResultsOnly(user) = FALSE
        /\ ~ HasCalls(user) /\ ~ HasAnswered(user)
        /\ result \in Item /\ result.blocks # <<>> /\ ResultsOnly(result)
        /\ ~ HasCalls(result) /\ ~ HasAnswered(result)
        /\ answer \in Item /\ answer.role = "assistant" /\ ~ ResultsOnly(answer)
        /\ HasCalls(answer) <=> m.calls
        /\ HasAnswered(answer) => m.answered
        /\ m.calls \/ m.content = "blocks" => answer.blocks # <<>>
    <2> HIDE DEF m
    <2> QED BY <1>3, Items
  <1> HIDE DEF user, result, answer
  <1>8. CASE m.role = "system"
    <2>1. Added(new, m) = new
      BY <1>8 DEF Added
    <2>2. ~ m.calls /\ ~ (n > 0 /\ s[n].answered)
      BY <1>4, <1>5, <1>8
    <2> HIDE DEF m
    <2>3. Matched(new, s, n + 1)
      BY <2>2, <1>8 DEF Matched, m
    <2> QED BY <2>1, <2>3 DEF m
  <1>9. CASE m.role = "user"
    <2>1. Added(new, m) = Append(new, user)
      BY <1>9 DEF Added, user
    <2>2. ~ m.calls /\ ~ (n > 0 /\ s[n].answered)
      BY <1>4, <1>5, <1>9
    <2>3. Filled(user, s)
      BY <1>7 DEF Filled
    <2> QED BY <1>1, <1>2, <1>7, <1>9, <2>1, <2>2, <2>3, ItemAppended
  <1>10. CASE m.role = "assistant"
    <2>1. Added(new, m) = Append(new, answer)
      BY <1>10 DEF Added, answer
    <2>2. ~ (n > 0 /\ s[n].answered)
      BY <1>5, <1>10
    <2>3. Filled(answer, s)
      <3>1. m.content \in Contents
        <4> HIDE DEF m
        <4> QED BY <1>3 DEF Msg
      <3>2. answer.blocks = <<>> => OnlyThinks(m)
        BY <1>4, <1>7, <1>10, <3>1 DEF OnlyThinks, Contents
      <3> QED BY <1>2, <1>7, <3>2 DEF Filled
    <2> QED BY <1>1, <1>2, <1>7, <1>10, <2>1, <2>2, <2>3, ItemAppended
  <1>11. CASE m.role = "tool"
    <2>1. Added(new, m) = AddResult(new, m) /\ n > 0 /\ ~ m.calls
      BY <1>11, <1>4, <1>6 DEF Added
    <2>2. CASE s[n].calls
      <3>1. Len(new) > 0 /\ HasCalls(new[Len(new)])
        BY <2>1, <2>2 DEF Matched
      <3>2. ~ ResultsOnly(new[Len(new)])
        BY <3>1 DEF HasCalls, Has, ResultsOnly
      <3>3. AddResult(new, m) = Append(new, result)
        BY <3>2 DEF AddResult, result
      <3>4. Filled(result, s)
        BY <1>7 DEF Filled
      <3> QED BY <1>1, <1>2, <1>7, <1>11, <2>1, <2>2, <3>3, <3>4, ItemAppended
    <2>3. CASE ~ s[n].calls
      <3>1. s[n].role = "tool" /\ ~ s[n].answered
        BY <1>5, <1>6, <1>11, <2>3
      <3>2. Len(new) > 0 /\ ResultsOnly(new[Len(new)])
        BY <2>1, <3>1 DEF Matched
      <3> DEFINE b == Block("tool_result", m.n)
      <3>3. AddResult(new, m) = [new EXCEPT ![Len(new)].blocks = Append(@, b)]
        BY <3>2 DEF AddResult
      <3>4. b \in [type: {"tool_result"}, n: 0..MaxMessages]
        BY <1>3 DEF Block, Msg
      <3> HIDE DEF b
      <3>5. Matched([new EXCEPT ![Len(new)].blocks = Append(@, b)], s, n + 1)
        <4>1. n > 0 /\ s[n].role = "tool" /\ ~ s[n].answered
          BY <2>1, <3>1
        <4>2. s[n + 1].role = "tool" /\ ~ s[n + 1].calls
          BY <1>2, <1>11, <2>1
        <4>3. new \in Seq(Item) /\ n \in Nat /\ Matched(new, s, n)
          BY <1>1
        <4> QED BY ONLY <3>4, <4>1, <4>2, <4>3, ResultJoined
      <3> QED BY <2>1, <3>3, <3>5
    <2> QED BY <2>2, <2>3
  <1> QED BY <1>3, <1>8, <1>9, <1>10, <1>11 DEF Roles

LEMMA AnthropicValid ==
  ASSUME NEW s, Sound(s), Paired(s),
         \A i \in DOMAIN s : s[i].role = "assistant" => s[i].calls \/ s[i].content # "none"
  PROVE  ValidForAnthropic(s)
  <1>1. s \in Seq(Msg) /\ Len(s) \in Nat /\ DOMAIN s = 1..Len(s)
    BY DEF Sound
  <1>2. PICK F : /\ F[0] = <<>>
                 /\ \A i \in 1..Len(s) : F[i] = Added(F[i - 1], s[i])
                 /\ NewMessages(s) = F[Len(s)]
    BY <1>1, NewMessagesFold
  <1> DEFINE G == {n \in 0..Len(s) : Matched(F[n], s, n)}
  <1>3. 0 \in G
    <2>1. <<>> \in Seq(Item) /\ Len(<<>>) = 0
      OBVIOUS
    <2>2. Matched(<<>>, s, 0)
      BY <2>1 DEF Matched
    <2> QED BY <1>1, <1>2, <2>2
  <1>4. ASSUME NEW n \in 0..(Len(s) - 1), n \in G PROVE n + 1 \in G
    <2>1. n + 1 \in 1..Len(s) /\ (n + 1) - 1 = n /\ n + 1 \in 0..Len(s)
      BY <1>1
    <2>2. Matched(F[n], s, n)
      BY <1>4
    <2>3. Matched(Added(F[n], s[n + 1]), s, n + 1)
      BY <2>2, NewStep
    <2>4. F[n + 1] = Added(F[n], s[n + 1])
      BY <1>2, <2>1
    <2> QED BY <2>1, <2>3, <2>4
  <1>5. Len(s) \in G
    <2>1. \A n \in 0..(Len(s) - 1) : n \in G => n + 1 \in G
      BY <1>4
    <2> HIDE DEF G
    <2>2. 0..Len(s) \subseteq G
      BY <1>1, <1>3, <2>1, CountUp
    <2> QED BY <1>1, <2>2
  <1> DEFINE new == NewMessages(s)
  <1>6. Matched(new, s, Len(s))
    BY <1>2, <1>5
  <1> HIDE DEF new
  <1>7. ~ (Len(s) > 0 /\ s[Len(s)].answered)
    BY <1>1 DEF Paired, Answered
  <1>8. new \in Seq(Item) /\ DOMAIN new = 1..Len(new)
    BY <1>6 DEF Matched
  <1>9. ASSUME NEW k \in DOMAIN new
        PROVE  /\ Filled(new[k], s)
               /\ HasAnswered(new[k]) => k < Len(new) /\ ResultsOnly(new[k + 1])
               /\ ResultsOnly(new[k]) => k > 1 /\ HasCalls(new[k - 1])
    <2>1. k \in 1..Len(new)
      BY <1>8
    <2>2. /\ Filled(new[k], s)
          /\ HasAnswered(new[k]) => \/ k < Len(new) /\ ResultsOnly(new[k + 1])
                                    \/ Len(s) > 0 /\ s[Len(s)].answered
          /\ ResultsOnly(new[k]) => k > 1 /\ HasCalls(new[k - 1])
      BY ONLY <1>6, <2>1 DEF Matched
    <2> QED BY ONLY <1>7, <2>2
  <1> QED BY ONLY <1>9 DEF Filled, ValidForAnthropic, new

(***************************************************************************)
(* Whatever was truncated or summarised, a provider with or without tools  *)
(* (modalities.py) gets a list it accepts, and Anthropic's payload         *)
(* (anthropic_source.py:186) has each call's results in the one message    *)
(* after it, no empty message but for answers of nothing but a thought     *)
(* without its signature, and the system prompt of the first request: for  *)
(* conversations of any length, with any number of results of a message.   *)
(***************************************************************************)
THEOREM ProvidersAccept == Spec => []ProviderAccepts
  <1>1. ContextInv => ProviderAccepts
    <2> SUFFICES ASSUME ContextInv, NEW tools \in BOOLEAN
                 PROVE  LET s == Sanitized(messages, tools) IN
                        /\ Paired(s)
                        /\ StartsWithUser(s)
                        /\ \A i \in DOMAIN s :
                             /\ s[i].role = "assistant" => s[i].calls \/ s[i].content # "none"
                             /\ ~tools => s[i].role # "tool" /\ ~s[i].calls
                        /\ ValidForAnthropic(s)
                        /\ SystemPrompt(s) = System(messages)
      BY DEF ProviderAccepts
    <2> DEFINE s == Sanitized(messages, tools)
    <2>1. /\ Talk(s)
          /\ System(s) = System(messages)
          /\ \A i \in DOMAIN s :
               /\ s[i].role = "assistant" => s[i].calls \/ s[i].content # "none"
               /\ ~tools => s[i].role # "tool" /\ ~ s[i].calls
      BY SanitizedTalk DEF ContextInv
    <2> HIDE DEF s
    <2>2. Sound(s) /\ Paired(s) /\ StartsWithUser(s)
      BY <2>1 DEF Talk
    <2>3. SystemPrompt(s) = System(s)
      BY <2>2, PromptOfTalk
    <2>4. ValidForAnthropic(s)
      BY <2>1, <2>2, AnthropicValid
    <2> QED BY <2>1, <2>2, <2>3, <2>4 DEF s
  <1> QED BY <1>1, ContextInvariant, PTL

-----------------------------------------------------------------------------
(***************************************************************************)
(* An answer, streamed and whole: what the stream has after n blocks is    *)
(* what the first n blocks have as a whole, but for the calls without      *)
(* arguments.                                                              *)
(***************************************************************************)
IsRead(F, st, events) ==
  F = [k \in 0..Len(events) |-> IF k = 0 THEN st ELSE Handled(F[k - 1], events[k])]

IsStream(F, blocks) ==
  F = [n \in 0..Len(blocks) |->
         IF n = 0 THEN Opened ELSE Read(F[n - 1], BlockEvents(n, blocks[n]))]

LEMMA ReadDefined ==
  ASSUME NEW st, NEW events, Len(events) \in Nat
  PROVE  \E F : IsRead(F, st, events)
  <1> DEFINE Built(F, n) == /\ F = [i \in 0..n |-> F[i]]
                           /\ F[0] = st
                           /\ \A i \in 1..n : F[i] = Handled(F[i - 1], events[i])
             G == {n \in 0..Len(events) : \E F : Built(F, n)}
  <1>1. 0 \in G
    <2>1. Built([i \in 0..0 |-> st], 0)
      OBVIOUS
    <2> HIDE DEF Built
    <2> QED BY <2>1
  <1>2. ASSUME NEW n \in 0..(Len(events) - 1), n \in G PROVE n + 1 \in G
    <2>1. PICK F : Built(F, n)
      BY <1>2
    <2> n + 1 \in 0..Len(events)
      OBVIOUS
    <2> HIDE DEF Built
    <2> DEFINE E == [i \in 0..(n + 1) |-> IF i = n + 1 THEN Handled(F[n], events[n + 1]) ELSE F[i]]
    <2>2. ASSUME NEW i \in 1..(n + 1) PROVE E[i] = Handled(E[i - 1], events[i])
      <3>1. E[i - 1] = F[i - 1]
        OBVIOUS
      <3>2. CASE i = n + 1
        BY <3>1, <3>2
      <3>3. CASE i # n + 1
        <4>1. i \in 1..n
          BY ONLY <3>3, i \in 1..(n + 1), n \in Nat
        <4>2. E[i] = F[i]
          BY <3>3
        <4> QED BY <2>1, <3>1, <4>1, <4>2 DEF Built
      <3> QED BY <3>2, <3>3
    <2>3. E = [i \in 0..(n + 1) |-> E[i]]
      OBVIOUS
    <2>4. E[0] = st
      BY <2>1 DEF Built
    <2>5. Built(E, n + 1)
      <3> HIDE DEF E
      <3> QED BY <2>2, <2>3, <2>4 DEF Built
    <2> QED BY <2>5
  <1>3. Len(events) \in G
    <2>1. \A n \in 0..(Len(events) - 1) : n \in G => n + 1 \in G
      BY <1>2
    <2> HIDE DEF G
    <2>2. 0..Len(events) \subseteq G
      BY <1>1, <2>1, CountUp
    <2> QED BY <2>2
  <1>4. PICK F : Built(F, Len(events))
    BY <1>3
  <1>5. \A i \in 0..Len(events) : F[i] = IF i = 0 THEN st ELSE Handled(F[i - 1], events[i])
    <2>1. \A i \in 0..Len(events) : i # 0 => i \in 1..Len(events)
      OBVIOUS
    <2> QED BY <1>4, <2>1
  <1>6. F = [i \in 0..Len(events) |-> F[i]]
    BY <1>4
  <1>7. IsRead(F, st, events)
    BY <1>5, <1>6 DEF IsRead
  <1> QED BY <1>7

LEMMA ReadFold ==
  ASSUME NEW st, NEW events, Len(events) \in Nat
  PROVE  \E F : /\ F[0] = st
                /\ \A k \in 1..Len(events) : F[k] = Handled(F[k - 1], events[k])
                /\ Read(st, events) = F[Len(events)]
  <1> DEFINE C == CHOOSE F : IsRead(F, st, events)
  <1>1. IsRead(C, st, events)
    BY ReadDefined
  <1>2. Read(st, events) = C[Len(events)]
    BY DEF Read, IsRead
  <1> HIDE DEF C
  <1>3. C[0] = st /\ \A k \in 1..Len(events) : C[k] = Handled(C[k - 1], events[k])
    BY <1>1 DEF IsRead
  <1> QED BY <1>2, <1>3

(* The events of a block have at most four.                                *)
LEMMA ReadThree ==
  ASSUME NEW st, NEW a, NEW b, NEW c
  PROVE  Read(st, <<a, b, c>>) = Handled(Handled(Handled(st, a), b), c)
  <1> DEFINE es == <<a, b, c>>
  <1>1. Len(es) = 3 /\ es[1] = a /\ es[2] = b /\ es[3] = c
    OBVIOUS
  <1> HIDE DEF es
  <1>2. PICK F : /\ F[0] = st
                 /\ \A k \in 1..Len(es) : F[k] = Handled(F[k - 1], es[k])
                 /\ Read(st, es) = F[Len(es)]
    <2>1. Len(es) \in Nat
      BY <1>1
    <2> QED BY ONLY <2>1, ReadFold
  <1>3. F[1] = Handled(F[0], a) /\ F[2] = Handled(F[1], b) /\ F[3] = Handled(F[2], c)
    <2>1. 1 \in 1..3 /\ 2 \in 1..3 /\ 3 \in 1..3 /\ 1 - 1 = 0 /\ 2 - 1 = 1 /\ 3 - 1 = 2
      OBVIOUS
    <2> QED BY <1>1, <1>2, <2>1
  <1> QED BY <1>1, <1>2, <1>3 DEF es

LEMMA ReadFour ==
  ASSUME NEW st, NEW a, NEW b, NEW c, NEW d
  PROVE  Read(st, <<a, b, c, d>>) = Handled(Handled(Handled(Handled(st, a), b), c), d)
  <1> DEFINE es == <<a, b, c, d>>
  <1>1. Len(es) = 4 /\ es[1] = a /\ es[2] = b /\ es[3] = c /\ es[4] = d
    OBVIOUS
  <1> HIDE DEF es
  <1>2. PICK F : /\ F[0] = st
                 /\ \A k \in 1..Len(es) : F[k] = Handled(F[k - 1], es[k])
                 /\ Read(st, es) = F[Len(es)]
    <2>1. Len(es) \in Nat
      BY <1>1
    <2> QED BY ONLY <2>1, ReadFold
  <1>3. /\ F[1] = Handled(F[0], a) /\ F[2] = Handled(F[1], b)
        /\ F[3] = Handled(F[2], c) /\ F[4] = Handled(F[3], d)
    <2>1. /\ 1 \in 1..4 /\ 2 \in 1..4 /\ 3 \in 1..4 /\ 4 \in 1..4
          /\ 1 - 1 = 0 /\ 2 - 1 = 1 /\ 3 - 1 = 2 /\ 4 - 1 = 3
      OBVIOUS
    <2> QED BY <1>1, <1>2, <2>1
  <1> QED BY <1>1, <1>2, <1>3 DEF es


Both(st, x, y) == [st EXCEPT !.final = x, !.shown = y]

LEMMA BothSet ==
  ASSUME NEW b, NEW f, NEW s, NEW x, NEW y, NEW st, st = [buffer |-> b, final |-> f, shown |-> s]
  PROVE Both(st, x, y) = [buffer |-> b, final |-> x, shown |-> y]
  <1> DEFINE m == [st EXCEPT !.final = x]
             l == [st EXCEPT !.final = x, !.shown = y]
  <1>1. m = [buffer |-> b, final |-> x, shown |-> s]
    OBVIOUS
  <1>2. l = [m EXCEPT !.shown = y]
    OBVIOUS
  <1> HIDE DEF m, l
  <1>3. l = [buffer |-> b, final |-> x, shown |-> y]
    BY ONLY <1>1, <1>2
  <1> QED BY <1>3 DEF l, Both

(* What the loop has between two events: the buffer b, the signature g,    *)
(* and texts t, thoughts q and calls c, of which the chunks showed all.    *)
Thought == TRUE
Final(t, q, g, c) == Response(t, q, Thought, g, c)
Shown(t, q, c) == [text |-> t, reasoning |-> q, calls |-> c]
State(b, t, q, g, c) ==
  [buffer |-> b, final |-> Final(t, q, g, c), shown |-> Shown(t, q, c)]

LEMMA ResponseSet ==
  ASSUME NEW t, NEW q, NEW h, NEW g, NEW c, NEW x
  PROVE  /\ [Response(t, q, h, g, c) EXCEPT !.text = x] = Response(x, q, h, g, c)
         /\ [Response(t, q, h, g, c) EXCEPT !.reasoning = x] = Response(t, x, h, g, c)
         /\ [Response(t, q, h, g, c) EXCEPT !.signature = x] = Response(t, q, h, x, c)
         /\ [Response(t, q, h, g, c) EXCEPT !.calls = x] = Response(t, q, h, g, x)
  <1>1. [Response(t, q, h, g, c) EXCEPT !.text = x] = Response(x, q, h, g, c)
    BY DEF Response
  <1>2. [Response(t, q, h, g, c) EXCEPT !.reasoning = x] = Response(t, x, h, g, c)
    BY DEF Response
  <1>3. [Response(t, q, h, g, c) EXCEPT !.signature = x] = Response(t, q, h, x, c)
    BY DEF Response
  <1>4. [Response(t, q, h, g, c) EXCEPT !.calls = x] = Response(t, q, h, g, x)
    BY DEF Response
  <1> QED BY <1>1, <1>2, <1>3, <1>4

LEMMA FinalSet ==
  ASSUME NEW t, NEW q, NEW g, NEW c, NEW x
  PROVE  /\ [Final(t, q, g, c) EXCEPT !.text = x] = Final(x, q, g, c)
         /\ [Final(t, q, g, c) EXCEPT !.reasoning = x] = Final(t, x, g, c)
         /\ [Final(t, q, g, c) EXCEPT !.signature = x] = Final(t, q, x, c)
         /\ [Final(t, q, g, c) EXCEPT !.calls = x] = Final(t, q, g, x)
  BY ResponseSet DEF Final
Open(i, pieces) == [j \in {i} |-> pieces]

(* What each type of event does.                                           *)
LEMMA HandledAs ==
  ASSUME NEW st, NEW e
  PROVE  /\ e.type = "content_block_start" =>
              Handled(st, e) = IF e.piece = "tool_use" THEN Started(st, e.index) ELSE st
         /\ e.type = "text_delta" => Handled(st, e) = TextGrown(st, e.index)
         /\ e.type = "thinking_delta" => Handled(st, e) = ThoughtGrown(st, e.index)
         /\ e.type = "signature_delta" => Handled(st, e) = SignatureRead(st, e.index)
         /\ e.type = "input_json_delta" =>
              Handled(st, e) = IF e.index \in DOMAIN st.buffer THEN InputGrown(st, e.index, e.piece) ELSE st
         /\ e.type = "content_block_stop" =>
              Handled(st, e) = IF e.index \in DOMAIN st.buffer THEN Stopped(st, e.index) ELSE st
  BY DEF Handled

LEMMA NotACall ==
  ASSUME NEW st, NEW i, NEW piece, piece # "tool_use"
  PROVE  Handled(st, Event("content_block_start", i, piece)) = st
  BY HandledAs DEF Event

LEMMA CallStarted ==
  ASSUME NEW b, DOMAIN b = {}, NEW t, NEW q, NEW g, NEW c, NEW i
  PROVE  Handled(State(b, t, q, g, c), Event("content_block_start", i, "tool_use"))
           = State(Open(i, <<>>), t, q, g, c)
  <1>1. Handled(State(b, t, q, g, c), Event("content_block_start", i, "tool_use")) = Started(State(b, t, q, g, c), i)
    BY HandledAs DEF Event
  <1> QED BY <1>1 DEF Started, State, Open

LEMMA TextAdded ==
  ASSUME NEW b, NEW t, NEW q, NEW g, NEW c, NEW i, NEW piece
  PROVE  Handled(State(b, t, q, g, c), Event("text_delta", i, piece)) = State(b, Grown(t, i), q, g, c)
  <1> DEFINE e == Event("text_delta", i, piece)
             st == State(b, t, q, g, c)
  <1>1. e.type = "text_delta" /\ e.index = i
    BY DEF Event
  <1>2. [st EXCEPT !.final.text = Grown(@, i), !.shown.text = Grown(@, i)]
          = State(b, Grown(t, i), q, g, c)
    <2> DEFINE r == Final(t, q, g, c)
               x == [r EXCEPT !.text = Grown(@, i)]
               u == Shown(t, q, c)
               y == [u EXCEPT !.text = Grown(@, i)]
    <2>1. x = Final(Grown(t, i), q, g, c) /\ y = Shown(Grown(t, i), q, c)
      <3>1. r.text = t /\ u.text = t
        BY DEF Final, Response, Shown
      <3>2. \A z : [r EXCEPT !.text = z] = Final(z, q, g, c)
        BY FinalSet
      <3>3. \A z : [u EXCEPT !.text = z] = Shown(z, q, c)
        BY DEF Shown
      <3> QED BY ONLY <3>1, <3>2, <3>3
    <2>2. st.final = r /\ st.shown = u
      BY DEF State
    <2>3. [st EXCEPT !.final = x, !.shown = y] = State(b, Grown(t, i), q, g, c)
      <3>1. st = [buffer |-> b, final |-> r, shown |-> u]
        BY DEF State
      <3> HIDE DEF x, y, r, u, st
      <3>2. Both(st, x, y) = [buffer |-> b, final |-> x, shown |-> y]
        BY <3>1, BothSet
      <3>3. State(b, Grown(t, i), q, g, c) = [buffer |-> b, final |-> x, shown |-> y]
        BY <2>1 DEF State
      <3> QED BY <3>2, <3>3 DEF Both
    <2> HIDE DEF st, r, u
    <2>4. [st EXCEPT !.final.text = Grown(@, i), !.shown.text = Grown(@, i)]
            = [st EXCEPT !.final = x, !.shown = y]
      BY <2>2
    <2> QED BY <2>3, <2>4
  <1> HIDE DEF e, st
  <1>3. Handled(st, e) = [st EXCEPT !.final.text = Grown(@, i), !.shown.text = Grown(@, i)]
    <2>1. Handled(st, e) = TextGrown(st, i)
      BY <1>1, HandledAs
    <2> QED BY <2>1 DEF TextGrown
  <1>4. Handled(st, e) = State(b, Grown(t, i), q, g, c)
    BY <1>2, <1>3
  <1> QED BY <1>4 DEF e, st

LEMMA ThoughtAdded ==
  ASSUME NEW b, NEW t, NEW q, NEW g, NEW c, NEW i, NEW piece
  PROVE  Handled(State(b, t, q, g, c), Event("thinking_delta", i, piece)) = State(b, t, Grown(q, i), g, c)
  <1> DEFINE e == Event("thinking_delta", i, piece)
             st == State(b, t, q, g, c)
  <1>1. e.type = "thinking_delta" /\ e.index = i
    BY DEF Event
  <1>2. [st EXCEPT !.final.reasoning = Grown(@, i), !.shown.reasoning = Grown(@, i)]
          = State(b, t, Grown(q, i), g, c)
    <2> DEFINE r == Final(t, q, g, c)
               x == [r EXCEPT !.reasoning = Grown(@, i)]
               u == Shown(t, q, c)
               y == [u EXCEPT !.reasoning = Grown(@, i)]
    <2>1. x = Final(t, Grown(q, i), g, c) /\ y = Shown(t, Grown(q, i), c)
      <3>1. r.reasoning = q /\ u.reasoning = q
        BY DEF Final, Response, Shown
      <3>2. \A z : [r EXCEPT !.reasoning = z] = Final(t, z, g, c)
        BY FinalSet
      <3>3. \A z : [u EXCEPT !.reasoning = z] = Shown(t, z, c)
        BY DEF Shown
      <3> QED BY ONLY <3>1, <3>2, <3>3
    <2>2. st.final = r /\ st.shown = u
      BY DEF State
    <2>3. [st EXCEPT !.final = x, !.shown = y] = State(b, t, Grown(q, i), g, c)
      <3>1. st = [buffer |-> b, final |-> r, shown |-> u]
        BY DEF State
      <3> HIDE DEF x, y, r, u, st
      <3>2. Both(st, x, y) = [buffer |-> b, final |-> x, shown |-> y]
        BY <3>1, BothSet
      <3>3. State(b, t, Grown(q, i), g, c) = [buffer |-> b, final |-> x, shown |-> y]
        BY <2>1 DEF State
      <3> QED BY <3>2, <3>3 DEF Both
    <2> HIDE DEF st, r, u
    <2>4. [st EXCEPT !.final.reasoning = Grown(@, i), !.shown.reasoning = Grown(@, i)]
            = [st EXCEPT !.final = x, !.shown = y]
      BY <2>2
    <2> QED BY <2>3, <2>4
  <1> HIDE DEF e, st
  <1>3. Handled(st, e) = [st EXCEPT !.final.reasoning = Grown(@, i), !.shown.reasoning = Grown(@, i)]
    <2>1. Handled(st, e) = ThoughtGrown(st, i)
      BY <1>1, HandledAs
    <2> QED BY <2>1 DEF ThoughtGrown
  <1>4. Handled(st, e) = State(b, t, Grown(q, i), g, c)
    BY <1>2, <1>3
  <1> QED BY <1>4 DEF e, st

LEMMA SignatureAdded ==
  ASSUME NEW b, NEW t, NEW q, NEW g, NEW c, NEW i, NEW piece
  PROVE  Handled(State(b, t, q, g, c), Event("signature_delta", i, piece)) = State(b, t, q, <<i>>, c)
  <1> DEFINE e == Event("signature_delta", i, piece)
             st == State(b, t, q, g, c)
             r == Final(t, q, g, c)
             x == [r EXCEPT !.signature = <<i>>]
  <1>1. e.type = "signature_delta" /\ e.index = i
    BY DEF Event
  <1>2. x = Final(t, q, <<i>>, c)
    BY FinalSet
  <1>3. st = [buffer |-> b, final |-> r, shown |-> Shown(t, q, c)]
    BY DEF State
  <1> HIDE DEF e, st, r
  <1>4. Handled(st, e) = [st EXCEPT !.final.signature = <<i>>]
    BY <1>1, HandledAs DEF SignatureRead
  <1>5. [st EXCEPT !.final.signature = <<i>>] = [st EXCEPT !.final = x]
    BY <1>3
  <1> HIDE DEF x
  <1>6. [st EXCEPT !.final = x] = [buffer |-> b, final |-> x, shown |-> Shown(t, q, c)]
    BY <1>3
  <1>7. Handled(st, e) = State(b, t, q, <<i>>, c)
    BY ONLY <1>2, <1>4, <1>5, <1>6 DEF State
  <1> QED BY <1>7 DEF e, st

LEMMA InputAdded ==
  ASSUME NEW pieces, NEW t, NEW q, NEW g, NEW c, NEW i, NEW piece
  PROVE  Handled(State(Open(i, pieces), t, q, g, c), Event("input_json_delta", i, piece))
           = State(Open(i, Append(pieces, piece)), t, q, g, c)
  <1> DEFINE e == Event("input_json_delta", i, piece)
             b == Open(i, pieces)
             st == State(b, t, q, g, c)
  <1>1. e.type = "input_json_delta" /\ e.index = i /\ e.piece = piece
    BY DEF Event
  <1>2. st.buffer = b /\ i \in DOMAIN st.buffer
    BY DEF State, Open
  <1>3. [b EXCEPT ![i] = Append(@, piece)] = Open(i, Append(pieces, piece))
    BY DEF Open
  <1>4. [st EXCEPT !.buffer = [b EXCEPT ![i] = Append(@, piece)]] = State(Open(i, Append(pieces, piece)), t, q, g, c)
    <2>1. \A x : [st EXCEPT !.buffer = x] = State(x, t, q, g, c)
      <3> HIDE DEF b
      <3> QED BY DEF State
    <2> QED BY ONLY <1>3, <2>1
  <1> HIDE DEF e, st, b
  <1>5. Handled(st, e) = [st EXCEPT !.buffer[i] = Append(@, piece)]
    <2>1. Handled(st, e) = InputGrown(st, i, piece)
      BY <1>1, <1>2, HandledAs
    <2> QED BY <2>1 DEF InputGrown
  <1>6. [st EXCEPT !.buffer[i] = Append(@, piece)] = [st EXCEPT !.buffer = [b EXCEPT ![i] = Append(@, piece)]]
    BY <1>2
  <1>7. Handled(st, e) = State(Open(i, Append(pieces, piece)), t, q, g, c)
    BY <1>4, <1>5, <1>6
  <1> QED BY <1>7 DEF e, st, b

LEMMA NothingStopped ==
  ASSUME NEW b, DOMAIN b = {}, NEW t, NEW q, NEW g, NEW c, NEW i
  PROVE  Handled(State(b, t, q, g, c), Event("content_block_stop", i, "none")) = State(b, t, q, g, c)
  BY HandledAs DEF Event, State

(* The end of a call, with what json.loads makes of its pieces.            *)
LEMMA CallStopped ==
  ASSUME NEW pieces, NEW t, NEW q, NEW g, NEW c, NEW i
  PROVE  \E b : /\ DOMAIN b = {}
                /\ Handled(State(Open(i, pieces), t, q, g, c), Event("content_block_stop", i, "none"))
                     = State(b, t, q, g, IF Joined(pieces) = "invalid" THEN c ELSE Append(c, Call(i, Joined(pieces))))
  <1> DEFINE e == Event("content_block_stop", i, "none")
             b == Open(i, pieces)
             st == State(b, t, q, g, c)
             none == [j \in {i} \ {i} |-> b[j]]
             call == Call(i, Joined(pieces))
  <1>1. e.type = "content_block_stop" /\ e.index = i
    BY DEF Event
  <1>2. st.buffer = b /\ i \in DOMAIN st.buffer /\ DOMAIN st.buffer = {i} /\ b[i] = pieces
    BY DEF State, Open
  <1>3. DOMAIN none = {}
    OBVIOUS
  <1>4. [st EXCEPT !.buffer = none] = State(none, t, q, g, c)
    BY DEF State
  <1>5. [State(none, t, q, g, c) EXCEPT !.final.calls = Append(@, call), !.shown.calls = Append(@, call)]
          = State(none, t, q, g, Append(c, call))
    <2> HIDE DEF none, call
    <2> DEFINE s == State(none, t, q, g, c)
               r == Final(t, q, g, c)
               x == [r EXCEPT !.calls = Append(@, call)]
               u == Shown(t, q, c)
               y == [u EXCEPT !.calls = Append(@, call)]
    <2>1. x = Final(t, q, g, Append(c, call)) /\ y = Shown(t, q, Append(c, call))
      <3>1. r.calls = c /\ u.calls = c
        BY DEF Final, Response, Shown
      <3>2. \A z : [r EXCEPT !.calls = z] = Final(t, q, g, z)
        BY FinalSet
      <3>3. \A z : [u EXCEPT !.calls = z] = Shown(t, q, z)
        BY DEF Shown
      <3> QED BY ONLY <3>1, <3>2, <3>3
    <2>2. s.final = r /\ s.shown = u
      BY DEF State
    <2>3. [s EXCEPT !.final = x, !.shown = y] = State(none, t, q, g, Append(c, call))
      <3>1. s = [buffer |-> none, final |-> r, shown |-> u]
        BY DEF State
      <3> HIDE DEF x, y, r, u, s
      <3>2. Both(s, x, y) = [buffer |-> none, final |-> x, shown |-> y]
        BY <3>1, BothSet
      <3>3. State(none, t, q, g, Append(c, call)) = [buffer |-> none, final |-> x, shown |-> y]
        BY <2>1 DEF State
      <3> QED BY <3>2, <3>3 DEF Both
    <2> HIDE DEF s, r, u
    <2>4. [s EXCEPT !.final.calls = Append(@, call), !.shown.calls = Append(@, call)]
            = [s EXCEPT !.final = x, !.shown = y]
      BY <2>2
    <2>5. [s EXCEPT !.final.calls = Append(@, call), !.shown.calls = Append(@, call)]
            = State(none, t, q, g, Append(c, call))
      BY <2>3, <2>4
    <2> QED BY <2>5 DEF s
  <1>6. call.input = Joined(pieces)
    BY DEF Call
  <1>7. [j \in DOMAIN st.buffer \ {i} |-> st.buffer[j]] = none
    BY <1>2
  <1> HIDE DEF e, st, b, none
  <1>8. Handled(st, e) = Stopped(st, i)
    BY <1>1, <1>2, HandledAs
  <1>9. Stopped(st, i) = State(none, t, q, g, IF Joined(pieces) = "invalid" THEN c ELSE Append(c, call))
    <2>1. Stopped(st, i) =
            IF call.input = "invalid" THEN [st EXCEPT !.buffer = none]
            ELSE [[st EXCEPT !.buffer = none] EXCEPT !.final.calls = Append(@, call), !.shown.calls = Append(@, call)]
      BY <1>2, <1>7 DEF Stopped
    <2> HIDE DEF call
    <2> QED BY <2>1, <1>4, <1>5, <1>6
  <1>10. Handled(st, e) = State(none, t, q, g, IF Joined(pieces) = "invalid" THEN c ELSE Append(c, Call(i, Joined(pieces))))
    BY <1>8, <1>9
  <1> QED BY <1>3, <1>10 DEF e, st, b

LEMMA GrownNew ==
  ASSUME NEW n \in Nat \ {0}, NEW t \in Seq(1..(n - 1))
  PROVE  /\ Grown(t, n) = Append(t, n)
         /\ Grown(Append(t, n), n) = Append(t, n)
         /\ Append(t, n) \in Seq(1..n)
  <1> Len(t) \in Nat /\ DOMAIN t = 1..Len(t)
    OBVIOUS
  <1>1. ~ (t # <<>> /\ Last(t) = n)
    <2>1. ASSUME t # <<>> PROVE t[Len(t)] \in 1..(n - 1)
      <3>1. Len(t) \in 1..Len(t)
        BY <2>1
      <3> QED BY <3>1
    <2> QED BY <2>1 DEF Last
  <1>2. t \in Seq(1..n) /\ n \in 1..n
    <2>1. 1..(n - 1) \subseteq 1..n
      OBVIOUS
    <2> QED BY <2>1, SeqMonotonic
  <1>3. /\ Append(t, n) \in Seq(1..n) /\ Append(t, n) # <<>>
        /\ Len(Append(t, n)) = Len(t) + 1 /\ Append(t, n)[Len(t) + 1] = n
    <2> DEFINE S == 1..n
    <2>1. t \in Seq(S) /\ n \in S
      BY <1>2
    <2> HIDE DEF S
    <2>2. /\ Append(t, n) \in Seq(S) /\ Append(t, n) # <<>>
          /\ Len(Append(t, n)) = Len(t) + 1 /\ Append(t, n)[Len(t) + 1] = n
      BY ONLY <2>1, Appended, SMTT(30)
    <2> QED BY ONLY <2>2 DEF S
  <1>4. Last(Append(t, n)) = n
    <2> DEFINE grown == Append(t, n)
    <2>1. Last(grown) = grown[Len(grown)]
      BY DEF Last
    <2>2. Len(grown) = Len(t) + 1 /\ grown[Len(t) + 1] = n
      BY <1>3
    <2> HIDE DEF grown
    <2>3. Last(grown) = n
      BY <2>1, <2>2
    <2> QED BY <2>3 DEF grown
  <1> QED BY <1>1, <1>3, <1>4 DEF Grown

(* Between two blocks no call is under way.                                *)
Between(st, t, q, g, c) == \E b : DOMAIN b = {} /\ st = State(b, t, q, g, c)

LEMMA TextRead ==
  ASSUME NEW n \in Nat \ {0}, NEW st, NEW t \in Seq(1..(n - 1)), NEW q, NEW g, NEW c, Between(st, t, q, g, c)
  PROVE  Between(Read(st, BlockEvents(n, "text")), Append(t, n), q, g, c)
  <1>1. PICK b : DOMAIN b = {} /\ st = State(b, t, q, g, c)
    BY DEF Between
  <1>2. BlockEvents(n, "text") = <<Event("content_block_start", n, "none"), Event("text_delta", n, "words"),
                                   Event("text_delta", n, "more"), Event("content_block_stop", n, "none")>>
    BY DEF BlockEvents, Calls
  <1>3. Handled(st, Event("content_block_start", n, "none")) = State(b, t, q, g, c)
    BY <1>1, NotACall
  <1>4. Handled(State(b, t, q, g, c), Event("text_delta", n, "words")) = State(b, Append(t, n), q, g, c)
    <2>1. Handled(State(b, t, q, g, c), Event("text_delta", n, "words")) = State(b, Grown(t, n), q, g, c)
      BY ONLY TextAdded
    <2> QED BY <2>1, GrownNew
  <1>5. Handled(State(b, Append(t, n), q, g, c), Event("text_delta", n, "more")) = State(b, Append(t, n), q, g, c)
    <2>1. Handled(State(b, Append(t, n), q, g, c), Event("text_delta", n, "more"))
            = State(b, Grown(Append(t, n), n), q, g, c)
      BY ONLY TextAdded
    <2> QED BY <2>1, GrownNew
  <1>6. Handled(State(b, Append(t, n), q, g, c), Event("content_block_stop", n, "none")) = State(b, Append(t, n), q, g, c)
    BY <1>1, NothingStopped
  <1>7. Read(st, BlockEvents(n, "text")) = State(b, Append(t, n), q, g, c)
    BY <1>2, <1>3, <1>4, <1>5, <1>6, ReadFour
  <1> QED BY <1>1, <1>7 DEF Between

LEMMA ThinkingRead ==
  ASSUME NEW n \in Nat \ {0}, NEW st, NEW t, NEW q \in Seq(1..(n - 1)), NEW g, NEW c, Between(st, t, q, g, c)
  PROVE  /\ Between(Read(st, BlockEvents(n, "thinking")), t, Append(q, n), <<n>>, c)
         /\ Between(Read(st, BlockEvents(n, "unsigned")), t, Append(q, n), g, c)
  <1>1. PICK b : DOMAIN b = {} /\ st = State(b, t, q, g, c)
    BY DEF Between
  <1>2. /\ BlockEvents(n, "thinking") =
              <<Event("content_block_start", n, "none"), Event("thinking_delta", n, "thought"),
                Event("signature_delta", n, "signature"), Event("content_block_stop", n, "none")>>
        /\ BlockEvents(n, "unsigned") =
              <<Event("content_block_start", n, "none"), Event("thinking_delta", n, "thought"),
                Event("content_block_stop", n, "none")>>
    BY DEF BlockEvents, Calls
  <1>3. Handled(st, Event("content_block_start", n, "none")) = State(b, t, q, g, c)
    BY <1>1, NotACall
  <1>4. Handled(State(b, t, q, g, c), Event("thinking_delta", n, "thought")) = State(b, t, Append(q, n), g, c)
    <2>1. Handled(State(b, t, q, g, c), Event("thinking_delta", n, "thought")) = State(b, t, Grown(q, n), g, c)
      BY ONLY ThoughtAdded
    <2> QED BY <2>1, GrownNew
  <1>5. Handled(State(b, t, Append(q, n), g, c), Event("signature_delta", n, "signature"))
          = State(b, t, Append(q, n), <<n>>, c)
    BY ONLY SignatureAdded
  <1>6. \A s : Handled(State(b, t, Append(q, n), s, c), Event("content_block_stop", n, "none"))
                = State(b, t, Append(q, n), s, c)
    BY <1>1, NothingStopped
  <1>7. Read(st, BlockEvents(n, "thinking")) = State(b, t, Append(q, n), <<n>>, c)
    BY <1>2, <1>3, <1>4, <1>5, <1>6, ReadFour
  <1>8. Read(st, BlockEvents(n, "unsigned")) = State(b, t, Append(q, n), g, c)
    BY <1>2, <1>3, <1>4, <1>6, ReadThree
  <1> QED BY <1>1, <1>7, <1>8 DEF Between

LEMMA CallRead ==
  ASSUME NEW n, NEW st, NEW t, NEW q, NEW g, NEW c, Between(st, t, q, g, c)
  PROVE  Between(Read(st, BlockEvents(n, "call")), t, q, g, Append(c, Call(n, "arguments")))
  <1> DEFINE B(pieces) == State(Open(n, pieces), t, q, g, c)
             pieces == Append(Append(<<>>, "empty"), "arguments")
  <1>1. PICK b : DOMAIN b = {} /\ st = State(b, t, q, g, c)
    BY DEF Between
  <1>2. BlockEvents(n, "call") = <<Event("content_block_start", n, "tool_use"), Event("input_json_delta", n, "empty"),
                                   Event("input_json_delta", n, "arguments"), Event("content_block_stop", n, "none")>>
    BY DEF BlockEvents, Calls
  <1>3. Handled(st, Event("content_block_start", n, "tool_use")) = B(<<>>)
    BY <1>1, CallStarted
  <1>4. Handled(B(<<>>), Event("input_json_delta", n, "empty")) = B(Append(<<>>, "empty"))
    <2> DEFINE none == <<>>
    <2> HIDE DEF none
    <2>1. Handled(B(none), Event("input_json_delta", n, "empty")) = B(Append(none, "empty"))
      BY ONLY InputAdded
    <2> QED BY <2>1 DEF none
  <1>5. Handled(B(Append(<<>>, "empty")), Event("input_json_delta", n, "arguments")) = B(pieces)
    BY InputAdded
  <1>6. Joined(pieces) = "arguments"
    <2>1. pieces \in Seq({"empty", "arguments"}) /\ Len(pieces) = 2 /\ pieces[2] = "arguments"
      <3> DEFINE none == <<>>
                 one == Append(<<>>, "empty")
      <3>1. none \in Seq({"empty", "arguments"}) /\ Len(none) = 0
        BY EmptySeq
      <3>2. one = Append(none, "empty") /\ pieces = Append(one, "arguments")
        OBVIOUS
      <3> HIDE DEF none, one, pieces
      <3>3. one \in Seq({"empty", "arguments"}) /\ Len(one) = 1
        BY <3>1, <3>2, Appended
      <3> QED BY <3>2, <3>3, Appended
    <2>2. 2 \in DOMAIN pieces
      BY <2>1
    <2>3. "arguments" \in ToSet(pieces)
      BY <2>1, <2>2 DEF ToSet
    <2> QED BY <2>3 DEF Joined
  <1>7. PICK b2 : /\ DOMAIN b2 = {}
                  /\ Handled(B(pieces), Event("content_block_stop", n, "none"))
                       = State(b2, t, q, g, IF Joined(pieces) = "invalid" THEN c ELSE Append(c, Call(n, Joined(pieces))))
    BY CallStopped
  <1> HIDE DEF B, pieces
  <1>8. Handled(B(pieces), Event("content_block_stop", n, "none")) = State(b2, t, q, g, Append(c, Call(n, "arguments")))
    BY <1>6, <1>7
  <1>9. Read(st, BlockEvents(n, "call")) = State(b2, t, q, g, Append(c, Call(n, "arguments")))
    BY <1>2, <1>3, <1>4, <1>5, <1>8, ReadFour
  <1> QED BY <1>7, <1>9 DEF Between

LEMMA BareRead ==
  ASSUME NEW n, NEW st, NEW t, NEW q, NEW g, NEW c, Between(st, t, q, g, c)
  PROVE  Between(Read(st, BlockEvents(n, "bare")), t, q, g, c)
  <1> DEFINE B(pieces) == State(Open(n, pieces), t, q, g, c)
             pieces == Append(<<>>, "empty")
  <1>1. PICK b : DOMAIN b = {} /\ st = State(b, t, q, g, c)
    BY DEF Between
  <1>2. BlockEvents(n, "bare") = <<Event("content_block_start", n, "tool_use"),
                                   Event("input_json_delta", n, "empty"), Event("content_block_stop", n, "none")>>
    BY DEF BlockEvents, Calls
  <1>3. Handled(st, Event("content_block_start", n, "tool_use")) = B(<<>>)
    BY <1>1, CallStarted
  <1>4. Handled(B(<<>>), Event("input_json_delta", n, "empty")) = B(pieces)
    <2> DEFINE none == <<>>
    <2> HIDE DEF none
    <2>1. Handled(B(none), Event("input_json_delta", n, "empty")) = B(Append(none, "empty"))
      BY ONLY InputAdded
    <2> QED BY <2>1 DEF none
  <1>5. Joined(pieces) = "invalid"
    <2>1. pieces \in Seq({"empty"}) /\ Len(pieces) = 1 /\ pieces[1] = "empty"
      <3> DEFINE none == <<>>
      <3>1. none \in Seq({"empty"}) /\ Len(none) = 0
        BY EmptySeq
      <3>2. pieces = Append(none, "empty")
        OBVIOUS
      <3> HIDE DEF none, pieces
      <3> QED BY <3>1, <3>2, Appended
    <2>2. pieces # <<>> /\ \A k \in DOMAIN pieces : pieces[k] = "empty"
      BY <2>1
    <2>3. "arguments" \notin ToSet(pieces)
      BY <2>2 DEF ToSet
    <2> QED BY <2>2, <2>3 DEF Joined
  <1>6. PICK b2 : /\ DOMAIN b2 = {}
                  /\ Handled(B(pieces), Event("content_block_stop", n, "none"))
                       = State(b2, t, q, g, IF Joined(pieces) = "invalid" THEN c ELSE Append(c, Call(n, Joined(pieces))))
    BY CallStopped
  <1> HIDE DEF B, pieces
  <1>7. Handled(B(pieces), Event("content_block_stop", n, "none")) = State(b2, t, q, g, c)
    BY <1>5, <1>6
  <1>8. Read(st, BlockEvents(n, "bare")) = State(b2, t, q, g, c)
    BY <1>2, <1>3, <1>4, <1>7, ReadThree
  <1> QED BY <1>6, <1>8 DEF Between

LEMMA StreamDefined ==
  ASSUME NEW blocks, Len(blocks) \in Nat
  PROVE  \E F : IsStream(F, blocks)
  <1> DEFINE Built(F, n) == /\ F = [i \in 0..n |-> F[i]]
                           /\ F[0] = Opened
                           /\ \A i \in 1..n : F[i] = Read(F[i - 1], BlockEvents(i, blocks[i]))
             G == {n \in 0..Len(blocks) : \E F : Built(F, n)}
  <1>1. 0 \in G
    <2>1. Built([i \in 0..0 |-> Opened], 0)
      OBVIOUS
    <2> HIDE DEF Built
    <2> QED BY <2>1
  <1>2. ASSUME NEW n \in 0..(Len(blocks) - 1), n \in G PROVE n + 1 \in G
    <2>1. PICK F : Built(F, n)
      BY <1>2
    <2> n + 1 \in 0..Len(blocks)
      OBVIOUS
    <2> HIDE DEF Built
    <2> DEFINE E == [i \in 0..(n + 1) |->
                       IF i = n + 1 THEN Read(F[n], BlockEvents(n + 1, blocks[n + 1])) ELSE F[i]]
    <2>2. ASSUME NEW i \in 1..(n + 1) PROVE E[i] = Read(E[i - 1], BlockEvents(i, blocks[i]))
      <3>1. E[i - 1] = F[i - 1]
        OBVIOUS
      <3>2. CASE i = n + 1
        BY <3>1, <3>2
      <3>3. CASE i # n + 1
        <4>1. i \in 1..n
          BY ONLY <3>3, i \in 1..(n + 1), n \in Nat
        <4>2. E[i] = F[i]
          BY <3>3
        <4> QED BY <2>1, <3>1, <4>1, <4>2 DEF Built
      <3> QED BY <3>2, <3>3
    <2>3. E = [i \in 0..(n + 1) |-> E[i]]
      OBVIOUS
    <2>4. E[0] = Opened
      BY <2>1 DEF Built
    <2>5. Built(E, n + 1)
      <3> HIDE DEF E
      <3> QED BY <2>2, <2>3, <2>4 DEF Built
    <2> QED BY <2>5
  <1>3. Len(blocks) \in G
    <2>1. \A n \in 0..(Len(blocks) - 1) : n \in G => n + 1 \in G
      BY <1>2
    <2> HIDE DEF G
    <2>2. 0..Len(blocks) \subseteq G
      BY <1>1, <2>1, CountUp
    <2> QED BY <2>2
  <1>4. PICK F : Built(F, Len(blocks))
    BY <1>3
  <1>5. \A n \in 0..Len(blocks) :
          F[n] = IF n = 0 THEN Opened ELSE Read(F[n - 1], BlockEvents(n, blocks[n]))
    <2>1. \A i \in 0..Len(blocks) : i # 0 => i \in 1..Len(blocks)
      OBVIOUS
    <2> QED BY <1>4, <2>1
  <1>6. F = [i \in 0..Len(blocks) |-> F[i]]
    BY <1>4
  <1>7. IsStream(F, blocks)
    BY <1>5, <1>6 DEF IsStream
  <1> QED BY <1>7

LEMMA StreamFold ==
  ASSUME NEW blocks, Len(blocks) \in Nat
  PROVE  \E F : /\ F[0] = Opened
                /\ \A n \in 1..Len(blocks) : F[n] = Read(F[n - 1], BlockEvents(n, blocks[n]))
                /\ Stream(blocks) = F[Len(blocks)]
  <1> DEFINE C == CHOOSE F : IsStream(F, blocks)
  <1>1. IsStream(C, blocks)
    BY StreamDefined
  <1>2. Stream(blocks) = C[Len(blocks)]
    BY DEF Stream, IsStream
  <1> HIDE DEF C
  <1>3. C[0] = Opened /\ \A n \in 1..Len(blocks) : C[n] = Read(C[n - 1], BlockEvents(n, blocks[n]))
    BY <1>1 DEF IsStream
  <1> QED BY <1>2, <1>3

(* The positions of some types among the blocks, one block at a time.      *)
LEMMA PositionsUp ==
  ASSUME NEW blocks \in Seq(BlockTypes), NEW types
  PROVE  \E F : /\ F[0] = <<>>
                /\ \A n \in 1..Len(blocks) :
                     F[n] = IF blocks[n] \in types THEN Append(F[n - 1], n) ELSE F[n - 1]
                /\ PositionsOf(blocks, types) = F[Len(blocks)]
  <1> Len(blocks) \in Nat /\ DOMAIN blocks = 1..Len(blocks)
    OBVIOUS
  <1> DEFINE ids == [i \in DOMAIN blocks |-> i]
             I == {i \in DOMAIN blocks : blocks[i] \in types}
  <1>1. ids \in Seq(Nat)
    OBVIOUS
  <1>2. Len(ids) = Len(blocks) /\ \A n \in 1..Len(blocks) : ids[n] = n /\ (n \in I <=> blocks[n] \in types)
    OBVIOUS
  <1>3. PositionsOf(blocks, types) = Kept(ids, I)
    BY DEF PositionsOf
  <1> HIDE DEF ids, I
  <1>4. PICK F : /\ F[0] = <<>>
                 /\ \A n \in 1..Len(ids) :
                      F[n] = IF n \in I THEN Append(F[n - 1], ids[n]) ELSE F[n - 1]
                 /\ Kept(ids, I) = F[Len(ids)]
    BY <1>1, KeptUp
  <1>5. \A n \in 1..Len(blocks) :
          F[n] = IF blocks[n] \in types THEN Append(F[n - 1], n) ELSE F[n - 1]
    BY <1>2, <1>4
  <1>6. F[0] = <<>> /\ PositionsOf(blocks, types) = F[Len(blocks)]
    BY <1>2, <1>3, <1>4
  <1> QED BY <1>5, <1>6

(* The calls of the blocks at the positions p, and those with arguments.   *)
CallsAt(blocks, p) == [i \in DOMAIN p |-> Call(p[i], Input(blocks[p[i]]))]
Argued(calls) == Kept(calls, {i \in DOMAIN calls : calls[i].input # "{}"})

LEMMA CallsAppended ==
  ASSUME NEW blocks, NEW n \in Nat \ {0}, NEW p \in Seq(1..(n - 1))
  PROVE  /\ Append(p, n) \in Seq(1..n)
         /\ CallsAt(blocks, Append(p, n)) = Append(CallsAt(blocks, p), Call(n, Input(blocks[n])))
  <1> DEFINE q == Append(p, n)
             c == CallsAt(blocks, p)
             x == Call(n, Input(blocks[n]))
             S == {Call(i, Input(blocks[i])) : i \in 1..n}
  <1> Len(p) \in Nat /\ DOMAIN p = 1..Len(p)
    OBVIOUS
  <1>1. p \in Seq(1..n) /\ n \in 1..n
    <2>1. 1..(n - 1) \subseteq 1..n
      OBVIOUS
    <2> QED BY <2>1, SeqMonotonic
  <1>2. /\ q \in Seq(1..n) /\ Len(q) = Len(p) + 1 /\ q[Len(p) + 1] = n
        /\ \A i \in 1..Len(p) : q[i] = p[i]
    BY <1>1, AppendProperties
  <1>3. c \in Seq(S) /\ Len(c) = Len(p) /\ x \in S /\ DOMAIN c = DOMAIN p
    <2>1. ASSUME NEW i \in 1..Len(p) PROVE Call(p[i], Input(blocks[p[i]])) \in S
      <3>1. p[i] \in 1..n
        BY <1>1
      <3> QED BY <3>1
    <2>2. x \in S
      OBVIOUS
    <2>3. c = [i \in 1..Len(p) |-> Call(p[i], Input(blocks[p[i]]))]
      BY DEF CallsAt
    <2> HIDE DEF c, x, S
    <2> QED BY <2>1, <2>2, <2>3
  <1>4. /\ Append(c, x) \in Seq(S) /\ Len(Append(c, x)) = Len(c) + 1
        /\ Append(c, x)[Len(c) + 1] = x /\ \A i \in 1..Len(c) : Append(c, x)[i] = c[i]
    <2> HIDE DEF c, x, S
    <2> QED BY <1>3, AppendProperties
  <1>5. DOMAIN q = 1..(Len(p) + 1) /\ DOMAIN Append(c, x) = 1..(Len(p) + 1)
    BY <1>2, <1>3, <1>4
  <1>6. ASSUME NEW i \in 1..(Len(p) + 1)
        PROVE  Append(c, x)[i] = Call(q[i], Input(blocks[q[i]]))
    <2>1. CASE i = Len(p) + 1
      <3>1. Append(c, x)[i] = x /\ q[i] = n
        BY ONLY <1>2, <1>3, <1>4, <2>1
      <3> QED BY ONLY <3>1 DEF x
    <2>2. CASE i # Len(p) + 1
      <3>1. i \in 1..Len(p)
        BY <2>2, SMTT(30)
      <3>2. q[i] = p[i] /\ Append(c, x)[i] = c[i]
        BY ONLY <1>2, <1>3, <1>4, <3>1
      <3>3. c[i] = Call(p[i], Input(blocks[p[i]]))
        BY <3>1 DEF CallsAt
      <3> QED BY <3>2, <3>3
    <2> QED BY <2>1, <2>2
  <1>7. Append(c, x) = [i \in 1..(Len(p) + 1) |-> Append(c, x)[i]]
    BY <1>4, <1>5
  <1>8. Append(c, x) = CallsAt(blocks, q)
    <2> HIDE DEF c, x, q
    <2> QED BY <1>5, <1>6, <1>7 DEF CallsAt
  <1> QED BY <1>2, <1>8

LEMMA ArguedAppended ==
  ASSUME NEW S, NEW c \in Seq(S), NEW x \in S
  PROVE  Argued(Append(c, x)) = IF x.input # "{}" THEN Append(Argued(c), x) ELSE Argued(c)
  <1> DEFINE d == Append(c, x)
             I == {i \in DOMAIN c : c[i].input # "{}"}
             J == {i \in DOMAIN d : d[i].input # "{}"}
  <1>1. /\ Len(c) \in Nat /\ DOMAIN c = 1..Len(c) /\ d \in Seq(S) /\ Len(d) = Len(c) + 1
        /\ d[Len(c) + 1] = x /\ \A i \in 1..Len(c) : d[i] = c[i]
    BY AppendProperties
  <1>2. DOMAIN d = 1..(Len(c) + 1)
    BY <1>1
  <1> HIDE DEF d
  <1>3. Len(c) + 1 \in J <=> x.input # "{}"
    <2>1. Len(c) + 1 \in DOMAIN d
      BY <1>1, <1>2
    <2> QED BY <1>1, <2>1, Zenon
  <1>4. \A i \in 1..Len(c) : i \in J <=> i \in I
    <2>1. ASSUME NEW i \in 1..Len(c) PROVE i \in DOMAIN d /\ i \in DOMAIN c /\ d[i] = c[i]
      BY <1>1, <1>2
    <2> QED BY <2>1, Zenon
  <1> HIDE DEF I, J
  <1>5. Kept(Append(c, x), J) = IF Len(c) + 1 \in J THEN Append(Kept(c, I), x) ELSE Kept(c, I)
    BY <1>4, KeptAppend
  <1>6. Argued(c) = Kept(c, I) /\ Argued(d) = Kept(d, J)
    BY DEF Argued, I, J
  <1> QED BY <1>3, <1>5, <1>6 DEF d

(* One more block: what the stream has of it is what it has as a whole,    *)
(* but for a call without arguments.                                       *)
(* The signature is that of the last signed block: with one thinking block *)
(* at most, it is that block's.                                            *)
SignedIn(blocks, g, q) ==
  Len(q) <= 1 => g = IF q # <<>> /\ blocks[q[1]] = "thinking" THEN q ELSE <<>>

LEMMA SignedThen ==
  ASSUME NEW blocks, NEW n \in Nat \ {0}, NEW q \in Seq(1..(n - 1)), NEW g, SignedIn(blocks, g, q)
  PROVE  /\ blocks[n] = "thinking" => SignedIn(blocks, <<n>>, Append(q, n))
         /\ blocks[n] = "unsigned" => SignedIn(blocks, g, Append(q, n))
  <1> DEFINE r == Append(q, n)
             none == <<>>
  <1>1. Len(q) \in Nat /\ (Len(q) = 0 => q = <<>>)
    BY EmptySeq
  <1>2. Len(r) = Len(q) + 1 /\ r[Len(q) + 1] = n
    <2>1. q \in Seq(Nat) /\ n \in Nat
      BY SeqMonotonic, 1..(n - 1) \subseteq Nat
    <2> QED BY ONLY <2>1, Appended
  <1>3. ASSUME Len(r) <= 1 PROVE q = <<>> /\ r = <<n>> /\ r # <<>> /\ r[1] = n
    <2> HIDE DEF r
    <2>1. Len(q) = 0
      BY ONLY <1>1, <1>2, <1>3
    <2>2. q = <<>> /\ r[1] = n
      BY <1>1, <1>2, <2>1
    <2>3. r = <<n>>
      BY <2>2 DEF r
    <2> QED BY <2>2, <2>3
  <1>4. q = none => g = none
    <2>1. Len(none) <= 1
      OBVIOUS
    <2> HIDE DEF none
    <2> QED BY <2>1 DEF SignedIn, none
  <1> HIDE DEF r, none
  <1>5. blocks[n] = "thinking" => SignedIn(blocks, <<n>>, r)
    BY <1>3 DEF SignedIn
  <1>6. blocks[n] = "unsigned" => SignedIn(blocks, g, r)
    BY <1>3, <1>4 DEF SignedIn, none
  <1> QED BY <1>5, <1>6 DEF r

LEMMA BlockRead ==
  ASSUME NEW blocks \in Seq(BlockTypes), NEW n \in 1..Len(blocks), NEW st,
         NEW t \in Seq(1..(n - 1)), NEW q \in Seq(1..(n - 1)), NEW p \in Seq(1..(n - 1)),
         NEW g, SignedIn(blocks, g, q), Between(st, t, q, g, Argued(CallsAt(blocks, p)))
  PROVE  LET t2 == IF blocks[n] \in {"text"} THEN Append(t, n) ELSE t
             q2 == IF blocks[n] \in Thoughts THEN Append(q, n) ELSE q
             p2 == IF blocks[n] \in Calls THEN Append(p, n) ELSE p
         IN /\ t2 \in Seq(1..n) /\ q2 \in Seq(1..n) /\ p2 \in Seq(1..n)
            /\ \E g2 : /\ SignedIn(blocks, g2, q2)
                       /\ Between(Read(st, BlockEvents(n, blocks[n])), t2, q2, g2, Argued(CallsAt(blocks, p2)))
  <1> DEFINE c == CallsAt(blocks, p)
             x == Call(n, Input(blocks[n]))
             S == {Call(i, Input(blocks[i])) : i \in 1..n}
  <1> n \in Nat \ {0} /\ Len(blocks) \in Nat /\ n \in 1..n
    OBVIOUS
  <1>1. /\ t \in Seq(1..n) /\ q \in Seq(1..n) /\ p \in Seq(1..n)
        /\ Append(t, n) \in Seq(1..n) /\ Append(q, n) \in Seq(1..n) /\ Append(p, n) \in Seq(1..n)
    <2>1. 1..(n - 1) \subseteq 1..n
      OBVIOUS
    <2>2. t \in Seq(1..n) /\ q \in Seq(1..n) /\ p \in Seq(1..n)
      BY <2>1, SeqMonotonic
    <2> QED BY <2>2, Appended
  <1>2. CASE blocks[n] = "text"
    <2>1. blocks[n] \in {"text"} /\ blocks[n] \notin Thoughts /\ blocks[n] \notin Calls
      BY <1>2 DEF Calls, Thoughts
    <2>2. Between(Read(st, BlockEvents(n, "text")), Append(t, n), q, g, Argued(c))
      BY TextRead
    <2> HIDE DEF c
    <2> QED BY ONLY <1>1, <1>2, <2>1, <2>2, SignedIn(blocks, g, q) DEF c
  <1>3. CASE blocks[n] \in {"thinking", "unsigned"}
    <2>1. blocks[n] \notin {"text"} /\ blocks[n] \in Thoughts /\ blocks[n] \notin Calls
      BY <1>3 DEF Calls, Thoughts
    <2>2. /\ Between(Read(st, BlockEvents(n, "thinking")), t, Append(q, n), <<n>>, Argued(c))
          /\ Between(Read(st, BlockEvents(n, "unsigned")), t, Append(q, n), g, Argued(c))
      BY ThinkingRead
    <2>3. /\ blocks[n] = "thinking" => SignedIn(blocks, <<n>>, Append(q, n))
          /\ blocks[n] = "unsigned" => SignedIn(blocks, g, Append(q, n))
      BY SignedThen
    <2>4. \E g2 : /\ SignedIn(blocks, g2, Append(q, n))
                  /\ Between(Read(st, BlockEvents(n, blocks[n])), t, Append(q, n), g2, Argued(c))
      <3> HIDE DEF c
      <3>1. CASE blocks[n] = "thinking"
        BY ONLY <2>2, <2>3, <3>1
      <3>2. CASE blocks[n] = "unsigned"
        BY ONLY <2>2, <2>3, <3>2
      <3> QED BY <1>3, <3>1, <3>2
    <2> QED BY ONLY <1>1, <2>1, <2>4
  <1>4. /\ CallsAt(blocks, Append(p, n)) = Append(c, x)
        /\ Argued(Append(c, x)) = IF x.input # "{}" THEN Append(Argued(c), x) ELSE Argued(c)
        /\ x.input = Input(blocks[n])
    <2>1. CallsAt(blocks, Append(p, n)) = Append(c, x)
      BY CallsAppended
    <2>2. c \in Seq(S) /\ x \in S
      <3>1. ASSUME NEW i \in 1..Len(p) PROVE Call(p[i], Input(blocks[p[i]])) \in S
        <4>1. p[i] \in 1..n
          BY <1>1
        <4> QED BY <4>1
      <3>2. x \in S
        OBVIOUS
      <3>3. c = [i \in 1..Len(p) |-> Call(p[i], Input(blocks[p[i]]))] /\ Len(p) \in Nat
        BY <1>1 DEF CallsAt
      <3> HIDE DEF c, x, S
      <3> QED BY <3>1, <3>2, <3>3, SMTT(30)
    <2>3. x.input = Input(blocks[n])
      BY DEF Call
    <2> HIDE DEF c, x, S
    <2> QED BY <2>1, <2>2, <2>3, ArguedAppended
  <1>5. CASE blocks[n] = "call"
    <2>1. blocks[n] \notin {"text"} /\ blocks[n] \notin Thoughts /\ blocks[n] \in Calls
      BY <1>5 DEF Calls, Thoughts
    <2>2. x = Call(n, "arguments") /\ Input(blocks[n]) # "{}"
      BY <1>5 DEF Input
    <2>3. Between(Read(st, BlockEvents(n, "call")), t, q, g, Append(Argued(c), Call(n, "arguments")))
      BY CallRead
    <2>4. Argued(CallsAt(blocks, Append(p, n))) = Append(Argued(c), Call(n, "arguments"))
      BY <1>4, <2>2
    <2> QED BY ONLY <1>1, <1>5, <2>1, <2>3, <2>4, SignedIn(blocks, g, q)
  <1>6. CASE blocks[n] = "bare"
    <2>1. blocks[n] \notin {"text"} /\ blocks[n] \notin Thoughts /\ blocks[n] \in Calls
      BY <1>6 DEF Calls, Thoughts
    <2>2. Input(blocks[n]) = "{}"
      BY <1>6 DEF Input
    <2>3. Between(Read(st, BlockEvents(n, "bare")), t, q, g, Argued(c))
      BY BareRead
    <2>4. Argued(CallsAt(blocks, Append(p, n))) = Argued(c)
      BY <1>4, <2>2
    <2> QED BY ONLY <1>1, <1>6, <2>1, <2>3, <2>4, SignedIn(blocks, g, q)
  <1>7. blocks[n] \in {"text", "thinking", "unsigned", "call", "bare"}
    BY DEF BlockTypes
  <1> QED BY <1>2, <1>3, <1>5, <1>6, <1>7

LEMMA NothingAt ==
  ASSUME NEW blocks
  PROVE  CallsAt(blocks, <<>>) = <<>> /\ Argued(<<>>) = <<>>
  <1>1. CallsAt(blocks, <<>>) = <<>>
    BY DEF CallsAt
  <1>2. Argued(<<>>) = <<>>
    BY KeptNothing DEF Argued
  <1> QED BY <1>1, <1>2

LEMMA StreamUp ==
  ASSUME NEW blocks \in Seq(BlockTypes)
  PROVE  LET calls == CallsAt(blocks, PositionsOf(blocks, Calls)) IN
         /\ PositionsOf(blocks, {"text"}) \in Seq(1..Len(blocks))
         /\ PositionsOf(blocks, Thoughts) \in Seq(1..Len(blocks))
         /\ PositionsOf(blocks, Calls) \in Seq(1..Len(blocks))
         /\ \E g : /\ SignedIn(blocks, g, PositionsOf(blocks, Thoughts))
                   /\ Between(Stream(blocks), PositionsOf(blocks, {"text"}), PositionsOf(blocks, Thoughts),
                              g, Argued(calls))
  <1> Len(blocks) \in Nat /\ Len(blocks) \in 0..Len(blocks)
    OBVIOUS
  <1>1. PICK F : /\ F[0] = Opened
                 /\ \A n \in 1..Len(blocks) : F[n] = Read(F[n - 1], BlockEvents(n, blocks[n]))
                 /\ Stream(blocks) = F[Len(blocks)]
    BY ONLY blocks \in Seq(BlockTypes), StreamFold
  <1>2. PICK T : /\ T[0] = <<>>
                 /\ \A n \in 1..Len(blocks) :
                      T[n] = IF blocks[n] \in {"text"} THEN Append(T[n - 1], n) ELSE T[n - 1]
                 /\ PositionsOf(blocks, {"text"}) = T[Len(blocks)]
    BY ONLY blocks \in Seq(BlockTypes), PositionsUp
  <1>3. PICK Q : /\ Q[0] = <<>>
                 /\ \A n \in 1..Len(blocks) :
                      Q[n] = IF blocks[n] \in Thoughts THEN Append(Q[n - 1], n) ELSE Q[n - 1]
                 /\ PositionsOf(blocks, Thoughts) = Q[Len(blocks)]
    BY ONLY blocks \in Seq(BlockTypes), PositionsUp
  <1>4. PICK P : /\ P[0] = <<>>
                 /\ \A n \in 1..Len(blocks) :
                      P[n] = IF blocks[n] \in Calls THEN Append(P[n - 1], n) ELSE P[n - 1]
                 /\ PositionsOf(blocks, Calls) = P[Len(blocks)]
    BY ONLY blocks \in Seq(BlockTypes), PositionsUp
  <1> DEFINE Good(n) == /\ T[n] \in Seq(1..n) /\ Q[n] \in Seq(1..n) /\ P[n] \in Seq(1..n)
                        /\ \E g : /\ SignedIn(blocks, g, Q[n])
                                  /\ Between(F[n], T[n], Q[n], g, Argued(CallsAt(blocks, P[n])))
             G == {n \in 0..Len(blocks) : Good(n)}
  <1>5. Good(0)
    <2>1. Between(Opened, <<>>, <<>>, <<>>, <<>>) /\ SignedIn(blocks, <<>>, <<>>)
      <3>1. Opened = State(<<>>, <<>>, <<>>, <<>>, <<>>)
        BY Zenon DEF Opened, State, Final, Shown, Thought
      <3>2. DOMAIN <<>> = {}
        OBVIOUS
      <3>3. SignedIn(blocks, <<>>, <<>>)
        BY DEF SignedIn
      <3> QED BY ONLY <3>1, <3>2, <3>3, Zenon DEF Between
    <2>2. <<>> \in Seq(1..0)
      BY EmptySeq
    <2> QED BY <1>1, <1>2, <1>3, <1>4, <2>1, <2>2, NothingAt
  <1>6. ASSUME NEW n \in 0..(Len(blocks) - 1), Good(n) PROVE Good(n + 1)
    <2> DEFINE m == n + 1
    <2>1. m \in 1..Len(blocks) /\ m - 1 = n
      OBVIOUS
    <2> HIDE DEF m
    <2>2. /\ T[m - 1] \in Seq(1..(m - 1)) /\ Q[m - 1] \in Seq(1..(m - 1)) /\ P[m - 1] \in Seq(1..(m - 1))
          /\ \E g : /\ SignedIn(blocks, g, Q[m - 1])
                    /\ Between(F[m - 1], T[m - 1], Q[m - 1], g, Argued(CallsAt(blocks, P[m - 1])))
      BY <1>6, <2>1
    <2>3. /\ F[m] = Read(F[m - 1], BlockEvents(m, blocks[m]))
          /\ T[m] = IF blocks[m] \in {"text"} THEN Append(T[m - 1], m) ELSE T[m - 1]
          /\ Q[m] = IF blocks[m] \in Thoughts THEN Append(Q[m - 1], m) ELSE Q[m - 1]
          /\ P[m] = IF blocks[m] \in Calls THEN Append(P[m - 1], m) ELSE P[m - 1]
      BY <1>1, <1>2, <1>3, <1>4, <2>1
    <2> HIDE DEF Good
    <2>4. Good(m)
      BY ONLY <2>1, <2>2, <2>3, BlockRead, blocks \in Seq(BlockTypes) DEF Good
    <2> QED BY <2>4 DEF m
  <1>7. Good(Len(blocks))
    <2> HIDE DEF Good
    <2>1. 0 \in G /\ \A n \in 0..(Len(blocks) - 1) : n \in G => n + 1 \in G
      BY <1>5, <1>6
    <2>2. 0..Len(blocks) \subseteq G
      <3> HIDE DEF G
      <3> QED BY <2>1, CountUp
    <2> QED BY <2>2
  <1> QED BY <1>1, <1>2, <1>3, <1>4, <1>7

LEMMA LastOfAll ==
  ASSUME NEW m \in Nat, NEW s \in Seq(1..m)
  PROVE  (Len(s) <= 1 => s = LastOf(s)) /\ (s # <<>> <=> LastOf(s) # <<>>)
  <1> Len(s) \in Nat
    OBVIOUS
  <1>1. CASE s = <<>>
    BY <1>1 DEF LastOf
  <1>2. CASE s # <<>>
    <2>1. LastOf(s) = <<s[Len(s)]>>
      BY <1>2 DEF LastOf, Last
    <2>2. <<s[Len(s)]>> # <<>>
      OBVIOUS
    <2>3. ASSUME Len(s) <= 1 PROVE s = <<s[1]>> /\ Len(s) = 1
      <3>1. Len(s) # 0
        BY <1>2, EmptySeq
      <3>2. Len(s) = 1
        <4> DEFINE k == Len(s)
        <4>1. k \in Nat /\ k <= 1 /\ k # 0
          BY <2>3, <3>1
        <4> HIDE DEF k
        <4>2. k = 1
          BY <4>1
        <4> QED BY <4>2 DEF k
      <3> QED BY <3>2
    <2> QED BY <1>2, <2>1, <2>2, <2>3
  <1> QED BY <1>1, <1>2

(* The two responses, field by field.                                      *)
LEMMA AnswerFields ==
  ASSUME NEW blocks \in Seq(BlockTypes)
  PROVE  LET t == PositionsOf(blocks, {"text"})
             q == PositionsOf(blocks, Thoughts)
             calls == CallsAt(blocks, PositionsOf(blocks, Calls))
             whole == Whole(blocks)
             stream == Stream(blocks)
             final == Streamed(blocks)
         IN
         /\ t \in Seq(1..Len(blocks)) /\ q \in Seq(1..Len(blocks))
         /\ stream.final = final /\ DOMAIN stream.buffer = {} /\ stream.shown = Shown(t, q, Argued(calls))
         /\ final.text = t /\ final.reasoning = q /\ final.calls = Argued(calls)
         /\ final.thought = TRUE /\ SignedIn(blocks, final.signature, q)
         /\ whole.text = LastOf(t) /\ whole.reasoning = LastOf(q) /\ whole.calls = calls
         /\ whole.thought = (LastOf(q) # <<>>)
         /\ whole.signature =
              IF LastOf(q) # <<>> /\ blocks[LastOf(q)[1]] = "thinking" THEN LastOf(q) ELSE <<>>
  <1> DEFINE t == PositionsOf(blocks, {"text"})
             q == PositionsOf(blocks, Thoughts)
             calls == CallsAt(blocks, PositionsOf(blocks, Calls))
             whole == Whole(blocks)
             stream == Stream(blocks)
             final == Streamed(blocks)
             thought == LastOf(q) # <<>>
             signature == IF LastOf(q) # <<>> /\ blocks[LastOf(q)[1]] = "thinking" THEN LastOf(q) ELSE <<>>
  <1>1. /\ t \in Seq(1..Len(blocks)) /\ q \in Seq(1..Len(blocks))
        /\ \E g : SignedIn(blocks, g, q) /\ Between(stream, t, q, g, Argued(calls))
    BY StreamUp
  <1>2. PICK g, b : SignedIn(blocks, g, q) /\ DOMAIN b = {} /\ stream = State(b, t, q, g, Argued(calls))
    BY <1>1 DEF Between
  <1>3. whole = [text |-> LastOf(t), reasoning |-> LastOf(q), thought |-> thought,
                 signature |-> signature, calls |-> calls]
    BY Zenon DEF Whole, CallsAt, Response
  <1>4. final = stream.final
    BY DEF Streamed
  <1> HIDE DEF t, q, calls, whole, stream, final, thought, signature
  <1>5. /\ whole.text = LastOf(t) /\ whole.reasoning = LastOf(q) /\ whole.calls = calls
        /\ whole.signature = signature
    BY <1>3
  <1>6. whole.thought = thought
    BY <1>3
  <1>7. final = Final(t, q, g, Argued(calls))
    BY <1>2, <1>4 DEF State
  <1>8. /\ final.text = t /\ final.reasoning = q /\ final.calls = Argued(calls)
        /\ final.signature = g
    BY <1>7 DEF Final, Response
  <1>9. final.thought = TRUE
    BY <1>7 DEF Final, Response, Thought
  <1>10. DOMAIN stream.buffer = {} /\ stream.shown = Shown(t, q, Argued(calls))
    BY <1>2 DEF State
  <1> QED BY <1>1, <1>2, <1>4, <1>5, <1>6, <1>8, <1>9, <1>10
      DEF t, q, calls, whole, stream, final, thought, signature

LEMMA AnswerAgrees ==
  ASSUME NEW blocks \in Seq(BlockTypes)
  PROVE  Agrees(blocks) /\ RecordedAlike(blocks)
  <1> DEFINE t == PositionsOf(blocks, {"text"})
             q == PositionsOf(blocks, Thoughts)
             calls == CallsAt(blocks, PositionsOf(blocks, Calls))
             whole == Whole(blocks)
             stream == Stream(blocks)
             final == Streamed(blocks)
  <1> Len(blocks) \in Nat
    OBVIOUS
  <1>1. /\ t \in Seq(1..Len(blocks)) /\ q \in Seq(1..Len(blocks))
        /\ stream.final = final /\ DOMAIN stream.buffer = {} /\ stream.shown = Shown(t, q, Argued(calls))
        /\ final.text = t /\ final.reasoning = q /\ final.calls = Argued(calls)
        /\ final.thought = TRUE /\ SignedIn(blocks, final.signature, q)
        /\ whole.text = LastOf(t) /\ whole.reasoning = LastOf(q) /\ whole.calls = calls
        /\ whole.thought = (LastOf(q) # <<>>)
        /\ whole.signature =
             IF LastOf(q) # <<>> /\ blocks[LastOf(q)[1]] = "thinking" THEN LastOf(q) ELSE <<>>
    BY AnswerFields
  <1>2. /\ Len(t) <= 1 => t = LastOf(t)
        /\ t # <<>> <=> LastOf(t) # <<>>
        /\ Len(q) <= 1 => q = LastOf(q)
        /\ q # <<>> <=> LastOf(q) # <<>>
    <2> HIDE DEF t, q
    <2> QED BY <1>1, LastOfAll
  <1>3. Argued(calls) # <<>> => calls # <<>>
    BY NothingAt
  <1> HIDE DEF t, q, calls, whole, stream, final
  <1>4. Len(q) <= 1 => final.signature = whole.signature
    BY <1>1, <1>2 DEF SignedIn
  <1>5. \A part \in DOMAIN stream.shown : stream.shown[part] = final[part]
    <2> DEFINE a == Argued(calls)
    <2>1. stream.shown = [text |-> t, reasoning |-> q, calls |-> a]
      BY <1>1 DEF Shown
    <2> HIDE DEF a
    <2>2. DOMAIN stream.shown = {"text", "reasoning", "calls"}
      BY <2>1
    <2>3. stream.shown.text = t /\ stream.shown.reasoning = q /\ stream.shown.calls = a
      BY <2>1
    <2> QED BY <1>1, <2>2, <2>3 DEF a
  <1>6. Agrees(blocks)
    <2>1. Usable(final) => Usable(whole)
      BY <1>1, <1>2, <1>3 DEF Usable
    <2>2. final.calls = Kept(whole.calls, {i \in DOMAIN whole.calls : whole.calls[i].input # "{}"})
      BY <1>1 DEF Argued
    <2>3. /\ Len(final.text) <= 1 => final.text = whole.text
          /\ Len(final.reasoning) <= 1 =>
               final.reasoning = whole.reasoning /\ final.signature = whole.signature
      BY <1>1, <1>2, <1>4
    <2> QED BY <1>1, <1>5, <2>1, <2>2, <2>3 DEF Agrees, whole, stream
  <1>7. ASSUME Len(q) <= 1
        PROVE  RecordedParts(final) = RecordedParts(whole) \cup (IF whole.thought THEN {} ELSE {"thought"})
    <2>1. q = <<>> => whole.thought = FALSE /\ whole.signature = <<>> /\ whole.reasoning = <<>> /\ final.reasoning = <<>>
      BY <1>1, <1>2
    <2>2. q # <<>> => whole.thought = TRUE /\ whole.reasoning # <<>> /\ final.reasoning # <<>>
      BY <1>1, <1>2
    <2>3. final.text # <<>> <=> whole.text # <<>>
      BY <1>1, <1>2
    <2>4. CASE q = <<>>
      <3>1. RecordedParts(final) = {"thought"} \cup (IF final.text # <<>> THEN {"text"} ELSE {})
        BY ONLY <1>1, <2>1, <2>4 DEF RecordedParts
      <3>2. RecordedParts(whole) = {} \cup (IF whole.text # <<>> THEN {"text"} ELSE {})
        BY ONLY <2>1, <2>4 DEF RecordedParts
      <3> QED BY ONLY <2>1, <2>3, <2>4, <3>1, <3>2
    <2>5. CASE q # <<>>
      BY ONLY <1>1, <1>4, <1>7, <2>2, <2>3, <2>5 DEF RecordedParts
    <2> QED BY <2>4, <2>5
  <1>8. RecordedAlike(blocks)
    BY <1>1, <1>7 DEF RecordedAlike, whole, final
  <1> QED BY <1>6, <1>8

(***************************************************************************)
(* Any completion, of any number of blocks in any order, gives the same    *)
(* response streamed and whole, but for the calls without arguments        *)
(* (_query and _query_stream), and is recorded with the same content, but  *)
(* for the empty ThinkPart of a stream without thinking                    *)
(* (anthropic_source.py:545, tool_loop_agent_runner.py:871):               *)
(* StreamedAsWhole for every bound.                                        *)
(***************************************************************************)
THEOREM AnswersAgree == Spec => []StreamedAsWhole
  <1>1. ASSUME NEW blocks \in Completions PROVE blocks \in Seq(BlockTypes)
    <2>1. PICK n \in 0..MaxBlocks : blocks \in [1..n -> BlockTypes]
      BY DEF Completions
    <2>2. n \in Nat
      BY ContextManagerAssumption DEF ContextManagerAssumption
    <2> QED BY <2>1, <2>2, SeqDef
  <1>2. StreamedAsWhole
    BY <1>1, AnswerAgrees DEF StreamedAsWhole, AllAgree
  <1> QED BY <1>2, PTL

=============================================================================
