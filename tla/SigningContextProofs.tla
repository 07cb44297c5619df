------------------------ MODULE SigningContextProofs ------------------------
(***************************************************************************)
(* What SigningContext.tla guarantees for any number of threads, and for   *)
(* command lines of any length made of any arguments.                      *)
(*                                                                         *)
(* One thread at most is capturing, and nobody has a context before it is  *)
(* complete (OnceInv).  The tests which the loop makes on an argument      *)
(* amount to the forms a credential comes in (SecretFlagIs, AssignmentIs,  *)
(* ColonFormIs), and redactValue remembers just whether the argument       *)
(* before was a credential flag (RedactInv).  Truncation is a fact about   *)
(* sequences (TruncateIs).                                                 *)
(***************************************************************************)
EXTENDS SigningContext, TLAPS, SequenceTheorems, WellFoundedInduction, NaturalsInduction

-----------------------------------------------------------------------------
(* First and last positions *)

LEMMA LeastNat == ASSUME NEW T \in SUBSET Nat, T # {} PROVE \E x \in T : \A y \in T : x <= y
<1> DEFINE R == {ss \in Nat \X Nat : ss[1] < ss[2]}
<1>1. IsWellFoundedOn(R, Nat)  BY NatLessThanWellFounded, Zenon DEF OpToRel
<1>2. \A x, y \in Nat : x < y => <<x, y>> \in R
  OBVIOUS
<1>. HIDE DEF R
<1>3. \E x \in T : \A y \in T : ~ (<<y, x>> \in R)
  BY <1>1, WFMin
<1>4. PICK x \in T : \A y \in T : ~ (<<y, x>> \in R)  BY <1>3
<1>5. ASSUME NEW y \in T PROVE x <= y
  <2>1. x \in Nat /\ y \in Nat  OBVIOUS
  <2>2. ~ (y < x)  BY <1>2, <1>4, <2>1
  <2>. QED  BY <2>1, <2>2
<1>. QED  BY <1>5

LEMMA GreatestNat ==
    ASSUME NEW n \in Nat, NEW T \in SUBSET (0 .. n), T # {}
    PROVE  \E x \in T : \A y \in T : x >= y
<1> DEFINE D == {n - i : i \in T}
<1>0. \A i \in T : i \in Nat /\ n - i \in Nat  OBVIOUS
<1>1. D \subseteq Nat /\ D # {}  BY <1>0
<1>2. \A i \in T : n - i \in D  OBVIOUS
<1>3. \A d \in D : \E i \in T : d = n - i  OBVIOUS
<1>. HIDE DEF D
<1>4. PICK d \in D : \A e \in D : d <= e  BY <1>1, LeastNat
<1>5. PICK x \in T : d = n - x  BY <1>3
<1>6. \A y \in T : n - x <= n - y  BY <1>2, <1>4, <1>5
<1>. QED  BY <1>0, <1>6

\* What SelectInSeq and SelectLastInSeq compute from the positions I that match.
LEMMA FirstOf ==
    ASSUME NEW n \in Nat, NEW I \in SUBSET (1 .. n), NEW k, k = IF I # {} THEN Min(I) ELSE 0
    PROVE  \/ I = {} /\ k = 0
           \/ k \in I /\ \A j \in 1 .. k - 1 : j \notin I
<1>1. CASE I # {}
  <2>1. \E x \in I : \A y \in I : x <= y  BY <1>1, LeastNat
  <2>2. Min(I) \in I /\ \A y \in I : Min(I) <= y  BY <2>1, Zenon DEF Min
  <2>3. k = Min(I)  BY <1>1
  <2>4. \A y \in I : y \in Nat  OBVIOUS
  <2>5. k \in I /\ k \in Nat  BY <2>2, <2>3, <2>4
  <2>6. ASSUME NEW j \in 1 .. k - 1 PROVE j \notin I
    <3>1. j \in Int /\ j < k  BY <2>5
    <3>2. j \in I => k <= j  BY <2>2, <2>3
    <3>. QED  BY <2>5, <3>1, <3>2
  <2>. QED  BY <2>5, <2>6
<1>. QED  BY <1>1

LEMMA LastOf ==
    ASSUME NEW n \in Nat, NEW I \in SUBSET (1 .. n), NEW k, k = IF I # {} THEN Max(I) ELSE 0
    PROVE  \/ I = {} /\ k = 0
           \/ k \in I /\ \A j \in k + 1 .. n : j \notin I
<1>1. CASE I # {}
  <2>0. I \in SUBSET (0 .. n)  OBVIOUS
  <2>1. \E x \in I : \A y \in I : x >= y  BY <1>1, <2>0, GreatestNat
  <2>2. Max(I) \in I /\ \A y \in I : Max(I) >= y  BY <2>1, Zenon DEF Max
  <2>3. k = Max(I)  BY <1>1
  <2>4. \A y \in I : y \in Nat  OBVIOUS
  <2>5. k \in I /\ k \in Nat  BY <2>2, <2>3, <2>4
  <2>6. ASSUME NEW j \in k + 1 .. n PROVE j \notin I
    <3>1. j \in Int /\ j > k  BY <2>5
    <3>2. j \in I => k >= j  BY <2>2, <2>3
    <3>. QED  BY <2>5, <3>1, <3>2
  <2>. QED  BY <2>5, <2>6
<1>. QED  BY <1>1

LEMMA ColonIs ==
    ASSUME NEW arg \in Seq(Lexemes)
    PROVE  \/ Colon(arg) = 0 /\ \A j \in 1 .. Len(arg) : arg[j] # ":"
           \/ /\ Colon(arg) \in 1 .. Len(arg) /\ arg[Colon(arg)] = ":"
              /\ \A j \in 1 .. Colon(arg) - 1 : arg[j] # ":"
<1> DEFINE I == {i \in 1 .. Len(arg) : arg[i] = ":"}
<1>1. Colon(arg) = IF I # {} THEN Min(I) ELSE 0  BY Zenon DEF Colon, SelectInSeq
<1>2. Len(arg) \in Nat /\ I \in SUBSET (1 .. Len(arg))  OBVIOUS
<1>3. \A i \in 1 .. Len(arg) : i \in I <=> arg[i] = ":"  OBVIOUS
<1>. HIDE DEF I
<1>4. \/ I = {} /\ Colon(arg) = 0
      \/ Colon(arg) \in I /\ \A j \in 1 .. Colon(arg) - 1 : j \notin I
  BY <1>1, <1>2, FirstOf
<1>5. CASE I = {} /\ Colon(arg) = 0  BY <1>3, <1>5
<1>6. CASE Colon(arg) \in I /\ \A j \in 1 .. Colon(arg) - 1 : j \notin I
  <2>1. Colon(arg) \in 1 .. Len(arg)  BY <1>2, <1>6
  <2>2. \A j \in 1 .. Colon(arg) - 1 : j \in 1 .. Len(arg)  BY <1>2, <2>1
  <2>. QED  BY <1>3, <1>6, <2>1, <2>2
<1>. QED  BY <1>4, <1>5, <1>6

LEMMA EqualsIs ==
    ASSUME NEW arg \in Seq(Lexemes)
    PROVE  \/ Equals(arg) = 0 /\ ~HasInlineValue(arg)
           \/ /\ HasInlineValue(arg) /\ Equals(arg) \in 1 .. Len(arg) /\ arg[Equals(arg)] = "="
              /\ \A j \in 1 .. Equals(arg) - 1 : arg[j] # "="
<1> DEFINE I == {i \in 1 .. Len(arg) : arg[i] = "="}
<1>1. Equals(arg) = IF I # {} THEN Min(I) ELSE 0  BY Zenon DEF Equals, SelectInSeq
<1>2. Len(arg) \in Nat /\ I \in SUBSET (1 .. Len(arg))  OBVIOUS
<1>3. \A i \in 1 .. Len(arg) : i \in I <=> arg[i] = "="  OBVIOUS
<1>. HIDE DEF I
<1>4. \/ I = {} /\ Equals(arg) = 0
      \/ Equals(arg) \in I /\ \A j \in 1 .. Equals(arg) - 1 : j \notin I
  BY <1>1, <1>2, FirstOf
<1>5. HasInlineValue(arg) <=> \E i \in 1 .. Len(arg) : arg[i] = "="
  BY DEF HasInlineValue, Contains
<1>6. CASE I = {} /\ Equals(arg) = 0  BY <1>3, <1>5, <1>6
<1>7. CASE Equals(arg) \in I /\ \A j \in 1 .. Equals(arg) - 1 : j \notin I
  <2>1. Equals(arg) \in 1 .. Len(arg)  BY <1>2, <1>7
  <2>2. \A j \in 1 .. Equals(arg) - 1 : j \in 1 .. Len(arg)  BY <1>2, <2>1
  <2>. QED  BY <1>3, <1>5, <1>7, <2>1, <2>2
<1>. QED  BY <1>4, <1>6, <1>7

LEMMA SeparatorIs ==
    ASSUME NEW name \in Seq(Lexemes)
    PROVE  LET k == LastSeparator(name) IN
           /\ k \in 0 .. Len(name)
           /\ k # 0 => name[k] \in Separators
           /\ \A j \in k + 1 .. Len(name) : name[j] \notin Separators
<1> DEFINE I == {i \in 1 .. Len(name) : name[i] \in Separators}
<1>1. LastSeparator(name) = IF I # {} THEN Max(I) ELSE 0
  BY Zenon DEF LastSeparator, SelectLastInSeq
<1>2. Len(name) \in Nat /\ I \in SUBSET (1 .. Len(name))  OBVIOUS
<1>3. \A i \in 1 .. Len(name) : i \in I <=> name[i] \in Separators  OBVIOUS
<1>. HIDE DEF I
<1>4. \/ I = {} /\ LastSeparator(name) = 0
      \/ LastSeparator(name) \in I /\ \A j \in LastSeparator(name) + 1 .. Len(name) : j \notin I
  BY <1>1, <1>2, LastOf
<1>5. CASE I = {} /\ LastSeparator(name) = 0  BY <1>2, <1>3, <1>5
<1>6. CASE /\ LastSeparator(name) \in I
           /\ \A j \in LastSeparator(name) + 1 .. Len(name) : j \notin I
  <2>1. LastSeparator(name) \in 1 .. Len(name)  BY <1>2, <1>6
  <2>2. \A j \in LastSeparator(name) + 1 .. Len(name) : j \in 1 .. Len(name)  BY <1>2, <2>1
  <2>. QED  BY <1>2, <1>3, <1>6, <2>1, <2>2
<1>. QED  BY <1>4, <1>5, <1>6

-----------------------------------------------------------------------------
(* Names of flags *)

LEMMA LexemesAre ==
    /\ \A x : CredentialWord(x) => x \notin Marks /\ x \notin Separators /\ x # "=" /\ x # ":"
    /\ \A x \in Separators : x \notin Marks
    /\ \A x \in SecretSuffixes \cup secretCommandFlags : CredentialWord(x)
BY LexemeAssumption DEF Marks, Separators, CredentialWord

LEMMA TailIs ==
    ASSUME NEW s \in Seq(Lexemes), s # <<>>
    PROVE  /\ Tail(s) \in Seq(Lexemes) /\ Len(Tail(s)) = Len(s) - 1 /\ Head(s) = s[1]
           /\ \A i \in 1 .. Len(s) - 1 : Tail(s)[i] = s[i + 1]
OBVIOUS

LEMMA EmptyIs == \A s \in Seq(Lexemes) : Len(s) = 0 => s = <<>>
BY EmptySeq

LEMMA SuffixIs ==
    ASSUME NEW s \in Seq(Lexemes), NEW m \in 1 .. Len(s) + 1
    PROVE  LET u == SubSeq(s, m, Len(s)) IN
           /\ u \in Seq(Lexemes) /\ Len(u) = Len(s) - m + 1
           /\ \A i \in 1 .. Len(s) - m + 1 : u[i] = s[m + i - 1]
<1>1. m \in Int /\ Len(s) \in Int /\ \A i \in m .. Len(s) : s[i] \in Lexemes  OBVIOUS
<1>2. m <= Len(s) \/ Len(s) - m + 1 = 0  BY <1>1
<1>. QED  BY <1>1, <1>2, SubSeqProperties

\* A prefix.
LEMMA PrefixIs ==
    ASSUME NEW s \in Seq(Lexemes), NEW n \in 0 .. Len(s)
    PROVE  /\ SubSeq(s, 1, n) \in Seq(Lexemes) /\ Len(SubSeq(s, 1, n)) = n
           /\ \A i \in 1 .. n : SubSeq(s, 1, n)[i] = s[i]
OBVIOUS

\* A name without an inline value is secret by itself or by its ending.
LEMMA SecretNameIs ==
    ASSUME NEW name \in Seq(Lexemes)
    PROVE  isSecretFlagName(name, FALSE) <=>
              /\ Len(name) > 0
              /\ \/ Len(name) = 1 /\ name[1] \in secretCommandFlags
                 \/ name[Len(name)] \in SecretSuffixes
<1>1. name # <<>> <=> Len(name) > 0  OBVIOUS
<1>. QED  BY <1>1, Zenon DEF isSecretFlagName, IsSecret, hasSecretSuffix, Last

\* The last part of a name.
LEMMA SubKeyIs ==
    ASSUME NEW name \in Seq(Lexemes), Len(name) > 0
    PROVE  /\ IsSecret(subKey(name)) => CredentialWord(name[Len(name)])
           /\ /\ Len(name) > 1 /\ name[Len(name) - 1] \in Separators
              /\ name[Len(name)] \in secretCommandFlags
              => IsSecret(subKey(name))
<1> DEFINE k == LastSeparator(name)
           sub == subKey(name)
<1>1. /\ k \in 0 .. Len(name)
      /\ k # 0 => name[k] \in Separators
      /\ \A j \in k + 1 .. Len(name) : name[j] \notin Separators
  BY SeparatorIs
<1>2. sub = SubSeq(name, k + 1, Len(name))  BY DEF subKey
<1>. HIDE DEF k, sub
<1>3. /\ sub \in Seq(Lexemes) /\ Len(sub) = Len(name) - k /\ Len(name) \in Nat
      /\ \A i \in 1 .. Len(name) - k : sub[i] = name[k + 1 + i - 1]
  <2>1. k + 1 \in 1 .. Len(name) + 1 /\ k \in Nat /\ Len(name) \in Nat  BY <1>1
  <2>2. Len(name) - (k + 1) + 1 = Len(name) - k  BY <2>1
  <2>. QED  BY <1>2, <2>1, <2>2, SuffixIs
<1>4. Len(sub) > 0 => sub[Len(sub)] = name[Len(name)]
  <2>. SUFFICES ASSUME Len(sub) > 0 PROVE sub[Len(sub)] = name[Len(name)]  OBVIOUS
  <2>1. Len(sub) \in 1 .. Len(name) - k  BY <1>1, <1>3
  <2>2. sub[Len(sub)] = name[k + 1 + Len(sub) - 1]  BY <1>3, <2>1
  <2>3. k + 1 + Len(sub) - 1 = Len(name)  BY <1>1, <1>3
  <2>. QED  BY <2>2, <2>3
<1>5. IsSecret(sub) <=> \/ Len(sub) = 1 /\ sub[1] \in secretCommandFlags
                        \/ Len(sub) > 0 /\ sub[Len(sub)] \in SecretSuffixes
  BY <1>3 DEF IsSecret, hasSecretSuffix, Last
<1>6. IsSecret(sub) => CredentialWord(name[Len(name)])
  BY <1>3, <1>4, <1>5 DEF CredentialWord
<1>7. ASSUME Len(name) > 1, name[Len(name) - 1] \in Separators,
             name[Len(name)] \in secretCommandFlags
      PROVE  IsSecret(sub)
  <2>1. name[Len(name)] \notin Separators  BY <1>7, LexemesAre
  <2>2. k = Len(name) - 1
    <3>1. k # Len(name)  BY <1>1, <1>3, <1>7, <2>1
    <3>2. ~(k < Len(name) - 1)
      <4>. SUFFICES ASSUME k < Len(name) - 1 PROVE FALSE  OBVIOUS
      <4>1. Len(name) - 1 \in k + 1 .. Len(name)  BY <1>1, <1>3
      <4>. QED  BY <1>1, <1>7, <4>1
    <3>. QED  BY <1>1, <1>3, <3>1, <3>2
  <2>. QED  BY <1>3, <1>4, <1>5, <1>7, <2>2
<1>. QED  BY <1>6, <1>7 DEF sub

LEMMA InlineNameIs ==
    ASSUME NEW name \in Seq(Lexemes)
    PROVE  isSecretFlagName(name, TRUE) <=>
              /\ Len(name) > 0
              /\ \/ Len(name) = 1 /\ name[1] \in secretCommandFlags
                 \/ name[Len(name)] \in SecretSuffixes
                 \/ IsSecret(subKey(name))
<1>1. name # <<>> <=> Len(name) > 0  OBVIOUS
<1>. QED  BY <1>1, Zenon DEF isSecretFlagName, IsSecret, hasSecretSuffix, Last

LEMMA FlagNameIs ==
    ASSUME NEW token \in Seq(Lexemes)
    PROVE  /\ flagName(token) \in Seq(Lexemes)
           /\ Flag(token) => flagName(token) = Tail(token)
           /\ ~Flag(token) => flagName(token) = <<>>
<1>1. CASE token = <<>>
  <2>1. flagName(token) = <<>> /\ ~Flag(token)  BY <1>1, Zenon DEF flagName, Flag
  <2>. QED  BY <2>1
<1>2. CASE token # <<>>
  <2>1. Tail(token) \in Seq(Lexemes) /\ Head(token) = token[1]  BY <1>2, TailIs
  <2>2. CASE token[1] \in Marks
    <3>1. flagName(token) = Tail(token) /\ Flag(token)
      BY <1>2, <2>1, <2>2, Zenon DEF flagName, Flag
    <3>. QED  BY <2>1, <3>1
  <2>3. CASE token[1] \notin Marks
    <3>1. flagName(token) = <<>> /\ ~Flag(token)
      BY <1>2, <2>1, <2>3, Zenon DEF flagName, Flag
    <3>. QED  BY <3>1
  <2>. QED  BY <2>2, <2>3
<1>. QED  BY <1>1, <1>2

\* A credential flag, as the loop sees it.
LEMMA SecretFlagIs ==
    ASSUME NEW arg \in Seq(Lexemes), ~HasInlineValue(arg)
    PROVE  SecretArg(arg) <=> CredentialFlag(arg)
<1> DEFINE name == flagName(arg)
<1>1. SecretArg(arg) <=> isSecretFlagName(name, FALSE)
  <2>1. Key(arg) = arg  BY DEF Key
  <2>2. HasInlineValue(arg) = FALSE  BY Zenon DEF HasInlineValue, Contains
  <2>. QED  BY <2>1, <2>2, Zenon DEF SecretArg
<1>2. CASE Flag(arg)
  <2>1. arg # <<>> /\ Len(arg) > 0 /\ Len(arg) \in Nat  BY <1>2 DEF Flag
  <2>2. name \in Seq(Lexemes) /\ Len(name) = Len(arg) - 1
        /\ \A i \in 1 .. Len(arg) - 1 : name[i] = arg[i + 1]
    BY <1>2, <2>1, FlagNameIs, TailIs
  <2>. HIDE DEF name
  <2>3. isSecretFlagName(name, FALSE) <=>
          /\ Len(arg) > 1
          /\ \/ Len(arg) = 2 /\ arg[2] \in secretCommandFlags
             \/ arg[Len(arg)] \in SecretSuffixes
    <3>1. Len(arg) > 1 => name[Len(name)] = arg[Len(arg)] /\ name[1] = arg[2]
      BY <2>1, <2>2
    <3>2. isSecretFlagName(name, FALSE) <=>
            /\ Len(name) > 0
            /\ \/ Len(name) = 1 /\ name[1] \in secretCommandFlags
               \/ name[Len(name)] \in SecretSuffixes
      BY <2>2, SecretNameIs
    <3>3. (Len(name) > 0 <=> Len(arg) > 1) /\ (Len(name) = 1 <=> Len(arg) = 2)
      BY <2>1, <2>2
    <3>. QED  BY <3>1, <3>2, <3>3
  <2>4. CredentialFlag(arg) <=>
          /\ Len(arg) > 1
          /\ \/ Len(arg) = 2 /\ arg[2] \in secretCommandFlags
             \/ arg[Len(arg)] \in SecretSuffixes
    BY <1>2, <2>1 DEF CredentialFlag, CredentialWord, Last
  <2>. QED  BY <1>1, <2>3, <2>4
<1>3. CASE ~Flag(arg)
  <2>1. name = <<>>  BY <1>3, FlagNameIs
  <2>. QED  BY <1>1, <1>3, <2>1 DEF CredentialFlag, isSecretFlagName
<1>. QED  BY <1>2, <1>3

\* What comes before the first equals sign.
LEMMA KeyIs ==
    ASSUME NEW arg \in Seq(Lexemes), HasInlineValue(arg)
    PROVE  LET key == Key(arg)
               n == Len(key)
           IN  /\ key \in Seq(Lexemes) /\ n \in 0 .. Len(arg) - 1
               /\ \A i \in 1 .. n : key[i] = arg[i] /\ arg[i] # "="
               /\ arg[n + 1] = "="
<1> DEFINE e == Equals(arg)
<1>1. /\ e \in 1 .. Len(arg) /\ arg[e] = "="
      /\ \A j \in 1 .. e - 1 : arg[j] # "="
  BY EqualsIs
<1>2. Key(arg) = SubSeq(arg, 1, e - 1)  BY DEF Key
<1>. HIDE DEF e
<1>3. e - 1 \in 0 .. Len(arg) /\ e - 1 \in 0 .. Len(arg) - 1 /\ (e - 1) + 1 = e
  BY <1>1
<1>4. /\ Key(arg) \in Seq(Lexemes) /\ Len(Key(arg)) = e - 1
      /\ \A i \in 1 .. e - 1 : Key(arg)[i] = arg[i]
  BY <1>2, <1>3, PrefixIs
<1>. QED  BY <1>1, <1>3, <1>4

\* The name of a credential right before the first equals sign.
LEMMA AssignmentAt ==
    ASSUME NEW arg \in Seq(Lexemes), HasInlineValue(arg)
    PROVE  LET n == Len(Key(arg)) IN
           CredentialAssignment(arg) <=> n > 0 /\ CredentialWord(arg[n])
<1> DEFINE n == Len(Key(arg))
<1>1. /\ n \in 0 .. Len(arg) - 1 /\ arg[n + 1] = "=" /\ Len(arg) \in Nat
      /\ \A i \in 1 .. n : arg[i] # "="
  BY KeyIs
<1>. HIDE DEF n
<1>2. ASSUME NEW k \in 1 .. Len(arg) - 1, arg[k + 1] = "=", \A j \in 1 .. k : arg[j] # "="
      PROVE  k = n
  <2>1. ~(k + 1 \in 1 .. n)  BY <1>1, <1>2
  <2>2. ~(n + 1 \in 1 .. k)  BY <1>1, <1>2
  <2>. QED  BY <1>1, <2>1, <2>2
<1>3. ASSUME CredentialAssignment(arg) PROVE n > 0 /\ CredentialWord(arg[n])
  BY <1>1, <1>2, <1>3 DEF CredentialAssignment
<1>4. ASSUME n > 0, CredentialWord(arg[n]) PROVE CredentialAssignment(arg)
  <2>1. n \in 1 .. Len(arg) - 1  BY <1>1, <1>4
  <2>. QED  BY <1>1, <1>4, <2>1 DEF CredentialAssignment
<1>. QED  BY <1>3, <1>4 DEF n

\* An assignment to a credential, as the loop sees it.
LEMMA AssignmentIs ==
    ASSUME NEW arg \in Args, HasInlineValue(arg)
    PROVE  SecretArg(arg) <=> CredentialAssignment(arg)
<1> DEFINE key == Key(arg)
           n == Len(key)
           name == IF flagName(key) = <<>> THEN key ELSE flagName(key)
<1>0. arg \in Seq(Lexemes)  BY LexemeAssumption
<1>1. /\ key \in Seq(Lexemes) /\ n \in 0 .. Len(arg) - 1 /\ n \in Nat /\ Len(arg) \in Nat
      /\ \A i \in 1 .. n : key[i] = arg[i] /\ arg[i] # "="
  BY <1>0, KeyIs
<1>2. SecretArg(arg) <=> isSecretFlagName(name, TRUE)
  <2>1. HasInlineValue(arg) = TRUE  BY Zenon DEF HasInlineValue, Contains
  <2>. QED  BY <2>1, Zenon DEF SecretArg
<1>3. CredentialAssignment(arg) <=> n > 0 /\ CredentialWord(arg[n])
  BY <1>0, AssignmentAt
<1>4. /\ Flag(key) => flagName(key) = Tail(key)
      /\ ~Flag(key) => flagName(key) = <<>>
  BY <1>1, FlagNameIs
<1>5. /\ flagName(key) = <<>> => name = key
      /\ flagName(key) # <<>> => name = flagName(key)
  BY Zenon
<1>6. n = Len(key)  OBVIOUS
<1>. HIDE DEF name, key, n
<1>7. CASE n = 0
  <2>1. key = <<>>  BY <1>1, <1>6, <1>7, EmptyIs
  <2>2. ~Flag(key)  BY <2>1, Zenon DEF Flag
  <2>3. name = <<>>  BY <1>4, <1>5, <2>1, <2>2, Zenon
  <2>4. ~isSecretFlagName(name, TRUE)  BY <2>3, Zenon DEF isSecretFlagName
  <2>5. ~(n > 0)  BY <1>7
  <2>. QED  BY <1>2, <1>3, <2>4, <2>5, Zenon
<1>8. CASE n > 0
  <2>1. key # <<>> /\ key[1] = arg[1]  BY <1>1, <1>6, <1>8
  <2>2. \/ name = key /\ ~(n = 2 /\ arg[1] \in Marks)
        \/ name = Tail(key) /\ n > 1
    <3>1. CASE ~Flag(key)
      <4>1. name = key  BY <1>4, <1>5, <3>1, Zenon
      <4>2. arg[1] \notin Marks  BY <2>1, <3>1, Zenon DEF Flag
      <4>. QED  BY <4>1, <4>2
    <3>2. CASE Flag(key)
      <4> DEFINE rest == Tail(key)
      <4>1. Len(rest) = n - 1 /\ rest \in Seq(Lexemes) /\ n \in Nat
        BY <1>1, <1>6, <2>1, TailIs
      <4>. HIDE DEF rest
      <4>2. CASE n = 1
        <5>0. rest = <<>>  BY <4>1, <4>2, EmptyIs
        <5>1. Tail(key) = <<>>  BY <5>0 DEF rest
        <5>2. name = key  BY <1>4, <1>5, <3>2, <5>1, Zenon
        <5>. QED  BY <4>2, <5>2
      <4>3. CASE n > 1
        <5>1. rest # <<>>  BY <4>1, <4>3
        <5>2. Tail(key) # <<>>  BY <5>1 DEF rest
        <5>3. name = Tail(key)  BY <1>4, <1>5, <3>2, <5>2, Zenon
        <5>. QED  BY <4>3, <5>3
      <4>. QED  BY <1>1, <1>8, <4>2, <4>3
    <3>. QED  BY <3>1, <3>2
  <2>3. /\ name \in Seq(Lexemes) /\ Len(name) > 0 /\ Len(name) \in Nat
        /\ name[Len(name)] = arg[n]
        /\ Len(name) > 1 => n > 1 /\ name[Len(name) - 1] = arg[n - 1]
        /\ n = 2 /\ arg[1] \in Marks => Len(name) = 1
    <3>1. CASE name = key /\ ~(n = 2 /\ arg[1] \in Marks)
      <4>1. name \in Seq(Lexemes) /\ Len(name) = n  BY <1>1, <1>6, <3>1
      <4>2. n \in 1 .. n /\ (n > 1 => n - 1 \in 1 .. n)  BY <1>1, <1>8
      <4>3. name[n] = arg[n] /\ (n > 1 => name[n - 1] = arg[n - 1])
        BY <1>1, <3>1, <4>2
      <4>. QED  BY <1>1, <1>8, <3>1, <4>1, <4>3
    <3>2. CASE name = Tail(key) /\ n > 1
      <4>1. /\ name \in Seq(Lexemes) /\ Len(name) = n - 1
            /\ \A i \in 1 .. n - 1 : name[i] = key[i + 1]
        BY <1>1, <1>6, <2>1, <3>2, TailIs
      <4>2. \A i \in 1 .. n - 1 : name[i] = arg[i + 1]  BY <1>1, <3>2, <4>1
      <4>. QED  BY <1>1, <3>2, <4>1, <4>2
    <3>. QED  BY <2>2, <3>1, <3>2
  <2>4. isSecretFlagName(name, TRUE) <=>
          \/ Len(name) = 1 /\ name[1] \in secretCommandFlags
          \/ name[Len(name)] \in SecretSuffixes
          \/ IsSecret(subKey(name))
    BY <2>3, InlineNameIs
  <2>5. IsSecret(subKey(name)) => CredentialWord(arg[n])  BY <2>3, SubKeyIs
  <2>6. isSecretFlagName(name, TRUE) => CredentialWord(arg[n])
    BY <2>3, <2>4, <2>5 DEF CredentialWord
  <2>7. ASSUME CredentialWord(arg[n]) PROVE isSecretFlagName(name, TRUE)
    <3>0. CASE arg[n] \in SecretSuffixes
      BY <2>3, <2>4, <3>0
    <3>1. CASE Len(name) = 1
      <4>1. name[1] = arg[n]  BY <2>3, <3>1
      <4>2. arg[n] \in secretCommandFlags \/ arg[n] \in SecretSuffixes
        BY <2>7 DEF CredentialWord
      <4>. QED  BY <2>4, <3>0, <3>1, <4>1, <4>2
    <3>2. CASE arg[n] \notin SecretSuffixes /\ Len(name) # 1
      <4>1. Len(name) \in Nat /\ Len(name) > 0 /\ Len(name) # 1  BY <2>3, <3>2, Zenon
      <4>2. \A l \in Nat : l > 0 /\ l # 1 => l > 1  OBVIOUS
      <4>3. Len(name) > 1  BY <4>1, <4>2, Zenon
      <4>4. arg[n] \in secretCommandFlags  BY <2>7, <3>2, Zenon DEF CredentialWord
      <4>5. n > 1 /\ name[Len(name) - 1] = arg[n - 1]  BY <2>3, <4>3, Zenon
      <4>6. n \in 2 .. Len(arg) /\ n - 1 \in 1 .. n  BY <1>1, <4>5
      <4>7. \/ arg[n - 1] \in Separators \cup {"="}
            \/ n = 2 /\ arg[1] \in Marks
        BY <3>2, <4>4, <4>6, LexemeAssumption
      <4>8. arg[n - 1] # "="  BY <1>1, <4>6
      <4>9. name[Len(name) - 1] \in Separators  BY <2>3, <3>2, <4>5, <4>7, <4>8
      <4>. QED  BY <2>3, <2>4, <4>3, <4>4, <4>9, SubKeyIs
    <3>. QED  BY <3>0, <3>1, <3>2
  <2>. QED  BY <1>2, <1>3, <1>8, <2>6, <2>7, Zenon
<1>9. n = 0 \/ n > 0  BY <1>1
<1>. QED  BY <1>7, <1>8, <1>9, Zenon

\* "-flag:value" with the name of a credential, as the loop sees it.
LEMMA ColonFormIs ==
    ASSUME NEW arg \in Seq(Lexemes), ~HasInlineValue(arg), ~CredentialFlag(arg)
    PROVE  ColonForm(arg) <=> FlagWithCredential(arg)
<1> DEFINE c == Colon(arg)
           p == SubSeq(arg, 1, c - 1)
<1>1. \/ c = 0 /\ \A j \in 1 .. Len(arg) : arg[j] # ":"
      \/ /\ c \in 1 .. Len(arg) /\ arg[c] = ":"
         /\ \A j \in 1 .. c - 1 : arg[j] # ":"
  BY ColonIs
<1>2. ColonForm(arg) <=> c > 1 /\ isSecretFlagName(flagName(p), FALSE)
  BY Zenon DEF ColonForm
<1>. HIDE DEF c
<1>3. ASSUME c > 1
      PROVE  isSecretFlagName(flagName(p), FALSE) <=>
                /\ Flag(arg) /\ c > 2
                /\ (c = 3 /\ CredentialWord(arg[2])) \/ arg[c - 1] \in SecretSuffixes
  <2>1. c \in 2 .. Len(arg) /\ c - 1 \in 0 .. Len(arg) /\ Len(arg) \in Nat  BY <1>1, <1>3
  <2>2. p \in Seq(Lexemes) /\ Len(p) = c - 1 /\ \A i \in 1 .. c - 1 : p[i] = arg[i]
    BY <2>1, PrefixIs
  <2>3. p \in Seq(Lexemes) /\ p # <<>> /\ arg # <<>> /\ p[1] = arg[1]  BY <2>1, <2>2
  <2>4. Flag(p) <=> Flag(arg)  BY <2>3, Zenon DEF Flag
  <2>. HIDE DEF p
  <2>5. CASE ~Flag(arg)
    <3>1. flagName(p) = <<>>  BY <2>3, <2>4, <2>5, FlagNameIs
    <3>2. ~isSecretFlagName(flagName(p), FALSE)  BY <3>1, Zenon DEF isSecretFlagName
    <3>. QED  BY <2>5, <3>2, Zenon
  <2>6. CASE Flag(arg)
    <3> DEFINE name == flagName(p)
    <3>1. name = Tail(p)  BY <2>3, <2>4, <2>6, FlagNameIs
    <3>2. /\ name \in Seq(Lexemes) /\ Len(name) = c - 2
          /\ \A i \in 1 .. c - 2 : name[i] = p[i + 1]
      <4>1. /\ Tail(p) \in Seq(Lexemes) /\ Len(Tail(p)) = Len(p) - 1
            /\ \A i \in 1 .. Len(p) - 1 : Tail(p)[i] = p[i + 1]
        BY <2>3, TailIs
      <4>2. Len(p) - 1 = c - 2  BY <2>1, <2>2
      <4>. QED  BY <3>1, <4>1, <4>2
    <3>3. isSecretFlagName(name, FALSE) <=>
            /\ Len(name) > 0
            /\ \/ Len(name) = 1 /\ name[1] \in secretCommandFlags
               \/ name[Len(name)] \in SecretSuffixes
      BY <3>2, SecretNameIs
    <3>. HIDE DEF name
    <3>4. \A i \in 1 .. c - 2 : name[i] = arg[i + 1]  BY <2>1, <2>2, <3>2
    <3>5. c > 2 => name[1] = arg[2] /\ name[Len(name)] = arg[c - 1]  BY <2>1, <3>2, <3>4
    <3>6. (Len(name) > 0 <=> c > 2) /\ (Len(name) = 1 <=> c = 3)  BY <2>1, <3>2
    <3>7. CASE c = 3
      <4>1. c - 1 = 2 /\ c > 2  BY <3>7
      <4>2. isSecretFlagName(name, FALSE) <=> CredentialWord(arg[2])
        BY <3>3, <3>5, <3>6, <3>7, <4>1, Zenon DEF CredentialWord
      <4>3. arg[c - 1] \in SecretSuffixes => CredentialWord(arg[2])
        BY <4>1, Zenon DEF CredentialWord
      <4>. QED  BY <2>6, <3>7, <4>1, <4>2, <4>3, Zenon DEF name
    <3>8. CASE c # 3
      BY <2>6, <3>3, <3>5, <3>6, <3>8, Zenon DEF name
    <3>. QED  BY <3>7, <3>8
  <2>. QED  BY <2>5, <2>6
<1>4. ASSUME NEW k \in 2 .. Len(arg) - 1, arg[k + 1] = ":", \A j \in 1 .. k : arg[j] # ":"
      PROVE  c = k + 1
  <2>1. k + 1 \in 1 .. Len(arg) /\ k \in Nat /\ Len(arg) \in Nat  OBVIOUS
  <2>2. c \in 1 .. Len(arg) /\ arg[c] = ":" /\ ~(k + 1 \in 1 .. c - 1)  BY <1>1, <1>4, <2>1
  <2>3. ~(c \in 1 .. k)  BY <1>4, <2>2
  <2>. QED  BY <2>1, <2>2, <2>3
<1>5. ASSUME FlagWithCredential(arg) PROVE ColonForm(arg)
  <2>1. PICK k \in 2 .. Len(arg) - 1 :
          /\ (k = 2 /\ CredentialWord(arg[2])) \/ arg[k] \in SecretSuffixes
          /\ arg[k + 1] = ":" /\ \A j \in 1 .. k : arg[j] # ":"
    BY <1>5, Zenon DEF FlagWithCredential
  <2>2. c = k + 1  BY <1>4, <2>1
  <2>3. c > 1 /\ c > 2 /\ c - 1 = k /\ (k = 2 => c = 3)  BY <2>2
  <2>4. Flag(arg)  BY <1>5, Zenon DEF FlagWithCredential
  <2>5. (c = 3 /\ CredentialWord(arg[2])) \/ arg[c - 1] \in SecretSuffixes
    BY <2>1, <2>3, Zenon
  <2>. QED  BY <1>2, <1>3, <2>3, <2>4, <2>5, Zenon
<1>6. ASSUME ColonForm(arg) PROVE FlagWithCredential(arg)
  <2>1. /\ Flag(arg) /\ c > 2
        /\ (c = 3 /\ CredentialWord(arg[2])) \/ arg[c - 1] \in SecretSuffixes
    BY <1>2, <1>3, <1>6, Zenon
  <2>2. c \in 1 .. Len(arg) /\ arg[c] = ":" /\ (\A j \in 1 .. c - 1 : arg[j] # ":")
        /\ Len(arg) \in Nat
    BY <1>1, <2>1
  <2> DEFINE k == c - 1
  <2>3. k \in 2 .. Len(arg) - 1 /\ k + 1 = c /\ (c = 3 => k = 2)  BY <2>1, <2>2
  <2>. QED  BY <2>1, <2>2, <2>3, Zenon DEF FlagWithCredential
<1>. QED  BY <1>5, <1>6

-----------------------------------------------------------------------------
(* Truncation *)

LEMMA TruncateIs ==
    ASSUME NEW command \in Seq(Lexemes), command # <<>> => RuneStart(command[1])
    PROVE  LET cut == truncateCommand(command)
               n == Len(cut)
           IN  /\ cut \in Seq(Lexemes) /\ n \in 0 .. Len(command) /\ n <= maxCommandLen
               /\ cut = SubSeq(command, 1, n)
               /\ n < Len(command) =>
                     /\ RuneStart(command[n + 1])
                     /\ \A m \in n + 1 .. Len(command) :
                           m = Len(command) \/ RuneStart(command[m + 1]) => m > maxCommandLen
<1> DEFINE cuts == {c \in 0 .. maxCommandLen : c = 0 \/ RuneStart(command[c + 1])}
           n == CHOOSE c \in cuts : \A d \in cuts : d <= c
           cut == truncateCommand(command)
<1>0. maxCommandLen \in Nat /\ Len(command) \in Nat  BY LengthAssumption
<1>1. CASE Len(command) <= maxCommandLen
  <2>1. cut = command  BY <1>1, Zenon DEF truncateCommand
  <2>2. command = SubSeq(command, 1, Len(command))  OBVIOUS
  <2>3. Len(command) \in 0 .. Len(command) /\ ~(Len(command) < Len(command))  BY <1>0
  <2>. QED  BY <1>1, <2>1, <2>2, <2>3, Zenon
<1>2. CASE Len(command) > maxCommandLen
  <2>0. ~(Len(command) <= maxCommandLen)  BY <1>0, <1>2
  <2>1. cut = SubSeq(command, 1, n)  BY <2>0, Zenon DEF truncateCommand
  <2>2. cuts \in SUBSET (0 .. maxCommandLen) /\ 0 \in cuts  BY <1>0
  <2>3. \A c \in 0 .. maxCommandLen : c \in cuts <=> (c = 0 \/ RuneStart(command[c + 1]))
    OBVIOUS
  <2>4. \E c \in cuts : \A d \in cuts : d <= c
    <3>. HIDE DEF cuts
    <3>1. PICK c \in cuts : \A d \in cuts : c >= d  BY <1>0, <2>2, GreatestNat
    <3>2. \A d \in cuts : d <= c  BY <2>2, <3>1
    <3>. QED  BY <3>2
  <2>5. n \in cuts /\ \A d \in cuts : d <= n
    <3>. HIDE DEF cuts
    <3>. QED  BY <2>4, Zenon
  <2>. HIDE DEF cuts, n, cut
  <2>6. n \in 0 .. maxCommandLen /\ n \in 0 .. Len(command) /\ n < Len(command)
    BY <1>0, <1>2, <2>2, <2>5
  <2>7. cut \in Seq(Lexemes) /\ Len(cut) = n  BY <2>1, <2>6, PrefixIs
  <2>8. RuneStart(command[n + 1])
    <3>1. CASE n = 0
      <4>1. command # <<>> /\ n + 1 = 1  BY <2>6, <3>1
      <4>. QED  BY <4>1
    <3>2. CASE n # 0
      BY <2>3, <2>5, <2>6, <3>2
    <3>. QED  BY <3>1, <3>2
  <2>9. ASSUME NEW m \in n + 1 .. Len(command), m = Len(command) \/ RuneStart(command[m + 1])
        PROVE  m > maxCommandLen
    <3>1. m \in Nat /\ m > n  BY <2>6
    <3>2. CASE m = Len(command)  BY <1>2, <3>2
    <3>3. CASE RuneStart(command[m + 1])
      <4>. SUFFICES ASSUME m \in 0 .. maxCommandLen PROVE FALSE  BY <1>0, <3>1
      <4>1. m \in cuts  BY <2>3, <3>3
      <4>2. m <= n  BY <2>5, <4>1
      <4>. QED  BY <2>6, <3>1, <4>2
    <3>. QED  BY <2>9, <3>2, <3>3
  <2>10. n <= maxCommandLen  BY <1>0, <2>6
  <2>. QED  BY <2>1, <2>6, <2>7, <2>8, <2>9, <2>10, Zenon DEF cut
<1>. QED  BY <1>0, <1>1, <1>2

-----------------------------------------------------------------------------
(* What the loop makes of an argument *)

LEMMA ArgsAre == \A arg \in Args : arg \in Seq(Lexemes) /\ StartsRune(arg)
BY LexemeAssumption DEF StartsRune, RuneStart

LEMMA SeqGrows ==
    ASSUME NEW S, NEW T, \A x \in S : x \in T, NEW s \in Seq(S) PROVE s \in Seq(T)
OBVIOUS

LEMMA ConcatIs ==
    ASSUME NEW s \in Seq(Lexemes), NEW t \in Seq(Lexemes), StartsRune(s), StartsRune(t)
    PROVE  s \o t \in Seq(Lexemes) /\ StartsRune(s \o t)
<1>1. s \o t \in Seq(Lexemes) /\ Len(s \o t) = Len(s) + Len(t)  OBVIOUS
<1>2. CASE s = <<>>
  <2>1. s \o t = t  BY <1>2
  <2>. QED  BY <1>1, <2>1
<1>3. CASE s # <<>>
  <2>1. (s \o t)[1] = s[1]  BY <1>3
  <2>. QED  BY <1>1, <1>3, <2>1 DEF StartsRune
<1>. QED  BY <1>2, <1>3

\* Everything the redaction and the rendering insert starts a rune.
LEMMA InsertedAre ==
    \A s \in {<<redactedValue>>, <<"=", redactedValue>>, <<"\"">>, <<"\"", "\"">>, <<" ">>, <<>>} :
        s \in Seq(Lexemes) /\ StartsRune(s)
<1>1. \A x \in {redactedValue, "=", "\"", " "} : RuneStart(x)
  BY LexemeAssumption DEF RuneStart
<1>2. ASSUME NEW x \in Lexemes, NEW y \in Lexemes, RuneStart(x)
      PROVE  /\ <<x>> \in Seq(Lexemes) /\ StartsRune(<<x>>)
             /\ <<x, y>> \in Seq(Lexemes) /\ StartsRune(<<x, y>>)
  <2>1. <<x>>[1] = x /\ <<x, y>>[1] = x  OBVIOUS
  <2>2. <<x>> \in Seq(Lexemes) /\ <<x, y>> \in Seq(Lexemes)  OBVIOUS
  <2>. QED  BY <1>2, <2>1, <2>2, Zenon DEF StartsRune
<1>3. <<>> \in Seq(Lexemes)  OBVIOUS
<1>4. \A x \in {redactedValue, "=", "\"", " "} : x \in Lexemes  BY LexemeAssumption
<1>5. StartsRune(<<>>)  BY Zenon DEF StartsRune
<1>. QED  BY <1>1, <1>2, <1>3, <1>4, <1>5, Zenon

\* SecretArg and ColonForm, by what the properties call them.
LEMMA FormsAre ==
    ASSUME NEW arg \in Args
    PROVE  /\ SecretArg(arg) /\ HasInlineValue(arg) <=> CredentialAssignment(arg)
           /\ SecretArg(arg) /\ ~HasInlineValue(arg) <=> CredentialFlag(arg)
           /\ ~SecretArg(arg) /\ ColonForm(arg) <=> FlagWithCredential(arg)
<1>0. arg \in Seq(Lexemes)  BY ArgsAre
<1>1. CredentialAssignment(arg) => HasInlineValue(arg)
  <2>. SUFFICES ASSUME NEW k \in 1 .. Len(arg) - 1, arg[k + 1] = "=" PROVE HasInlineValue(arg)
    BY Zenon DEF CredentialAssignment
  <2>1. k + 1 \in 1 .. Len(arg)  BY <1>0
  <2>. QED  BY <1>0, <2>1 DEF HasInlineValue, Contains
<1>2. CredentialFlag(arg) => ~HasInlineValue(arg)  BY Zenon DEF CredentialFlag
<1>3. FlagWithCredential(arg) => ~HasInlineValue(arg) /\ ~CredentialFlag(arg)
  BY Zenon DEF FlagWithCredential
<1>4. ColonForm(arg) => ~HasInlineValue(arg)  BY Zenon DEF ColonForm
<1>5. HasInlineValue(arg) => (SecretArg(arg) <=> CredentialAssignment(arg))  BY AssignmentIs
<1>6. ~HasInlineValue(arg) => (SecretArg(arg) <=> CredentialFlag(arg))  BY <1>0, SecretFlagIs
<1>7. ~HasInlineValue(arg) /\ ~CredentialFlag(arg) => (ColonForm(arg) <=> FlagWithCredential(arg))
  BY <1>0, ColonFormIs
<1>. QED  BY <1>1, <1>2, <1>3, <1>4, <1>5, <1>6, <1>7, Zenon

LEMMA NextIsValueIs ==
    ASSUME NEW arg \in Args
    PROVE  NextIsValue(arg) = CredentialFlag(arg) /\ NextIsValue(arg) \in BOOLEAN
<1>1. NextIsValue(arg) <=> CredentialFlag(arg)  BY FormsAre, Zenon DEF NextIsValue
<1>2. NextIsValue(arg) \in BOOLEAN  BY Zenon DEF NextIsValue
<1>3. CredentialFlag(arg) \in BOOLEAN  BY Zenon DEF CredentialFlag
<1>. QED  BY <1>1, <1>2, <1>3, Zenon

\* The four outcomes for an argument.
LEMMA RedactArgCases ==
    ASSUME NEW arg \in Args, NEW isValue \in BOOLEAN
    PROVE  LET r == RedactArg(arg, isValue) IN
           \/ isValue /\ r = <<redactedValue>>
              /\ ~CredentialAssignment(arg) /\ ~CredentialFlag(arg)
           \/ CredentialAssignment(arg) /\ r = Key(arg) \o <<"=", redactedValue>>
           \/ ~isValue /\ FlagWithCredential(arg) /\ Colon(arg) > 1
              /\ r = SubSeq(arg, 1, Colon(arg)) \o <<redactedValue>>
           \/ (isValue => CredentialFlag(arg)) /\ r = arg
              /\ ~CredentialAssignment(arg) /\ ~FlagWithCredential(arg)
<1>1. CASE isValue /\ ~SecretArg(arg)
  <2>1. RedactArg(arg, isValue) = <<redactedValue>>  BY <1>1, Zenon DEF RedactArg
  <2>. QED  BY <1>1, <2>1, FormsAre, Zenon
<1>2. CASE SecretArg(arg) /\ HasInlineValue(arg)
  <2>1. RedactArg(arg, isValue) = Key(arg) \o <<"=", redactedValue>>
    BY <1>2, Zenon DEF RedactArg
  <2>. QED  BY <1>2, <2>1, FormsAre, Zenon
<1>3. CASE ~isValue /\ ~SecretArg(arg) /\ ColonForm(arg)
  <2>1. RedactArg(arg, isValue) = SubSeq(arg, 1, Colon(arg)) \o <<redactedValue>>
    BY <1>3, Zenon DEF RedactArg
  <2>2. Colon(arg) > 1  BY <1>3, Zenon DEF ColonForm
  <2>. QED  BY <1>3, <2>1, <2>2, FormsAre, Zenon
<1>4. CASE /\ ~(isValue /\ ~SecretArg(arg)) /\ ~(SecretArg(arg) /\ HasInlineValue(arg))
           /\ ~(~SecretArg(arg) /\ ColonForm(arg))
  <2>1. RedactArg(arg, isValue) = arg  BY <1>4, Zenon DEF RedactArg
  <2>. QED  BY <1>4, <2>1, FormsAre, Zenon
<1>. QED  BY <1>1, <1>2, <1>3, <1>4, Zenon

LEMMA RedactArgType ==
    ASSUME NEW arg \in Args, NEW isValue \in BOOLEAN
    PROVE  RedactArg(arg, isValue) \in Seq(Lexemes) /\ StartsRune(RedactArg(arg, isValue))
<1> DEFINE r == RedactArg(arg, isValue)
<1>0. arg \in Seq(Lexemes) /\ StartsRune(arg)  BY ArgsAre
<1>1. CASE r = <<redactedValue>>
  BY <1>1, InsertedAre, Zenon
<1>2. CASE CredentialAssignment(arg) /\ r = Key(arg) \o <<"=", redactedValue>>
  <2>1. HasInlineValue(arg)  BY <1>2, FormsAre, Zenon
  <2> DEFINE key == Key(arg)
  <2>2. key \in Seq(Lexemes) /\ Len(key) \in 0 .. Len(arg) - 1 /\ Len(arg) \in Nat
        /\ \A i \in 1 .. Len(key) : key[i] = arg[i]
    BY <1>0, <2>1, KeyIs
  <2>. HIDE DEF key
  <2>3. StartsRune(key)
    <3>1. key # <<>> => arg # <<>> /\ key[1] = arg[1]  BY <2>2
    <3>. QED  BY <1>0, <3>1, Zenon DEF StartsRune
  <2>4. <<"=", redactedValue>> \in Seq(Lexemes) /\ StartsRune(<<"=", redactedValue>>)
    BY InsertedAre, Zenon
  <2>5. key \o <<"=", redactedValue>> \in Seq(Lexemes) /\ StartsRune(key \o <<"=", redactedValue>>)
    BY <2>2, <2>3, <2>4, ConcatIs
  <2>. QED  BY <1>2, <2>5, Zenon DEF key
<1>3. CASE Colon(arg) > 1 /\ r = SubSeq(arg, 1, Colon(arg)) \o <<redactedValue>>
  <2> DEFINE p == SubSeq(arg, 1, Colon(arg))
  <2>1. Colon(arg) \in 0 .. Len(arg) /\ Colon(arg) \in Nat  BY <1>0, <1>3, ColonIs
  <2>2. p \in Seq(Lexemes) /\ Len(p) = Colon(arg) /\ \A i \in 1 .. Colon(arg) : p[i] = arg[i]
    BY <1>0, <2>1, PrefixIs
  <2>. HIDE DEF p
  <2>3. StartsRune(p)
    <3>1. arg # <<>> /\ p[1] = arg[1]  BY <1>0, <1>3, <2>1, <2>2
    <3>. QED  BY <1>0, <3>1, Zenon DEF StartsRune
  <2>4. <<redactedValue>> \in Seq(Lexemes) /\ StartsRune(<<redactedValue>>)
    BY InsertedAre, Zenon
  <2>5. p \o <<redactedValue>> \in Seq(Lexemes) /\ StartsRune(p \o <<redactedValue>>)
    BY <2>2, <2>3, <2>4, ConcatIs
  <2>. QED  BY <1>3, <2>5, Zenon DEF p
<1>4. CASE r = arg
  BY <1>0, <1>4, Zenon
<1>. QED  BY <1>1, <1>2, <1>3, <1>4, RedactArgCases, Zenon

LEMMA RenderType ==
    ASSUME NEW arg \in Seq(Lexemes), StartsRune(arg)
    PROVE  Render(arg) \in Seq(Lexemes) /\ StartsRune(Render(arg))
<1> DEFINE q == <<"\"">>
<1>1. q \in Seq(Lexemes) /\ StartsRune(q)  BY InsertedAre, Zenon
<1>2. <<"\"", "\"">> \in Seq(Lexemes) /\ StartsRune(<<"\"", "\"">>)  BY InsertedAre, Zenon
<1>3. Render(arg) = <<"\"", "\"">> \/ Render(arg) = q \o arg \o q \/ Render(arg) = arg
  BY Zenon DEF Render
<1>. HIDE DEF q
<1>4. q \o arg \in Seq(Lexemes) /\ StartsRune(q \o arg)  BY <1>1, ConcatIs
<1>5. q \o arg \o q \in Seq(Lexemes) /\ StartsRune(q \o arg \o q)  BY <1>1, <1>4, ConcatIs
<1>. QED  BY <1>2, <1>3, <1>5, Zenon

-----------------------------------------------------------------------------
(* The inductive invariant *)

IInv == TypeOK /\ OnceInv /\ RedactInv /\ CutInv

LEMMA InvInit == Init => IInv
<1>. SUFFICES ASSUME Init PROVE IInv  OBVIOUS
<1>1. args \in Seq(Args)
  <2>1. PICK n \in 1 .. MaxArgs : args \in [1 .. n -> Args]  BY Zenon DEF Init
  <2>. QED  BY <2>1, LengthAssumption
<1>2. Len(args) \in Nat  BY <1>1
<1>3. Blank \in Context
  <2>1. <<>> \in Seq(Lexemes)  OBVIOUS
  <2>. QED  BY <2>1 DEF Blank, Context
<1>4. TypeOK
  <2>1. pc \in [Threads -> {"idle", "once", "redact"}]  BY DEF Init
  <2>2. got \in [Threads -> Context \cup {NoContext}]  BY DEF Init
  <2>3. redacted \in Seq(Seq(Lexemes)) /\ line \in Seq(Lexemes)  BY DEF Init
  <2>4. index \in 1 .. Len(args) + 1 /\ joined \in 0 .. Len(args)  BY <1>2 DEF Init
  <2>5. redactValue \in BOOLEAN /\ once \in {"new", "running", "done"}
        /\ redacted = <<>> /\ signingCtx \in Context
    BY <1>3, Zenon DEF Init
  <2>. QED  BY <1>1, <2>1, <2>2, <2>3, <2>4, <2>5, Zenon DEF TypeOK
<1>5. OnceInv
  <2>1. \A t \in Threads : pc[t] = "idle" /\ got[t] = NoContext  BY DEF Init
  <2>2. "idle" # "redact"  OBVIOUS
  <2>. QED  BY <2>1, <2>2, Zenon DEF OnceInv, OneContextPerProcess
<1>6. RedactInv
  <2>1. once = "new" /\ redacted = <<>> /\ index = 1 /\ redactValue = FALSE  BY DEF Init
  <2>2. ~(index > 1) /\ DOMAIN redacted = {}  BY <2>1
  <2>3. redactValue = IsValue(index)  BY <2>1, <2>2, Zenon DEF IsValue
  <2>. QED  BY <2>1, <2>2, <2>3, Zenon DEF RedactInv
<1>7. CutInv
  <2>1. line = <<>> /\ once = "new" /\ "new" # "done"  BY DEF Init
  <2>. QED  BY <2>1, Zenon DEF CutInv, StartsRune
<1>. QED  BY <1>4, <1>5, <1>6, <1>7, Zenon DEF IInv

LEMMA OnceStep == TypeOK /\ OnceInv /\ [Next]_vars => OnceInv'
<1>. SUFFICES ASSUME TypeOK, OnceInv, [Next]_vars PROVE OnceInv'  OBVIOUS
<1>1. /\ pc \in [Threads -> {"idle", "once", "redact"}]
      /\ got \in [Threads -> Context \cup {NoContext}]
  BY Zenon DEF TypeOK
<1>2. CASE UNCHANGED vars
  BY <1>2 DEF vars, OnceInv, OneContextPerProcess
<1>3. ASSUME NEW t \in Threads, Enter(t) PROVE OnceInv'
  BY <1>1, <1>3 DEF Enter, OnceInv, OneContextPerProcess
<1>4. ASSUME NEW t \in Threads, ReadExecutable(t) PROVE OnceInv'
  <2>1. once = "new" /\ once' = "running" /\ pc' = [pc EXCEPT ![t] = "redact"] /\ got' = got
    BY <1>4 DEF ReadExecutable
  <2>2. \A u \in Threads : pc[u] # "redact" /\ got[u] = NoContext
    BY <2>1 DEF OnceInv, OneContextPerProcess
  <2>. QED  BY <1>1, <2>1, <2>2 DEF OnceInv, OneContextPerProcess
<1>5. ASSUME NEW t \in Threads, Redact(t) \/ Join(t) PROVE OnceInv'
  <2>1. once' = once /\ pc' = pc /\ got' = got /\ signingCtx' = signingCtx
    BY <1>5 DEF Redact, Join
  <2>. QED  BY <2>1 DEF OnceInv, OneContextPerProcess
<1>6. ASSUME NEW t \in Threads, Capture(t) PROVE OnceInv'
  <2>1. once' = "done" /\ pc' = [pc EXCEPT ![t] = "once"] /\ got' = got /\ pc[t] = "redact"
    BY <1>6 DEF Capture
  <2>2. once = "running"  BY <2>1 DEF OnceInv
  <2>3. \A u \in Threads : got[u] = NoContext  BY <2>2 DEF OnceInv, OneContextPerProcess
  <2>4. \A u \in Threads : pc'[u] # "redact"  BY <1>1, <2>1 DEF OnceInv
  <2>. QED  BY <2>1, <2>3, <2>4 DEF OnceInv, OneContextPerProcess
<1>7. ASSUME NEW t \in Threads, Return(t) PROVE OnceInv'
  <2>1. /\ once = "done" /\ once' = once /\ signingCtx' = signingCtx
        /\ got' = [got EXCEPT ![t] = signingCtx] /\ pc' = [pc EXCEPT ![t] = "idle"]
    BY <1>7 DEF Return
  <2>. QED  BY <1>1, <2>1 DEF OnceInv, OneContextPerProcess
<1>. QED  BY <1>2, <1>3, <1>4, <1>5, <1>6, <1>7 DEF Next

\* The arguments and the result, while the loop runs and after it.
LEMMA RedactedType ==
    ASSUME TypeOK, RedactInv
    PROVE  /\ args \in Seq(Args) /\ redacted \in Seq(Seq(Lexemes)) /\ index \in 1 .. Len(args) + 1
           /\ redactValue \in BOOLEAN /\ \A j : IsValue(j) \in BOOLEAN
           /\ \A j \in DOMAIN redacted : j \in 1 .. Len(args) /\ args[j] \in Args
           /\ \A j \in DOMAIN redacted : redacted[j] \in Seq(Lexemes) /\ StartsRune(redacted[j])
<1>1. /\ args \in Seq(Args) /\ redacted \in Seq(Seq(Lexemes)) /\ index \in 1 .. Len(args) + 1
      /\ redactValue \in BOOLEAN /\ (redacted # <<>> => Len(redacted) = Len(args))
  BY Zenon DEF TypeOK
<1>2. \A j : IsValue(j) \in BOOLEAN  BY Zenon DEF IsValue
<1>3. ASSUME NEW j \in DOMAIN redacted PROVE j \in 1 .. Len(args) /\ args[j] \in Args
  <2>1. redacted # <<>> /\ j \in 1 .. Len(redacted)  BY <1>1
  <2>. QED  BY <1>1, <2>1
<1>4. ASSUME NEW j \in DOMAIN redacted PROVE redacted[j] \in Seq(Lexemes) /\ StartsRune(redacted[j])
  <2>1. redacted[j] = RedactArg(args[j], IsValue(j)) \/ redacted[j] = args[j]
    BY Zenon DEF RedactInv
  <2>2. args[j] \in Args /\ IsValue(j) \in BOOLEAN  BY <1>2, <1>3
  <2>3. /\ RedactArg(args[j], IsValue(j)) \in Seq(Lexemes)
        /\ StartsRune(RedactArg(args[j], IsValue(j)))
    BY <2>2, RedactArgType
  <2>4. args[j] \in Seq(Lexemes) /\ StartsRune(args[j])  BY <2>2, ArgsAre
  <2>. QED  BY <2>1, <2>3, <2>4, Zenon
<1>. QED  BY <1>1, <1>2, <1>3, <1>4, Zenon

\* Every step but two leaves the arguments and the loop over them alone.
LEMMA RedactStep ==
    TypeOK /\ OnceInv /\ RedactInv /\ [Next]_vars => RedactInv'
<1>. SUFFICES ASSUME TypeOK, OnceInv, RedactInv, [Next]_vars PROVE RedactInv'  OBVIOUS
<1>0. /\ args \in Seq(Args) /\ redacted \in Seq(Seq(Lexemes)) /\ index \in 1 .. Len(args) + 1
      /\ redactValue \in BOOLEAN
      /\ \A j \in DOMAIN redacted : j \in 1 .. Len(args) /\ args[j] \in Args
  BY RedactedType
<1>1. ASSUME args' = args, redacted' = redacted, index' = index, redactValue' = redactValue,
             once' = "new" <=> once = "new"
      PROVE  RedactInv'
  <2>1. redactValue' = IsValue(index)'  BY <1>1, Zenon DEF RedactInv, IsValue
  <2>2. \A j : IsValue(j)' = IsValue(j)  BY <1>1, Zenon DEF IsValue
  <2>. QED  BY <1>1, <2>1, <2>2, Zenon DEF RedactInv
<1>2. CASE UNCHANGED vars
  BY <1>1, <1>2 DEF vars, loop
<1>3. ASSUME NEW t \in Threads, Enter(t) \/ Join(t) \/ Return(t) PROVE RedactInv'
  BY <1>1, <1>3 DEF Enter, Join, Return, loop
<1>4. ASSUME NEW t \in Threads, Capture(t) PROVE RedactInv'
  <2>1. pc[t] = "redact" /\ once' = "done"  BY <1>4 DEF Capture
  <2>2. once = "running"  BY <2>1 DEF OnceInv
  <2>. QED  BY <1>1, <1>4, <2>1, <2>2 DEF Capture, loop
<1>5. ASSUME NEW t \in Threads, ReadExecutable(t) PROVE RedactInv'
  <2>1. /\ redacted' = args /\ args' = args /\ index' = 1 /\ redactValue' = FALSE
        /\ once' = "running"
    BY <1>5 DEF ReadExecutable
  <2>2. ~(index' > 1) /\ \A j \in DOMAIN redacted' : ~(j < index')  BY <1>0, <2>1
  <2>3. redactValue' = IsValue(index)'  BY <2>1, <2>2, Zenon DEF IsValue
  <2>4. "running" # "new"  OBVIOUS
  <2>. QED  BY <2>1, <2>2, <2>3, <2>4, Zenon DEF RedactInv
<1>6. ASSUME NEW t \in Threads, Redact(t) PROVE RedactInv'
  <2> DEFINE r == RedactArg(redacted[index], redactValue)
  <2>1. /\ index <= Len(redacted) /\ redacted' = [redacted EXCEPT ![index] = r]
        /\ redactValue' = NextIsValue(redacted[index]) /\ index' = index + 1
        /\ args' = args /\ once' = once /\ pc[t] = "redact"
    BY <1>6, Zenon DEF Redact
  <2>2. index \in DOMAIN redacted /\ index \in Nat  BY <1>0, <2>1
  <2>3. args[index] \in Args /\ redacted[index] = args[index] /\ redactValue = IsValue(index)
    <3>1. ~(index < index)  BY <2>2
    <3>. QED  BY <1>0, <2>2, <3>1, Zenon DEF RedactInv
  <2>4. r = RedactArg(args[index], IsValue(index))  BY <2>3, Zenon
  <2>. HIDE DEF r
  <2>5. redactValue' = IsValue(index)'
    <3>1. index' > 1 /\ index' - 1 = index  BY <2>1, <2>2
    <3>2. redactValue' = CredentialFlag(args[index])  BY <2>1, <2>3, NextIsValueIs
    <3>3. CredentialFlag(args[index]) \in BOOLEAN  BY Zenon DEF CredentialFlag
    <3>. QED  BY <2>1, <3>1, <3>2, <3>3, Zenon DEF IsValue
  <2>6. \A j : IsValue(j)' = IsValue(j)  BY <2>1, Zenon DEF IsValue
  <2>7. DOMAIN redacted' = DOMAIN redacted /\ Len(redacted') = Len(redacted)
        /\ redacted'[index] = r /\ \A j \in DOMAIN redacted : j # index => redacted'[j] = redacted[j]
    <3>1. r \in Seq(Lexemes)
      <4>1. IsValue(index) \in BOOLEAN  BY Zenon DEF IsValue
      <4>. QED  BY <2>3, <2>4, <4>1, RedactArgType
    <3>. QED  BY <1>0, <2>1, <2>2, <3>1
  <2>8. ASSUME NEW j \in DOMAIN redacted'
        PROVE  redacted'[j] = IF j < index' THEN RedactArg(args'[j], IsValue(j)') ELSE args'[j]
    <3>0. j \in DOMAIN redacted /\ j \in Nat  BY <1>0, <2>7
    <3>1. CASE j = index
      <4>1. j < index'  BY <2>1, <2>2, <3>1
      <4>. QED  BY <2>1, <2>4, <2>6, <2>7, <3>1, <4>1, Zenon
    <3>2. CASE j < index
      <4>1. j < index' /\ j # index  BY <2>1, <2>2, <3>0, <3>2
      <4>2. redacted[j] = RedactArg(args[j], IsValue(j))  BY <3>0, <3>2, Zenon DEF RedactInv
      <4>. QED  BY <2>1, <2>6, <2>7, <3>0, <4>1, <4>2, Zenon
    <3>3. CASE j > index
      <4>1. ~(j < index') /\ ~(j < index) /\ j # index  BY <2>1, <2>2, <3>0, <3>3
      <4>2. redacted[j] = args[j]  BY <3>0, <4>1, Zenon DEF RedactInv
      <4>. QED  BY <2>1, <2>7, <3>0, <4>1, <4>2, Zenon
    <3>. QED  BY <2>2, <3>0, <3>1, <3>2, <3>3
  <2>9. once # "new"
    <3>1. once = "running"  BY <2>1 DEF OnceInv
    <3>. QED  BY <3>1
  <2>10. Len(redacted) = Len(args)  BY <2>9, Zenon DEF RedactInv
  <2>. QED  BY <2>1, <2>5, <2>7, <2>8, <2>9, <2>10, Zenon DEF RedactInv
<1>. QED  BY <1>2, <1>3, <1>4, <1>5, <1>6 DEF Next

\* What is joined to the line.
LEMMA JoinType ==
    ASSUME TypeOK, RedactInv, CutInv, NEW t \in Threads, Join(t)
    PROVE  line' \in Seq(Lexemes) /\ StartsRune(line)' /\ joined' \in 0 .. Len(args)
<1> DEFINE sep == IF joined = 0 THEN <<>> ELSE <<" ">>
           arg == redacted[joined + 1]
<1>1. /\ joined < Len(redacted) /\ line' = line \o sep \o Render(arg) /\ joined' = joined + 1
  BY Zenon DEF Join
<1>2. /\ joined \in 0 .. Len(args) /\ line \in Seq(Lexemes) /\ StartsRune(line)
      /\ args \in Seq(Args) /\ redacted \in Seq(Seq(Lexemes))
  BY Zenon DEF TypeOK, CutInv
<1>3. joined + 1 \in DOMAIN redacted
  <2>1. joined < Len(redacted)  BY <1>1, Zenon
  <2>2. joined \in Nat /\ DOMAIN redacted = 1 .. Len(redacted) /\ Len(redacted) \in Nat  BY <1>2
  <2>. QED  BY <2>1, <2>2
<1>4. /\ joined + 1 \in 1 .. Len(args) /\ arg \in Seq(Lexemes) /\ StartsRune(arg)
  BY <1>3, RedactedType
<1>5. sep = <<>> \/ sep = <<" ">>  BY Zenon
<1>6. sep \in Seq(Lexemes) /\ StartsRune(sep)  BY <1>5, InsertedAre, Zenon
<1>7. Render(arg) \in Seq(Lexemes) /\ StartsRune(Render(arg))  BY <1>4, RenderType
<1>. HIDE DEF sep, arg
<1>8. line \o sep \in Seq(Lexemes) /\ StartsRune(line \o sep)  BY <1>2, <1>6, ConcatIs
<1>9. /\ line \o sep \o Render(arg) \in Seq(Lexemes)
      /\ StartsRune(line \o sep \o Render(arg))
  BY <1>7, <1>8, ConcatIs
<1>10. line' \in Seq(Lexemes) /\ StartsRune(line')  BY <1>1, <1>9, Zenon
<1>11. joined' \in 0 .. Len(args)  BY <1>1, <1>2, <1>4
<1>. QED  BY <1>10, <1>11, Zenon DEF StartsRune

LEMMA CutStep ==
    TypeOK /\ OnceInv /\ RedactInv /\ CutInv /\ [Next]_vars => CutInv'
<1>. SUFFICES ASSUME TypeOK, OnceInv, RedactInv, CutInv, [Next]_vars PROVE CutInv'  OBVIOUS
<1>1. ASSUME line' = line, signingCtx' = signingCtx, once' = once PROVE CutInv'
  BY <1>1, Zenon DEF CutInv, StartsRune
<1>2. CASE UNCHANGED vars
  BY <1>1, <1>2 DEF vars, loop
<1>3. ASSUME NEW t \in Threads, Enter(t) \/ Redact(t) \/ Return(t) PROVE CutInv'
  BY <1>1, <1>3 DEF Enter, Redact, Return, loop
<1>4. ASSUME NEW t \in Threads, ReadExecutable(t) PROVE CutInv'
  <2>1. line' = line /\ once' = "running" /\ "running" # "done"  BY <1>4 DEF ReadExecutable
  <2>. QED  BY <2>1, Zenon DEF CutInv, StartsRune
<1>5. ASSUME NEW t \in Threads, Join(t) PROVE CutInv'
  <2>1. StartsRune(line)'  BY <1>5, JoinType
  <2>2. pc[t] = "redact" /\ once' = once  BY <1>5 DEF Join
  <2>3. once' # "done"  BY <2>2 DEF OnceInv
  <2>. QED  BY <2>1, <2>3, Zenon DEF CutInv
<1>6. ASSUME NEW t \in Threads, Capture(t) PROVE CutInv'
  <2>1. line' = line  BY <1>6 DEF Capture, loop
  <2>2. PICK host \in {"host", ""}, user \in {"user", ""} :
          signingCtx' = [application |-> signingCtx.application,
                         applicationHash |-> signingCtx.applicationHash,
                         command |-> truncateCommand(line),
                         hostname |-> host, osUsername |-> user]
    BY <1>6, Zenon DEF Capture
  <2>3. signingCtx'.command = truncateCommand(line)  BY <2>2
  <2>. QED  BY <2>1, <2>3, Zenon DEF CutInv, StartsRune
<1>. QED  BY <1>2, <1>3, <1>4, <1>5, <1>6 DEF Next

LEMMA TypeStep == IInv /\ [Next]_vars => TypeOK'
<1>. SUFFICES ASSUME TypeOK, OnceInv, RedactInv, CutInv, [Next]_vars PROVE TypeOK'
  BY Zenon DEF IInv
<1>. USE DEF loop
<1>0. CASE UNCHANGED vars
  BY <1>0, Zenon DEF vars, TypeOK
<1>1. ASSUME NEW t \in Threads, Enter(t) PROVE TypeOK'
  <2>1. pc \in [Threads -> {"idle", "once", "redact"}]  BY Zenon DEF TypeOK
  <2>2. pc' \in [Threads -> {"idle", "once", "redact"}]  BY <1>1, <2>1 DEF Enter
  <2>3. UNCHANGED <<args, once, signingCtx, got, redacted, index, redactValue, line, joined>>
    BY <1>1 DEF Enter
  <2>. QED  BY <2>2, <2>3, Zenon DEF TypeOK
<1>2. ASSUME NEW t \in Threads, ReadExecutable(t) PROVE TypeOK'
  <2>1. /\ args \in Seq(Args) /\ pc \in [Threads -> {"idle", "once", "redact"}]
    BY Zenon DEF TypeOK
  <2>2. pc' \in [Threads -> {"idle", "once", "redact"}]  BY <1>2, <2>1 DEF ReadExecutable
  <2>3. /\ UNCHANGED <<args, got, line, joined>> /\ redacted' = args /\ index' = 1
        /\ redactValue' = FALSE /\ once' = "running"
    BY <1>2 DEF ReadExecutable
  <2>4. PICK exe \in Executables :
          signingCtx' = [application |-> exe[1], applicationHash |-> exe[2], command |-> <<>>,
                         hostname |-> "", osUsername |-> ""]
    BY <1>2, Zenon DEF ReadExecutable
  <2>5. exe[1] \in {"app", ""} /\ exe[2] \in {"hash", ""}
    <3>1. exe = <<"app", "hash">> \/ exe = <<"app", "">> \/ exe = <<"", "">>
      BY Zenon DEF Executables
    <3>2. CASE exe = <<"app", "hash">>  BY <3>2
    <3>3. CASE exe = <<"app", "">>  BY <3>3
    <3>4. CASE exe = <<"", "">>  BY <3>4
    <3>. QED  BY <3>1, <3>2, <3>3, <3>4
  <2>6. <<>> \in Seq(Lexemes)  OBVIOUS
  <2>7. signingCtx' \in Context  BY <2>4, <2>5, <2>6 DEF Context
  <2>8. redacted' \in Seq(Seq(Lexemes)) /\ Len(redacted') = Len(args') /\ index' \in 1 .. Len(args') + 1
    <3>1. args \in Seq(Seq(Lexemes))  BY <2>1, ArgsAre, SeqGrows
    <3>2. Len(args) \in Nat  BY <2>1
    <3>. QED  BY <2>3, <3>1, <3>2
  <2>. QED  BY <2>2, <2>3, <2>7, <2>8, Zenon DEF TypeOK
<1>3. ASSUME NEW t \in Threads, Redact(t) PROVE TypeOK'
  <2>1. /\ args \in Seq(Args) /\ redacted \in Seq(Seq(Lexemes)) /\ index \in 1 .. Len(args) + 1
        /\ redactValue \in BOOLEAN
        /\ \A j \in DOMAIN redacted : j \in 1 .. Len(args) /\ args[j] \in Args
    BY RedactedType
  <2>2. /\ index <= Len(redacted) /\ index' = index + 1
        /\ redacted' = [redacted EXCEPT ![index] = RedactArg(redacted[index], redactValue)]
        /\ redactValue' = NextIsValue(redacted[index])
        /\ UNCHANGED <<args, once, signingCtx, pc, got, line, joined>>
    BY <1>3, Zenon DEF Redact
  <2>3. index \in DOMAIN redacted /\ index \in Nat /\ ~(index < index)  BY <2>1, <2>2
  <2>4. redacted[index] \in Args  BY <2>1, <2>3, Zenon DEF RedactInv
  <2>5. RedactArg(redacted[index], redactValue) \in Seq(Lexemes)  BY <2>1, <2>4, RedactArgType
  <2>6. redactValue' \in BOOLEAN  BY <2>2, <2>4, NextIsValueIs
  <2>7. redacted # <<>> /\ index \in 1 .. Len(args)  BY <2>1, <2>3
  <2>8. Len(redacted) = Len(args)  BY <2>7, Zenon DEF TypeOK
  <2>9. redacted' \in Seq(Seq(Lexemes)) /\ Len(redacted') = Len(redacted)
    <3> DEFINE r == RedactArg(redacted[index], redactValue)
    <3>1. r \in Seq(Lexemes) /\ redacted' = [redacted EXCEPT ![index] = r]  BY <2>2, <2>5, Zenon
    <3>. HIDE DEF r
    <3>. QED  BY <2>1, <2>3, <3>1
  <2>10. index' \in 1 .. Len(args') + 1  BY <2>1, <2>2, <2>7
  <2>. QED  BY <2>2, <2>6, <2>8, <2>9, <2>10, Zenon DEF TypeOK
<1>4. ASSUME NEW t \in Threads, Join(t) PROVE TypeOK'
  <2>1. line' \in Seq(Lexemes) /\ joined' \in 0 .. Len(args)  BY <1>4, JoinType
  <2>2. UNCHANGED <<args, once, signingCtx, pc, got, redacted, index, redactValue>>
    BY <1>4 DEF Join
  <2>. QED  BY <2>1, <2>2, Zenon DEF TypeOK
<1>5. ASSUME NEW t \in Threads, Capture(t) PROVE TypeOK'
  <2>1. /\ signingCtx \in Context /\ pc \in [Threads -> {"idle", "once", "redact"}]
        /\ line \in Seq(Lexemes) /\ StartsRune(line)
    BY Zenon DEF TypeOK, CutInv
  <2>2. pc' \in [Threads -> {"idle", "once", "redact"}]  BY <1>5, <2>1 DEF Capture
  <2>3. UNCHANGED <<args, got, redacted, index, redactValue, line, joined>> /\ once' = "done"
    BY <1>5 DEF Capture
  <2>4. PICK host \in {"host", ""}, user \in {"user", ""} :
          signingCtx' = [application |-> signingCtx.application,
                         applicationHash |-> signingCtx.applicationHash,
                         command |-> truncateCommand(line),
                         hostname |-> host, osUsername |-> user]
    BY <1>5, Zenon DEF Capture
  <2>5. truncateCommand(line) \in Seq(Lexemes)
    <3>1. line # <<>> => RuneStart(line[1])  BY <2>1, Zenon DEF StartsRune
    <3>. QED  BY <2>1, <3>1, TruncateIs
  <2>6. signingCtx.application \in {"app", ""} /\ signingCtx.applicationHash \in {"hash", ""}
    BY <2>1 DEF Context
  <2>7. signingCtx' \in Context  BY <2>4, <2>5, <2>6 DEF Context
  <2>. QED  BY <2>2, <2>3, <2>7, Zenon DEF TypeOK
<1>6. ASSUME NEW t \in Threads, Return(t) PROVE TypeOK'
  <2>1. /\ signingCtx \in Context /\ pc \in [Threads -> {"idle", "once", "redact"}]
        /\ got \in [Threads -> Context \cup {NoContext}]
    BY Zenon DEF TypeOK
  <2>2. pc' \in [Threads -> {"idle", "once", "redact"}]  BY <1>6, <2>1 DEF Return
  <2>3. got' \in [Threads -> Context \cup {NoContext}]  BY <1>6, <2>1 DEF Return
  <2>4. UNCHANGED <<args, once, signingCtx, redacted, index, redactValue, line, joined>>
    BY <1>6 DEF Return
  <2>. QED  BY <2>2, <2>3, <2>4, Zenon DEF TypeOK
<1>. QED  BY <1>0, <1>1, <1>2, <1>3, <1>4, <1>5, <1>6, Zenon DEF Next

\* IInv holds in every state: OnceInv is inductive with the type, RedactInv needs that one
\* thread captures, and CutInv that the redacted arguments start with whole runes.
LEMMA Invariant == Spec => []IInv
<1>1. IInv /\ [Next]_vars => IInv'
  BY TypeStep, OnceStep, RedactStep, CutStep, Zenon DEF IInv
<1>. QED  BY <1>1, InvInit, PTL DEF Spec

-----------------------------------------------------------------------------
(* The theorems *)

\* Every variable keeps its type, whatever the arguments: the redaction keeps their number
\* and the loops stay within them (signing_context.go:97-149).
THEOREM TypeCorrect == Spec => []TypeOK
<1>1. IInv => TypeOK  BY Zenon DEF IInv
<1>. QED  BY <1>1, Invariant, PTL

\* Threads that came before, during and after the capture all report the one complete
\* context (signing_context.go:170-188).
THEOREM OneContext == Spec => []OneContextPerProcess
<1>1. IInv => OneContextPerProcess  BY Zenon DEF IInv, OnceInv
<1>. QED  BY <1>1, Invariant, PTL

\* A prefix of an argument followed by "***", place by place.
LEMMA CutOff ==
    ASSUME NEW arg \in Seq(Lexemes), NEW n \in 0 .. Len(arg)
    PROVE  LET r == SubSeq(arg, 1, n) \o <<redactedValue>> IN
           /\ Len(r) = n + 1 /\ r[n + 1] = redactedValue
           /\ \A k \in 1 .. n : r[k] = arg[k]
<1> DEFINE p == SubSeq(arg, 1, n)
<1>1. p \in Seq(Lexemes) /\ Len(p) = n /\ \A i \in 1 .. n : p[i] = arg[i]  BY PrefixIs
<1>2. redactedValue \in Lexemes  BY LexemeAssumption
<1>. HIDE DEF p
<1>. QED  BY <1>1, <1>2 DEF p

\* The same for what redaction makes of an assignment.
LEMMA CutAfterKey ==
    ASSUME NEW arg \in Seq(Lexemes), HasInlineValue(arg)
    PROVE  LET r == Key(arg) \o <<"=", redactedValue>>
               n == Len(Key(arg))
           IN  /\ Len(r) = n + 2 /\ r[n + 2] = redactedValue
               /\ \A k \in 1 .. n + 1 : r[k] = arg[k]
<1> DEFINE key == Key(arg)
           n == Len(key)
           r == key \o <<"=", redactedValue>>
<1>1. /\ key \in Seq(Lexemes) /\ n \in 0 .. Len(arg) - 1
      /\ \A i \in 1 .. n : key[i] = arg[i]
      /\ arg[n + 1] = "="
  BY KeyIs
<1>2. redactedValue \in Lexemes /\ "=" \in Lexemes  BY LexemeAssumption
<1>. HIDE DEF key
<1>3. /\ Len(r) = n + 2 /\ r[n + 1] = "=" /\ r[n + 2] = redactedValue
      /\ \A k \in 1 .. n : r[k] = key[k]
  BY <1>1, <1>2
<1>. HIDE DEF r, n
<1>4. ASSUME NEW k \in 1 .. n + 1 PROVE r[k] = arg[k]
  <2>1. k = n + 1 \/ k \in 1 .. n  BY <1>1
  <2>. QED  BY <1>1, <1>3, <2>1
<1>. QED  BY <1>3, <1>4 DEF key, n, r

\* The places at which a credential begins, by the forms of arguments.
LEMMA AfterEqualsIs ==
    ASSUME NEW arg \in Args, NEW c, AfterEquals(arg, c)
    PROVE  CredentialAssignment(arg) /\ HasInlineValue(arg) /\ c = Len(Key(arg)) + 2
<1>1. arg \in Seq(Lexemes)  BY ArgsAre
<1>2. /\ c \in 3 .. Len(arg) + 1 /\ Len(arg) \in Nat
      /\ CredentialWord(arg[c - 2]) /\ arg[c - 1] = "="
      /\ \A k \in 1 .. c - 2 : arg[k] # "="
  BY <1>1 DEF AfterEquals
<1>3. c - 2 \in 1 .. Len(arg) - 1 /\ (c - 2) + 1 = c - 1 /\ c - 1 \in 1 .. Len(arg)  BY <1>2
<1>4. CredentialAssignment(arg)  BY <1>2, <1>3 DEF CredentialAssignment
<1>5. HasInlineValue(arg)  BY <1>4, FormsAre, Zenon
<1> DEFINE n == Len(Key(arg))
<1>6. /\ n \in 0 .. Len(arg) - 1 /\ arg[n + 1] = "="
      /\ \A i \in 1 .. n : arg[i] # "="
  BY <1>1, <1>5, KeyIs
<1>. HIDE DEF n
<1>7. ~(c - 1 \in 1 .. n) /\ ~(n + 1 \in 1 .. c - 2)  BY <1>2, <1>6
<1>8. c = n + 2  BY <1>2, <1>6, <1>7
<1>. QED  BY <1>4, <1>5, <1>8 DEF n

LEMMA AfterColonIs ==
    ASSUME NEW arg \in Args, NEW c, AfterColon(arg, c), PlainFrom(arg, c)
    PROVE  /\ FlagWithCredential(arg) /\ ~CredentialFlag(arg) /\ ~CredentialAssignment(arg)
           /\ c = Colon(arg) + 1
<1>1. arg \in Seq(Lexemes)  BY ArgsAre
<1>2. /\ Flag(arg) /\ c \in 4 .. Len(arg) + 1 /\ Len(arg) \in Nat
      /\ (c = 4 /\ CredentialWord(arg[2])) \/ arg[c - 2] \in SecretSuffixes
      /\ arg[c - 1] = ":" /\ \A k \in 1 .. c - 2 : arg[k] \notin {":", "="}
  BY <1>1 DEF AfterColon
<1>3. ~HasInlineValue(arg)
  <2>1. ASSUME NEW k \in 1 .. Len(arg) PROVE arg[k] # "="
    <3>1. k \in 1 .. c - 2 \/ k = c - 1 \/ k \in c .. Len(arg)  BY <1>2
    <3>. QED  BY <1>2, <3>1 DEF PlainFrom
  <2>. QED  BY <1>1, <2>1 DEF HasInlineValue, Contains
<1>4. ~CredentialWord(arg[Len(arg)])
  <2>1. CASE c <= Len(arg)  BY <2>1 DEF PlainFrom
  <2>2. CASE c = Len(arg) + 1
    <3>1. arg[Len(arg)] = ":"  BY <1>2, <2>2
    <3>. QED  BY <3>1, LexemeAssumption DEF Separators
  <2>. QED  BY <1>2, <2>1, <2>2
<1>5. ~CredentialFlag(arg)
  <2>1. Last(arg) = arg[Len(arg)]  BY DEF Last
  <2>2. Len(arg) # 2  BY <1>2
  <2>. QED  BY <1>4, <2>1, <2>2 DEF CredentialFlag, CredentialWord
<1>6. FlagWithCredential(arg)
  <2>1. c - 2 \in 2 .. Len(arg) - 1 /\ (c - 2) + 1 = c - 1 /\ (c = 4 <=> c - 2 = 2)  BY <1>2
  <2>2. /\ (c - 2 = 2 /\ CredentialWord(arg[2])) \/ arg[c - 2] \in SecretSuffixes
        /\ arg[(c - 2) + 1] = ":" /\ \A j \in 1 .. c - 2 : arg[j] # ":"
    BY <1>2, <2>1
  <2>. QED  BY <1>2, <1>3, <1>5, <2>1, <2>2 DEF FlagWithCredential
<1>7. ~CredentialAssignment(arg)  BY <1>3, FormsAre, Zenon
<1>8. c = Colon(arg) + 1
  <2> DEFINE m == Colon(arg)
  <2>1. \/ m = 0 /\ \A j \in 1 .. Len(arg) : arg[j] # ":"
        \/ /\ m \in 1 .. Len(arg) /\ arg[m] = ":"
           /\ \A j \in 1 .. m - 1 : arg[j] # ":"
    BY <1>1, ColonIs
  <2>. HIDE DEF m
  <2>2. c - 1 \in 1 .. Len(arg)  BY <1>2
  <2>3. m \in 1 .. Len(arg) /\ arg[m] = ":" /\ \A j \in 1 .. m - 1 : arg[j] # ":"
    BY <1>2, <2>1, <2>2
  <2>4. ~(c - 1 \in 1 .. m - 1) /\ ~(m \in 1 .. c - 2)  BY <1>2, <2>3
  <2>5. c = m + 1  BY <1>2, <2>2, <2>3, <2>4
  <2>. QED  BY <2>5 DEF m
<1>. QED  BY <1>5, <1>6, <1>7, <1>8

LEMMA PlainIs ==
    ASSUME NEW arg \in Args, PlainFrom(arg, 1)
    PROVE  ~CredentialFlag(arg) /\ ~CredentialAssignment(arg)
<1>1. arg \in Seq(Lexemes)  BY ArgsAre
<1>2. \A k \in 1 .. Len(arg) : arg[k] # "="  BY DEF PlainFrom
<1>3. ~HasInlineValue(arg)  BY <1>1, <1>2 DEF HasInlineValue, Contains
<1>4. ~CredentialFlag(arg)
  <2>. SUFFICES ASSUME Len(arg) > 1 PROVE ~CredentialFlag(arg)
    BY DEF CredentialFlag
  <2>1. ~CredentialWord(arg[Len(arg)])  BY <1>1 DEF PlainFrom
  <2>. QED  BY <2>1 DEF CredentialFlag, CredentialWord, Last
<1>. QED  BY <1>3, <1>4, FormsAre, Zenon

\* Of credentials assigned with "=", and of plain ones in the other forms, nothing is
\* left, in command lines of any length, whatever stands around them
\* (signing_context.go:97-134).
THEOREM PlainHidden == Spec => []PlainCredentialsHidden
<1>1. ASSUME IInv PROVE PlainCredentialsHidden
  <2>. SUFFICES ASSUME NEW j \in Looked, NEW c \in 1 .. Len(args[j]) + 1,
                       \/ AfterEquals(args[j], c)
                       \/ PlainFrom(args[j], c) /\ (AfterColon(args[j], c) \/ (c = 1 /\ AfterFlag(j)))
                PROVE  HiddenFrom(j, c)
    BY Zenon DEF PlainCredentialsHidden
  <2> DEFINE arg == args[j]
             r == RedactArg(arg, IsValue(j))
  <2>1. TypeOK /\ RedactInv  BY <1>1, Zenon DEF IInv
  <2>2. j \in DOMAIN redacted /\ j < index  BY Zenon DEF Looked
  <2>3. arg \in Args /\ IsValue(j) \in BOOLEAN  BY <2>1, <2>2, RedactedType
  <2>4. redacted[j] = r  BY <2>1, <2>2, Zenon DEF RedactInv
  <2>5. arg \in Seq(Lexemes)  BY <2>3, ArgsAre
  <2>6. \/ IsValue(j) /\ r = <<redactedValue>>
           /\ ~CredentialAssignment(arg) /\ ~CredentialFlag(arg)
        \/ CredentialAssignment(arg) /\ r = Key(arg) \o <<"=", redactedValue>>
        \/ ~IsValue(j) /\ FlagWithCredential(arg) /\ Colon(arg) > 1
           /\ r = SubSeq(arg, 1, Colon(arg)) \o <<redactedValue>>
        \/ (IsValue(j) => CredentialFlag(arg)) /\ r = arg
           /\ ~CredentialAssignment(arg) /\ ~FlagWithCredential(arg)
    BY <2>3, RedactArgCases
  <2>. HIDE DEF arg, r
  <2>7. ASSUME NEW n \in Nat, n < c, Len(r) = n + 1, r[n + 1] = redactedValue,
               \A k \in 1 .. n : r[k] = arg[k]
        PROVE  HiddenFrom(j, c)
    <3>1. Len(r) \in 1 .. c /\ r[Len(r)] = redactedValue /\ Len(r) - 1 = n
      BY <2>5, <2>7 DEF arg
    <3>. QED  BY <2>4, <2>7, <3>1 DEF HiddenFrom, arg
  <2>8. CASE AfterEquals(arg, c)
    <3>1. CredentialAssignment(arg) /\ HasInlineValue(arg) /\ c = Len(Key(arg)) + 2
      BY <2>3, <2>8, AfterEqualsIs
    <3>2. r = Key(arg) \o <<"=", redactedValue>>
      BY <2>3, <2>6, <3>1, FormsAre, Zenon
    <3> DEFINE n == Len(Key(arg))
    <3>3. n \in Nat  BY <2>5, <3>1, KeyIs
    <3>4. Len(r) = n + 2 /\ r[n + 2] = redactedValue /\ \A k \in 1 .. n + 1 : r[k] = arg[k]
      BY <2>5, <3>1, <3>2, CutAfterKey
    <3>. HIDE DEF n
    <3>5. n + 1 \in Nat /\ n + 1 < c /\ n + 2 = (n + 1) + 1  BY <3>1, <3>3 DEF n
    <3>. QED  BY <2>7, <3>4, <3>5
  <2>9. ASSUME r = <<redactedValue>> PROVE HiddenFrom(j, c)
    <3>1. Len(r) = 0 + 1 /\ r[0 + 1] = redactedValue /\ 0 \in Nat /\ 0 < c  BY <2>9
    <3>2. \A k \in 1 .. 0 : r[k] = arg[k]  OBVIOUS
    <3>. QED  BY <2>7, <3>1, <3>2
  <2>10. CASE PlainFrom(arg, c) /\ AfterColon(arg, c)
    <3>1. /\ FlagWithCredential(arg) /\ ~CredentialFlag(arg) /\ ~CredentialAssignment(arg)
          /\ c = Colon(arg) + 1
      BY <2>3, <2>10, AfterColonIs
    <3>2. r = <<redactedValue>> \/ r = SubSeq(arg, 1, Colon(arg)) \o <<redactedValue>>
      BY <2>6, <3>1, Zenon
    <3>3. Colon(arg) \in 0 .. Len(arg)  BY <2>5, ColonIs
    <3>4. CASE r = SubSeq(arg, 1, Colon(arg)) \o <<redactedValue>>
      <4> DEFINE n == Colon(arg)
      <4>1. Len(r) = n + 1 /\ r[n + 1] = redactedValue /\ \A k \in 1 .. n : r[k] = arg[k]
        BY <2>5, <3>3, <3>4, CutOff
      <4>2. n \in Nat /\ n < c  BY <2>5, <3>1, <3>3
      <4>. HIDE DEF n
      <4>. QED  BY <2>7, <4>1, <4>2
    <3>. QED  BY <2>9, <3>2, <3>4
  <2>11. CASE PlainFrom(arg, c) /\ c = 1 /\ AfterFlag(j)
    <3>1. IsValue(j)  BY <2>11, Zenon DEF AfterFlag, IsValue
    <3>2. ~CredentialFlag(arg) /\ ~CredentialAssignment(arg)  BY <2>3, <2>11, PlainIs
    <3>3. r = <<redactedValue>>  BY <2>6, <3>1, <3>2, Zenon
    <3>. QED  BY <2>9, <3>3
  <2>. QED  BY <2>8, <2>10, <2>11, Zenon DEF arg
<1>. QED  BY <1>1, Invariant, PTL

\* The redaction changes nothing but assignments to credentials, values after credential
\* flags and their colons (signing_context.go:97-134).
THEOREM OnlyHidden == Spec => []OnlyCredentialsHidden
<1>1. ASSUME IInv PROVE OnlyCredentialsHidden
  <2>. SUFFICES ASSUME NEW j \in Looked, redacted[j] # args[j]
                PROVE  \/ CredentialAssignment(args[j]) \/ FlagWithCredential(args[j])
                       \/ j > 1 /\ CredentialFlag(args[j - 1])
    BY Zenon DEF OnlyCredentialsHidden
  <2>1. TypeOK /\ RedactInv  BY <1>1, Zenon DEF IInv
  <2>2. j \in DOMAIN redacted /\ j < index  BY Zenon DEF Looked
  <2>3. args[j] \in Args /\ IsValue(j) \in BOOLEAN  BY <2>1, <2>2, RedactedType
  <2>4. redacted[j] = RedactArg(args[j], IsValue(j))  BY <2>1, <2>2, Zenon DEF RedactInv
  <2>5. IsValue(j) <=> j > 1 /\ CredentialFlag(args[j - 1])  BY Zenon DEF IsValue
  <2>. QED  BY <2>3, <2>4, <2>5, RedactArgCases, Zenon
<1>. QED  BY <1>1, Invariant, PTL

\* The command reported is the longest whole-rune prefix of the joined arguments that fits
\* the limit, for every limit (signing_context.go:151-160).
THEOREM CutBetweenRunes == Spec => []CommandCutBetweenRunes
<1>1. ASSUME IInv PROVE CommandCutBetweenRunes
  <2>. SUFFICES ASSUME once = "done" PROVE CommandCutBetweenRunes
    BY Zenon DEF CommandCutBetweenRunes
  <2>1. /\ line \in Seq(Lexemes) /\ (line # <<>> => RuneStart(line[1]))
        /\ signingCtx.command = truncateCommand(line)
    BY <1>1, Zenon DEF IInv, TypeOK, CutInv, StartsRune
  <2>2. LET n == Len(signingCtx.command) IN
        /\ n <= maxCommandLen
        /\ signingCtx.command = SubSeq(line, 1, n)
        /\ n < Len(line) =>
              /\ RuneStart(line[n + 1])
              /\ \A m \in n + 1 .. Len(line) :
                    m = Len(line) \/ RuneStart(line[m + 1]) => m > maxCommandLen
    BY <2>1, TruncateIs, Zenon
  <2>. QED  BY <2>2, Zenon DEF CommandCutBetweenRunes
<1>. QED  BY <1>1, Invariant, PTL

=============================================================================
