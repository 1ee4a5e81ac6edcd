------------------------------- MODULE TokenLZ -------------------------------
(***************************************************************************)
(* Token-level LZ77 with dictionary priming: codec/token_lz.py, and its    *)
(* port rust/lz.rs.  One behaviour compresses a token list against a       *)
(* dictionary and then decompresses the result, step by step: an action    *)
(* is one iteration of a loop of encode or decode.                         *)
(*                                                                         *)
(* Positions are the code's, counted from 0; At(s, p) reads a sequence at  *)
(* such a position.                                                        *)
(***************************************************************************)
EXTENDS Integers, Sequences

CONSTANTS
  Symbols,       \* token ids, the flag included
  MatchFlag,     \* the id that announces a match (n_vocab of the tokenizer)
  MATCH_WINDOW,  \* a match reaches back less than this far
  MIN_MATCH_LEN, \* shorter matches are left as literals
  MAX_MATCH_LEN, \* 255, the cap in the match loop
  Byte,          \* 256, the base the distance is split in
  Slots,         \* the hash values
  Hash(_, _),    \* _prefix_hash: of two adjacent tokens, into Slots
  Dictionaries,  \* the dictionaries a behaviour may start from
  Inputs,        \* the token lists a behaviour may compress
  Damageable     \* those whose compressed list may be damaged before it is decoded

ASSUME SizesAssumption ==
  /\ MIN_MATCH_LEN \in Nat /\ MIN_MATCH_LEN >= 3
  /\ MAX_MATCH_LEN \in Nat /\ MAX_MATCH_LEN < Byte
  /\ Byte \in Nat
  /\ MATCH_WINDOW \in Nat /\ MATCH_WINDOW <= Byte * Byte

ASSUME SymbolsAssumption ==
  /\ Symbols \subseteq Nat /\ MatchFlag \in Symbols
  /\ 0 .. (Byte - 1) \subseteq Symbols
  /\ Dictionaries \subseteq Seq(Symbols)
  /\ Inputs \subseteq Seq(Symbols)
  /\ Damageable \subseteq Inputs

ASSUME HashAssumption == \A s, t \in Symbols : Hash(s, t) \in Slots

VARIABLES
  dictionary,  \* the priming tokens
  tokens,      \* the list that is compressed
  phase,       \* "prime", "encode", "decode", "copy", "done" or "error"
  head,        \* the encoder's index: slot -> last position, or -1
  i,           \* the encoder's position in Combined
  lz,          \* the compressed token list
  marks,       \* history: the places of lz between two groups, each with the
               \* position of Combined it stands for
  damaged,     \* history: was lz changed between the two loops?
  j,           \* the decoder's position in lz
  output,      \* the decoder's output, the dictionary in front
  start, k, length  \* the decoder's copy loop

inputVars == <<dictionary, tokens, damaged>>
encoderVars == <<head, i, lz, marks>>
decoderVars == <<j, output, start, k, length>>
vars == <<inputVars, phase, encoderVars, decoderVars>>

At(s, p) == s[p + 1]

Combined == dictionary \o tokens
D == Len(dictionary)
N == Len(Combined)

Init ==
  /\ dictionary \in Dictionaries
  /\ tokens \in Inputs
  /\ phase = "prime"
  /\ head = [h \in Slots |-> -1]
  /\ i = 0
  /\ lz = <<>>
  /\ marks = <<[at |-> 0, pos |-> 0]>>
  /\ damaged = FALSE
  /\ j = 0 /\ output = <<>>
  /\ start = 0 /\ k = 0 /\ length = 0

(***************************************************************************)
(* Encoding.                                                               *)
(***************************************************************************)

SlotAt(p) == Hash(At(Combined, p), At(Combined, p + 1))

\* The loop that indexes the dictionary, then the switch to the main loop.
PrimeHead ==
  /\ phase = "prime"
  /\ IF i + 2 < D
       THEN /\ head' = [head EXCEPT ![SlotAt(i)] = i]
            /\ i' = i + 1
            /\ UNCHANGED phase
       ELSE /\ phase' = "encode"
            /\ i' = D
            /\ UNCHANGED head
  /\ marks' = <<[at |-> 0, pos |-> i']>>
  /\ UNCHANGED <<inputVars, lz, decoderVars>>

\* Mutant: trusts the hash for the first two tokens.
IsMatchLen_TrustsHash(p, m) ==
  /\ i + m <= N /\ m <= MAX_MATCH_LEN
  /\ \A o \in 2 .. (m - 1) : At(Combined, p + o) = At(Combined, i + o)
  /\ i + m < N /\ m < MAX_MATCH_LEN => At(Combined, p + m) # At(Combined, i + m)

\* What the inner while loop leaves in match_len for a candidate position.
IsMatchLen(p, m) ==
  /\ i + m <= N /\ m <= MAX_MATCH_LEN
  /\ \A o \in 0 .. (m - 1) : At(Combined, p + o) = At(Combined, i + o)
  /\ i + m < N /\ m < MAX_MATCH_LEN => At(Combined, p + m) # At(Combined, i + m)

\* Mutant: accepts a match one token too short.
IsMatch_ShortAllowed(p, m) ==
  /\ i + 2 < N
  /\ p = head[SlotAt(i)] /\ i - p < MATCH_WINDOW
  /\ m >= MIN_MATCH_LEN - 1
  /\ IsMatchLen(p, m)

\* A usable match of length m at position p: best_len and best_dist are set.
\* (p ranges over 0 .. i - 1: prev_pos is not -1 and lies behind i.)
IsMatch(p, m) ==
  /\ i + 2 < N
  /\ p = head[SlotAt(i)] /\ i - p < MATCH_WINDOW
  /\ m >= MIN_MATCH_LEN
  /\ IsMatchLen(p, m)

HasMatch == \E p \in 0 .. (i - 1), m \in 1 .. MAX_MATCH_LEN : IsMatch(p, m)

\* Mutant: indexes the next position.
IndexPosition_Next ==
  head' = IF i + 2 < N THEN [head EXCEPT ![SlotAt(i)] = i + 1] ELSE head

\* Every iteration with two tokens ahead of it indexes its own position.
IndexPosition ==
  head' = IF i + 2 < N THEN [head EXCEPT ![SlotAt(i)] = i] ELSE head

\* Append one group that stands for the next consumed tokens of Combined.
Emit(group, consumed) ==
  /\ lz' = lz \o group
  /\ i' = i + consumed
  /\ marks' = Append(marks, [at |-> Len(lz'), pos |-> i'])

EmitMatch ==
  /\ phase = "encode" /\ i < N
  /\ IndexPosition
  /\ \E p \in 0 .. (i - 1), m \in 1 .. MAX_MATCH_LEN :
        /\ IsMatch(p, m)
        /\ LET dist == i - p
           IN  Emit(<<MatchFlag, (dist \div Byte) % Byte, dist % Byte, m % Byte>>, m)
  /\ UNCHANGED <<inputVars, phase, decoderVars>>

EmitFlag ==
  /\ phase = "encode" /\ i < N
  /\ ~HasMatch
  /\ At(Combined, i) = MatchFlag
  /\ IndexPosition
  /\ Emit(<<MatchFlag, 0, 0, 0>>, 1)
  /\ UNCHANGED <<inputVars, phase, decoderVars>>

EmitLiteral ==
  /\ phase = "encode" /\ i < N
  /\ ~HasMatch
  /\ At(Combined, i) # MatchFlag
  /\ IndexPosition
  /\ Emit(<<At(Combined, i)>>, 1)
  /\ UNCHANGED <<inputVars, phase, decoderVars>>

\* encode returns; decode starts from the dictionary.
BeginDecode ==
  /\ phase = "encode" /\ i >= N
  /\ phase' = "decode"
  /\ output' = dictionary
  /\ UNCHANGED <<inputVars, encoderVars, j, start, k, length>>

\* The token lists one fault makes of s: cut short, or with one token changed.
Damaged(s) ==
  {SubSeq(s, 1, n) : n \in 0 .. (Len(s) - 1)}
    \cup {[s EXCEPT ![p] = t] : p \in DOMAIN s, t \in Symbols}

BeginDecodeDamaged ==
  /\ tokens \in Damageable
  /\ phase = "encode" /\ i >= N
  /\ phase' = "decode"
  /\ output' = dictionary
  /\ damaged' = TRUE
  /\ lz' \in Damaged(lz)
  /\ UNCHANGED <<dictionary, tokens, head, i, marks, j, start, k, length>>

(***************************************************************************)
(* Decoding.                                                               *)
(***************************************************************************)

AtGroup == j < Len(lz) /\ At(lz, j) = MatchFlag /\ j + 3 < Len(lz)
GroupDist == At(lz, j + 1) * Byte + At(lz, j + 2)
GroupLen == At(lz, j + 3)
IsFlagGroup == GroupDist = 0 /\ GroupLen = 0
\* Mutant: no upper bound on the distance.
IsCopyGroup_Unbounded == 0 < GroupDist /\ 0 < GroupLen
IsCopyGroup == 0 < GroupDist /\ GroupDist <= Len(output) /\ 0 < GroupLen

DecodeLiteral ==
  /\ phase = "decode" /\ j < Len(lz) /\ ~AtGroup
  /\ output' = Append(output, At(lz, j))
  /\ j' = j + 1
  /\ UNCHANGED <<inputVars, phase, encoderVars, start, k, length>>

DecodeFlag ==
  /\ phase = "decode" /\ AtGroup /\ IsFlagGroup
  /\ output' = Append(output, MatchFlag)
  /\ j' = j + 4
  /\ UNCHANGED <<inputVars, phase, encoderVars, start, k, length>>

DecodeMatch ==
  /\ phase = "decode" /\ AtGroup /\ ~IsFlagGroup /\ IsCopyGroup
  /\ start' = Len(output) - GroupDist
  /\ k' = 0
  /\ length' = GroupLen
  /\ phase' = "copy"
  /\ UNCHANGED <<inputVars, encoderVars, j, output>>

\* One turn of the copy loop: it may read a token this same copy appended.
CopyToken ==
  /\ phase = "copy" /\ k < length
  /\ output' = Append(output, At(output, start + k))
  /\ k' = k + 1
  /\ UNCHANGED <<inputVars, phase, encoderVars, j, start, length>>

\* Mutant: steps over the token behind the group.
EndCopy_LongGroup ==
  /\ phase = "copy" /\ k = length
  /\ phase' = "decode"
  /\ j' = j + 5
  /\ UNCHANGED <<inputVars, encoderVars, output, start, k, length>>

EndCopy ==
  /\ phase = "copy" /\ k = length
  /\ phase' = "decode"
  /\ j' = j + 4
  /\ UNCHANGED <<inputVars, encoderVars, output, start, k, length>>

\* Mutant: forgets a group that has a distance and no length.
RejectGroup_FarOnly ==
  /\ phase = "decode" /\ AtGroup /\ GroupDist > Len(output)
  /\ phase' = "error"
  /\ UNCHANGED <<inputVars, encoderVars, decoderVars>>

RejectGroup ==
  /\ phase = "decode" /\ AtGroup /\ ~IsFlagGroup /\ ~IsCopyGroup
  /\ phase' = "error"
  /\ UNCHANGED <<inputVars, encoderVars, decoderVars>>

EndDecode ==
  /\ phase = "decode" /\ j = Len(lz)
  /\ phase' = "done"
  /\ UNCHANGED <<inputVars, encoderVars, decoderVars>>

EncodeNext == PrimeHead \/ EmitMatch \/ EmitFlag \/ EmitLiteral
              \/ BeginDecode \/ BeginDecodeDamaged
DecodeNext == \/ DecodeLiteral \/ DecodeFlag \/ DecodeMatch \/ CopyToken
              \/ EndCopy \/ RejectGroup \/ EndDecode
Next == EncodeNext \/ DecodeNext

Spec == Init /\ [][Next]_vars
FairSpec == Spec /\ WF_vars(Next)

-----------------------------------------------------------------------------
TypeOK ==
  /\ dictionary \in Dictionaries /\ tokens \in Inputs
  /\ damaged \in BOOLEAN
  /\ phase \in {"prime", "encode", "decode", "copy", "done", "error"}
  /\ head \in [Slots -> -1 .. N]
  /\ i \in 0 .. N
  /\ lz \in Seq(Symbols)
  /\ marks \in Seq([at : Nat, pos : Nat])
  /\ j \in 0 .. Len(lz)
  /\ output \in Seq(Symbols)
  /\ start \in Nat /\ k \in 0 .. length /\ length \in Nat

(***************************************************************************)
(* An entry of the hash index is a position the encoder has passed, whose  *)
(* two tokens hash to that slot.  The encoder reads Combined at prev_pos   *)
(* with no bounds check, and the distance it stores is i - prev_pos: an    *)
(* entry at or after i would give a match on itself, distance 0, which the *)
(* decoder takes for an escaped flag.                                      *)
(***************************************************************************)
HeadSound ==
  \A h \in Slots : head[h] # -1 =>
     /\ head[h] < i /\ head[h] + 1 < N
     /\ SlotAt(head[h]) = h

(***************************************************************************)
(* What the decoder has written is, at every turn of every loop, a prefix  *)
(* of dictionary plus tokens, and all of it when decode returns: in        *)
(* particular a copy that overlaps its own output (distance < length)      *)
(* never reads a token that is not there yet.                              *)
(***************************************************************************)
RoundTrip ==
  ~damaged /\ phase \in {"decode", "copy", "done"} =>
     /\ Len(output) <= N
     /\ output = SubSeq(Combined, 1, Len(output))
     /\ phase = "done" => output = Combined

(***************************************************************************)
(* decode never raises "corrupt LZ stream" on what encode wrote.           *)
(***************************************************************************)
OwnStreamAccepted == phase = "error" => damaged

(***************************************************************************)
(* Whatever happened to the stream, the copy loop reads inside output: an  *)
(* index below 0 would not fail in Python, it would read from the end.     *)
(***************************************************************************)
CopyInBounds ==
  phase = "copy" /\ k < length => 0 <= start /\ start + k < Len(output)

(***************************************************************************)
(* Tokens from a tokenizer never equal the flag.  For those, LZ grows the  *)
(* list by at most a third (a match of 3 costs 4).  The decoder refuses a  *)
(* stream whose num_lz exceeds 2 * original_size + 64, and the LZ list it  *)
(* refuses to read must never be one the encoder can write.                *)
(***************************************************************************)
ExpansionBound ==
  phase = "encode" /\ (\A p \in 0 .. (N - 1) : At(Combined, p) # MatchFlag)
    => 3 * Len(lz) <= 4 * (i - D)

(***************************************************************************)
(* compress and decompress return, damaged stream or not.                  *)
(***************************************************************************)
Terminates == <>(phase \in {"done", "error"})

(***************************************************************************)
(* The codec implements in-order delivery of the tokens: what is visible   *)
(* of it is the decoder's output behind the dictionary, and of a damaged   *)
(* list nothing, since its decoder may raise or return other tokens.       *)
(***************************************************************************)
Delivery == INSTANCE InOrderDelivery WITH
  source <- tokens,
  delivered <- IF damaged THEN tokens ELSE SubSeq(output, D + 1, Len(output))

DeliversTokens == Delivery!FairSpec

=============================================================================
