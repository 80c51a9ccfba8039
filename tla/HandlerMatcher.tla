--------------------------- MODULE HandlerMatcher ---------------------------
(***************************************************************************)
(* How a path is matched against the pattern of a route, and what the route *)
(* parameters are (routing/HandlerMatcher.cpp).                             *)
(*                                                                          *)
(* A path and a pattern are the sequences of their segments, a segment is a *)
(* sequence of characters: "*" and ":" are what they are in a pattern, "?"  *)
(* stands for a character that no parameter's name may have.  A captured    *)
(* text is the sequence of the segments it consists of.                     *)
(***************************************************************************)
EXTENDS Integers, FiniteSetsExt, SequencesExt

CONSTANTS
    Characters, \* what texts are made of, the digits included
    Lookups     \* what is matched: [uri, template], a path as it comes and a pattern as it is
                \* registered, both cut at every "/" (environment)

Digits == <<"0", "1", "2", "3", "4", "5", "6", "7", "8", "9">>

ASSUME CharactersAssumption == Digits \in Seq(Characters)
\* What is cut up has a piece at least.
ASSUME LookupsAssumption ==
    \A l \in Lookups : {l.uri, l.template} \subseteq Seq(Seq(Characters)) \ {<<>>}

VARIABLES uri, template     \* one call: what is matched, and against what

-----------------------------------------------------------------------------
(* Segments *)

IsGlobStar(segment) == segment = <<"*", "*">>
IsGlob(segment) == "*" \in ToSet(segment)
IsParameter(segment) == segment # <<>> /\ segment[1] = ":"
IsNamed(segment) ==
    Len(segment) > 1 /\ segment[1] = ":" /\ ToSet(Tail(segment)) \cap {"*", ":", "?"} = {}

\* trimLeadingDelimiter, trimTrailingDelimiters: one at the front, all at the end
Trimmed(text) ==
    LET inner == IF Len(text) > 1 /\ text[1] = <<>> THEN Tail(text) ELSE text
        filled == {n \in DOMAIN inner : inner[n] # <<>>}
    IN  SubSeq(inner, 1, IF filled = {} THEN 1 ELSE Max(filled))

\* joinPathSegments sets no delimiter as long as it has joined nothing but empty segments.
Joined(segments) ==
    LET filled == {n \in DOMAIN segments : segments[n] # <<>>}
    IN  IF filled = {} THEN <<>> ELSE SubSeq(segments, Min(filled), Len(segments))

\* Mutant of GlobMatches: the text behind a "*" is not tried again further on.
BugGlobGivesUp(segment, pattern) ==
    \E n \in 0..Len(segment) :
        LET star == Min({i \in DOMAIN pattern : pattern[i] = "*"})
        IN  /\ SubSeq(segment, 1, star - 1) = SubSeq(pattern, 1, star - 1)
            /\ n >= star - 1
            /\ SubSeq(segment, n + 1, Len(segment)) = SubSeq(pattern, star + 1, Len(pattern))

\* Where the loop of segmentMatchesGlob is: at character s of the segment and p of the
\* pattern; star and from are the last "*" and where the text it stands for ends (0: no "*"
\* yet).
At(s, p, star, from) == [s |-> s, p |-> p, star |-> star, from |-> from]
GlobPlaces(segment, pattern) ==
    {at \in [s : 1..Len(segment) + 1, p : 1..Len(pattern) + 1,
             star : 0..Len(pattern), from : 0..Len(segment) + 1] :
        at.star < at.p /\ at.from <= at.s}

\* One round of the loop: a "*" is noted, a character goes with its like, and where there is
\* none of these the text of the last "*" becomes longer by one.
Round(segment, pattern, at) ==
    CASE at.p <= Len(pattern) /\ pattern[at.p] = "*" -> At(at.s, at.p + 1, at.p, at.s)
      [] at.p <= Len(pattern) /\ pattern[at.p] # "*" /\ pattern[at.p] = segment[at.s] ->
            At(at.s + 1, at.p + 1, at.star, at.from)
      [] at.p > Len(pattern) \/ pattern[at.p] \notin {"*", segment[at.s]} ->
            At(at.from + 1, at.star + 1, at.star, at.from + 1)

Stuck(segment, pattern, at) ==
    at.star = 0 /\ (at.p > Len(pattern) \/ pattern[at.p] \notin {"*", segment[at.s]})

GlobMatches(segment, pattern) ==
    LET matches[at \in GlobPlaces(segment, pattern)] ==
            IF at.s > Len(segment) THEN \A n \in at.p..Len(pattern) : pattern[n] = "*"
            ELSE ~Stuck(segment, pattern, at) /\ matches[Round(segment, pattern, at)]
    IN  matches[At(1, 1, 0, 0)]

-----------------------------------------------------------------------------
(* Parameters: a set of keys and values *)

Captured == [key : Seq(Characters), value : Seq(Seq(Characters))]
Failure == [matches |-> FALSE, parameters |-> {}]

\* Mutant of Clashes: a second capture with a key takes the place of the first.
BugOverwrites(capturing, parameters, key) == FALSE

\* insertParameter: a key that is there already ends the attempt, unless nobody wants to
\* know the parameters.
Clashes(capturing, parameters, key) == capturing /\ \E c \in parameters : c.key = key
With1(capturing, parameters, key, value) ==
    IF capturing THEN parameters \cup {[key |-> key, value |-> value]} ELSE parameters

\* std::to_string
Ordinal[n \in Nat] ==
    IF n < 10 THEN <<Digits[n + 1]>> ELSE Append(Ordinal[n \div 10], Digits[(n % 10) + 1])

\* matchPathSegments is at segment i of the path and j of the pattern, and has these
\* parameters; so many of them have a number for a key.
Attempts == [i : Nat \ {0}, j : Nat \ {0}, parameters : SUBSET Captured, globs : Nat]
There(i, j, parameters, globs) == [i |-> i, j |-> j, parameters |-> parameters, globs |-> globs]

\* What the segment at j captures, if it takes those of the path before next: what is found
\* behind it, which rest tells.  What is captured is taken back when the rest does not match.
Capture(capturing, rest, at, next, key, value, globs) ==
    IF Clashes(capturing, at.parameters, key) THEN Failure
    ELSE rest[There(next, at.j + 1, With1(capturing, at.parameters, key, value), globs)]

CaptureGlobStar(path, capturing, rest, at, next) ==
    Capture(capturing, rest, at, next, Ordinal[at.globs],
            Joined(SubSeq(path, at.i, next - 1)), at.globs + 1)

\* The first end of a "**" with which the rest matches.
GlobStar(path, capturing, rest, at) ==
    LET ends == {next \in at.i..Len(path) + 1 :
                    CaptureGlobStar(path, capturing, rest, at, next).matches}
    IN  IF ends = {} THEN Failure ELSE CaptureGlobStar(path, capturing, rest, at, Min(ends))

Attempt(path, pattern, capturing, rest, at) ==
    LET segment == pattern[at.j]
        One(key, globs) == Capture(capturing, rest, at, at.i + 1, key, <<path[at.i]>>, globs)
    IN  IF at.j > Len(pattern) THEN
            IF at.i = Len(path) + 1 THEN [matches |-> TRUE, parameters |-> at.parameters] ELSE Failure
        ELSE IF IsGlobStar(segment) THEN GlobStar(path, capturing, rest, at)
        ELSE IF at.i > Len(path) THEN Failure
        ELSE IF IsNamed(segment) THEN
            IF path[at.i] = <<>> THEN Failure ELSE One(Tail(segment), at.globs)
        ELSE IF IsParameter(segment) THEN Failure
        ELSE IF IsGlob(segment) THEN
            IF GlobMatches(path[at.i], segment) THEN One(Ordinal[at.globs], at.globs + 1) ELSE Failure
        ELSE IF segment = path[at.i] THEN rest[There(at.i + 1, at.j + 1, at.parameters, at.globs)]
        ELSE Failure

MatchPathSegments(path, pattern, capturing) ==
    LET found[at \in Attempts] == Attempt(path, pattern, capturing, found, at)
    IN  found[There(1, 1, {}, 0)]

\* matchUriPattern
MatchUri(text, pattern, capturing) ==
    MatchPathSegments(Trimmed(text), Trimmed(pattern), capturing)

\* defaultCheckUriPattern
CheckUriPattern(text, pattern) == MatchUri(text, pattern, FALSE).matches

\* defaultExtractParameters: nothing when the match has failed
Parameters(text, pattern) == MatchUri(text, pattern, TRUE).parameters

-----------------------------------------------------------------------------
(* One call is one behaviour. *)

MatcherInit == \E l \in Lookups : uri = l.uri /\ template = l.template
MatcherNext == UNCHANGED <<uri, template>>
MatcherSpec == MatcherInit /\ [][MatcherNext]_<<uri, template>>

-----------------------------------------------------------------------------
(* What a pattern means *)

\* The ways to cut a sequence into n pieces: piece k is what lies between two cuts.
Cuts(n, length) ==
    {cut \in [0..n -> 0..length] :
        cut[0] = 0 /\ cut[n] = length /\ \A k \in 1..n : cut[k - 1] <= cut[k]}
Piece(s, cut, k) == SubSeq(s, cut[k - 1] + 1, cut[k])

MeansSegment(segment, pattern) ==
    \E cut \in Cuts(Len(pattern), Len(segment)) :
        \A k \in DOMAIN pattern : pattern[k] = "*" \/ Piece(segment, cut, k) = <<pattern[k]>>

MeansPiece(piece, segment) ==
    CASE IsGlobStar(segment) -> TRUE
      [] IsNamed(segment) -> Len(piece) = 1 /\ piece[1] # <<>>
      [] IsParameter(segment) /\ ~IsNamed(segment) -> FALSE
      [] OTHER -> Len(piece) = 1 /\ MeansSegment(piece[1], segment)

Means(path, pattern) ==
    \E cut \in Cuts(Len(pattern), Len(path)) :
        \A k \in DOMAIN pattern : MeansPiece(Piece(path, cut, k), pattern[k])

\* The segments of a pattern that capture, and the key that each has
Captures(pattern) ==
    {j \in DOMAIN pattern : IsNamed(pattern[j]) \/ (IsGlob(pattern[j]) /\ ~IsParameter(pattern[j]))}
Globs(pattern, j) == Cardinality({n \in Captures(pattern) : n < j /\ ~IsNamed(pattern[n])})
Key(pattern, j) == IF IsNamed(pattern[j]) THEN Tail(pattern[j]) ELSE Ordinal[Globs(pattern, j)]
Keys(pattern) == [j \in Captures(pattern) |-> Key(pattern, j)]

\* A pattern with the captured texts put in for its captures
Text(pattern, parameters, j) ==
    IF j \in Captures(pattern) THEN (CHOOSE c \in parameters : c.key = Key(pattern, j)).value
    ELSE <<pattern[j]>>
Substituted(pattern, parameters) ==
    FlattenSeq([j \in DOMAIN pattern |-> Text(pattern, parameters, j)])

-----------------------------------------------------------------------------
(* Properties *)

\* A part of MatchIsExact
MatchIsAsMeant == CheckUriPattern(uri, template) <=> Means(Trimmed(uri), Trimmed(template))

\* A part of MatchIsExact
CapturesGiveThePath ==
    LET path == Trimmed(uri)
        pattern == Trimmed(template)
        found == MatchUri(uri, template, TRUE)
    IN  /\ found.matches <=> CheckUriPattern(uri, template) /\ IsInjective(Keys(pattern))
        /\ found.matches =>
            /\ {c.key : c \in found.parameters} = Range(Keys(pattern))
            /\ (\A i \in DOMAIN path : path[i] # <<>>) => Substituted(pattern, found.parameters) = path
        /\ ~found.matches => Parameters(uri, template) = {}

\* A path matches if and only if there is a way to cut it up along the pattern: neither
\* the loop that returns to the last "*" of a segment, nor the search for the end of a "**",
\* nor the cut at the ends of the path misses a way or finds one that is none.  The
\* parameters of a route are a second match, made when the request has been routed: it
\* finds what the first one promised unless two captures share a key, every capture of the
\* pattern has its value, and the values put into the pattern give the path back (but for
\* empty segments, which a "**" drops at its front).
MatchIsExact == MatchIsAsMeant /\ CapturesGiveThePath
=============================================================================
