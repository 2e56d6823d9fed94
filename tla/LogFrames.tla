----------------------------- MODULE LogFrames -----------------------------
(***************************************************************************)
(* How router.go turns the multiplexed log of Docker into events: the loop *)
(* of handleContainerLogs reads what has arrived, up to a buffer, cuts it  *)
(* at newlines, strips an eight-byte header from what looks like one, and  *)
(* sends what is left as JSON.  A cell is a byte: of a header "low", at    *)
(* most MaxLow, or "size", more; NL, a newline; or one of the bytes of a   *)
(* character of the text.  Docker sends each line with a header: the type  *)
(* of the stream and zeros, which are low, and in the last SizeLen bytes   *)
(* its length, any of whose digits may be a newline.  The text is UTF-8    *)
(* without control characters; a read may end within a character.          *)
(***************************************************************************)
EXTENDS Naturals, Lists

CONSTANTS
  HeaderLen,   \* bytes of a header (8)
  SizeLen,     \* those of them that tell the length of the line (4)
  Base,        \* values of a byte (256)
  Newline,     \* the byte that is a newline (10)
  MaxLow,      \* the largest type of a stream (2)
  MaxWidth,    \* bytes of a character, at most (4)
  BufLen,      \* bytes of buf (4096)
  Logs         \* the logs to read: sequences of line lengths, newline counted

NL == [kind |-> "nl", at |-> 0]
Low == [kind |-> "low", at |-> 0]
Size == [kind |-> "size", at |-> 0]

\* U+FFFD, which stands for a byte that is not of a whole character.
Lost == [kind |-> "lost", at |-> 0]

\* The bytes of the text carry their place in the log.
Text(p) == [kind |-> "text", at |-> p]

Cell(byte) == IF byte = Newline THEN NL ELSE IF byte <= MaxLow THEN Low ELSE Size

\* The header of a line of length n: the length comes with its high bytes first.
Header(n) ==
  [i \in 1 .. HeaderLen |->
     IF i <= HeaderLen - SizeLen THEN Low ELSE Cell((n \div Base^(HeaderLen - i)) % Base)]

\* Where the lines of a log begin and end: the k-th after the end of the one before.
Ends(log) == Sums([k \in DOMAIN log |-> HeaderLen + log[k]])
LineAt(log, p) == CHOOSE k \in DOMAIN log : Ends(log)[k - 1] < p /\ p <= Ends(log)[k]

Cells(log) ==
  [p \in 1 .. Ends(log)[Len(log)] |->
     LET k == LineAt(log, p)
         o == p - Ends(log)[k - 1]
     IN  IF o <= HeaderLen THEN Header(log[k])[o]
         ELSE IF p < Ends(log)[k] THEN Text(p) ELSE NL]

\* strings.Split(s, "\n") without the empty pieces: where they begin and end.
Firsts(s) == {i \in DOMAIN s : s[i] # NL /\ (i = 1 \/ s[i - 1] = NL)}
LastOf(s, i) == CHOOSE j \in i .. Len(s) : /\ j = Len(s) \/ s[j + 1] = NL
                                           /\ \A m \in i .. j : s[m] # NL
Pieces(s) ==
  [k \in 1 .. Cardinality(Firsts(s)) |->
     SubSeq(s, Nth(Firsts(s), k), LastOf(s, Nth(Firsts(s), k)))]

\* Mutant: every long piece loses its first bytes.
stripAlways(line) ==
  IF Len(line) > HeaderLen THEN SubSeq(line, HeaderLen + 1, Len(line)) ELSE line

stripDockerLogHeader(line) ==
  IF Len(line) > HeaderLen /\ line[1] = Low
  THEN SubSeq(line, HeaderLen + 1, Len(line)) ELSE line

\* What the loop sends of what was read, before it is JSON; the lines that
\* handleContainerLogsBatch writes, which does not make them JSON.
Stripped(s) == [k \in DOMAIN Pieces(s) |-> stripDockerLogHeader(Pieces(s)[k])]

IsText(c) == c.kind = "text"

\* The places in the log of the bytes of the text that are in s.
Places(s) == {s[j].at : j \in {i \in DOMAIN s : IsText(s[i])}}

\* UTF-8: which byte of its character, from 0, is at each place of the text.
Encodings(log) ==
  LET T == Places(Cells(log))
  IN  {e \in [T -> 0 .. MaxWidth - 1] :
         \A p \in T : \A i \in 0 .. e[p] : p - i \in T /\ e[p - i] = e[p] - i}

VARIABLES
  log,    \* the log Docker sends
  octet,  \* its encoding
  pos,    \* bytes of it read so far
  events, \* data of the events written, as the page's JSON.parse gives it back
  reads   \* history: the places where a read ended

vars == <<log, octet, pos, events, reads>>

\* The places of the bytes of the character that has one at p.
CharOf(p) == {q \in DOMAIN octet : q - octet[q] = p - octet[p]}

\* json.Marshal, and JSON.parse in the page: every byte that is not of a whole
\* character of the piece becomes U+FFFD.  What is left of a header is junk
\* before and after.
jsonEscapeSSE(piece) ==
  [k \in DOMAIN piece |->
     IF IsText(piece[k]) /\ ~(CharOf(piece[k].at) \subseteq Places(piece))
     THEN Lost ELSE piece[k]]

Escaped(pieces) == [k \in DOMAIN pieces |-> jsonEscapeSSE(pieces[k])]

Init ==
  /\ log \in Logs /\ octet \in Encodings(log)
  /\ pos = 0 /\ events = <<>> /\ reads = {}

\* n, err := reader.Read(buf), and the loop over its lines
Read ==
  \E n \in 1 .. BufLen :
    /\ pos + n <= Len(Cells(log))
    /\ events' = events \o Escaped(Stripped(SubSeq(Cells(log), pos + 1, pos + n)))
    /\ pos' = pos + n /\ reads' = reads \cup {pos + n}
    /\ UNCHANGED <<log, octet>>

Next == Read
Spec == Init /\ [][Next]_vars

-----------------------------------------------------------------------------
TypeOK ==
  /\ log \in Logs /\ octet \in Encodings(log)
  /\ pos \in 0 .. Len(Cells(log)) /\ reads \subseteq 0 .. pos

Start(k) == Ends(log)[k - 1]
End(k) == Ends(log)[k]
InHeader(p) == \E k \in DOMAIN log : p > Start(k) /\ p < Start(k) + HeaderLen

\* A header that reads as a newline with another header after it: that of a line
\* of 2560 to 2562 bytes, for one.
Deceives(n) == \E i \in 2 .. HeaderLen : Header(n)[i - 1] = NL /\ Header(n)[i] = Low

\* The places in the events that hold text: the a-th cell of the i-th event.
TextPlaces ==
  {x \in (DOMAIN events) \X (1 .. pos) :
     x[2] \in DOMAIN events[x[1]] /\ IsText(events[x[1]][x[2]])}

\* The text in the events is text that was read, in its order and each byte once;
\* a character comes whole, in one event, or not at all; and every character comes
\* of which no read ends before its last byte, unless a read ended inside a header
\* or a header has a newline in it: what begins with the rest of a header is taken
\* for a header of its own, and loses text.  router.go:196-207, 239-244, 258-264.
TextKept ==
  LET got  == {events[x[1]][x[2]].at : x \in TextPlaces}
      sent == {p \in 1 .. pos : IsText(Cells(log)[p])}
  IN  /\ got \subseteq sent
      /\ \A x, y \in TextPlaces :
           (x[1] < y[1] \/ (x[1] = y[1] /\ x[2] < y[2]))
             => events[x[1]][x[2]].at < events[y[1]][y[2]].at
      /\ \A x \in TextPlaces : CharOf(events[x[1]][x[2]].at) \subseteq Places(events[x[1]])
      /\ (/\ \A p \in reads : ~InHeader(p)
          /\ \A k \in DOMAIN log : ~Deceives(log[k])) =>
           \A p \in sent : p \in got \/ \E q \in reads : {q, q + 1} \subseteq CharOf(p)

\* When every read ends with a line, the viewer gets exactly the lines the batch
\* handler would give for the same log, if it takes what is no character for U+FFFD
\* as well; and those are the text of the lines but for blank lines and those whose
\* header has a newline in it.  router.go:196-207, 246-264.
AgreesWithBatch ==
  (\A p \in reads : \E k \in DOMAIN log : p = End(k)) =>
    /\ events = Escaped(Stripped(SubSeq(Cells(log), 1, pos)))
    /\ (\A k \in DOMAIN log : log[k] # 1 /\ \A i \in 1 .. HeaderLen : Header(log[k])[i] # NL) =>
         \A k \in 0 .. Len(log) : pos = End(k) =>
           events = [i \in 1 .. k |-> SubSeq(Cells(log), Start(i) + HeaderLen + 1, End(i) - 1)]
=============================================================================
