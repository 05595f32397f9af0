-------------------------------- MODULE Log --------------------------------
(***************************************************************************)
(* Log and LogLine: the mask chooses the level of a Log instance when it   *)
(* is made; a LogLine takes a level, puts its header when it is made and   *)
(* goes to the output when it is destroyed.  Any thread logs lines.        *)
(***************************************************************************)
EXTENDS Naturals, Sequences, SequencesExt

CONSTANTS
  Threads,
  Names,           \* of Log instances: sequences of letters
  Masks,           \* that setLogMask() is called with
  HeaderLengths,   \* of the headers that are logged
  MaxMasks,        \* bound: calls of setLogMask()
  MaxLines         \* bound: lines logged

VARIABLES
  logLevel,           \* the current level, of getLogLevel()
  logMaskItems,
  accepted,           \* history: the items set since the last mask refused
  mLevel,             \* of each Log instance; Unmade before
  sAlignmentLength,
  line,               \* of each thread: its LogLine
  sMutex,             \* "none" or the thread that holds it
  raced,              \* history: a length was assigned beside another thread
  pc, masks, lines

config  == <<logLevel, logMaskItems, accepted, mLevel, masks>>
writing == <<sAlignmentLength, line, sMutex, raced, pc, lines>>
vars    == <<config, writing>>

\* logDISABLE, logERROR, logWARNING, logINFO, logDEBUG
LogLevel == 0..4
Unmade   == 5
-----------------------------------------------------------------------------
(* The mask.  level of an item is the set of the levels that its text after  *)
(* the colon, if any, abbreviates.                                           *)

MaskItem == [name : Seq(STRING), star : BOOLEAN, colon : BOOLEAN, level : SUBSET LogLevel]

\* A mask has at least one item: its text is split at the commas.
ASSUME LogAssumption ==
  /\ Masks \subseteq Seq(MaskItem) \ {<<>>}
  /\ HeaderLengths \subseteq Nat
  /\ MaxMasks \in Nat /\ MaxLines \in Nat

Empty == [name |-> <<>>, star |-> FALSE, colon |-> FALSE, level |-> {}]

\* Nothing after the last comma is no item, and an empty mask has none.
SplitMask(mask) == IF Last(mask) = Empty THEN Front(mask) ELSE mask

\* The first that the text, "" included, is a prefix of
LogLevelByString(levels) == CHOOSE l \in levels : \A k \in levels : l <= k

Parse(item) == [name |-> item.name, star |-> item.star,
                level |-> IF item.colon THEN LogLevelByString(item.level) ELSE 4]

\* Mutant: the items before the bad one stay
KeepGoodItems(mask) ==
  LET items == SplitMask(mask)
      bad   == {i \in DOMAIN items : items[i].colon /\ items[i].level = {}}
      good  == {i \in DOMAIN items : \A j \in bad : i < j}
  IN  /\ logMaskItems' = logMaskItems \o [i \in good |-> Parse(items[i])]
      /\ accepted' = IF bad = {} THEN accepted \o items ELSE <<>>

\* Items are added to those of the masks set before; an item with a level that
\* is none takes all away.
SetItems(mask) ==
  LET items == SplitMask(mask)
  IN  IF \E i \in DOMAIN items : items[i].colon /\ items[i].level = {}
        THEN logMaskItems' = <<>> /\ accepted' = <<>>
        ELSE /\ logMaskItems' = logMaskItems \o [i \in DOMAIN items |-> Parse(items[i])]
             /\ accepted' = accepted \o items

SetLogMask ==
  /\ masks < MaxMasks /\ masks' = masks + 1
  /\ \E mask \in Masks : SetItems(mask)
  /\ UNCHANGED <<logLevel, mLevel, writing>>

SetLogLevel ==
  /\ logLevel' \in {0, 3, 4} \ {logLevel}
  /\ UNCHANGED <<logMaskItems, accepted, mLevel, masks, writing>>

\* An item with an empty name asks for the last letter of none, which no build
\* finds to be '*'.
Matches(item, name) ==
  IF item.star THEN IsPrefix(item.name, name) ELSE item.name = name

\* Mutant: the first item that matches decides
LevelByFirst(name) ==
  FoldRight(LAMBDA item, l : IF Matches(item, name) THEN item.level ELSE l, logMaskItems, logLevel)

\* setLogLevelByMask(): the loop over the items, the level after i of them
LevelByMask(name) ==
  LET level[i \in 0..Len(logMaskItems)] ==
        IF i = 0 THEN logLevel
        ELSE IF Matches(logMaskItems[i], name) THEN logMaskItems[i].level
        ELSE level[i - 1]
  IN  level[Len(logMaskItems)]

\* The constructor of Log
MakeLog(name) ==
  /\ mLevel[name] = Unmade
  /\ mLevel' = [mLevel EXCEPT ![name] = LevelByMask(name)]
  /\ UNCHANGED <<logLevel, logMaskItems, accepted, masks, writing>>
-----------------------------------------------------------------------------
(* A line *)

Goto(t, l) == pc' = [pc EXCEPT ![t] = l]
Line       == [length : HeaderLengths \union {0}, shown : BOOLEAN, threw : BOOLEAN]
NoLine     == [length |-> 0, shown |-> FALSE, threw |-> FALSE]

\* LogLine::get() with a Log, or with a name and the current level: both
\* levels are kept, of which putHeader() and ~LogLine() ask the same.
Get(t) ==
  /\ pc[t] = "idle" /\ lines < MaxLines
  /\ lines' = lines + 1
  /\ \E length \in HeaderLengths, mCurrentLevel \in 1..4,
        mSetLevel \in ({logLevel} \union {mLevel[n] : n \in Names}) \ {Unmade} :
       line' = [line EXCEPT ![t] = [NoLine EXCEPT !.length = length,
                                      !.shown = mCurrentLevel <= mSetLevel /\ mSetLevel > 0]]
  /\ Goto(t, "header")
  /\ UNCHANGED <<config, sAlignmentLength, sMutex, raced>>

CompareWith(t, longer) ==
  /\ pc[t] = "header"
  /\ Goto(t, IF ~line[t].shown THEN "text" ELSE IF longer THEN "assign" ELSE "pad")
  /\ UNCHANGED <<config, sAlignmentLength, line, sMutex, raced, lines>>

\* Mutant: the comparison turned round
CompareLess(t) == CompareWith(t, line[t].length < sAlignmentLength)

\* putHeader(): the comparison with the longest header so far,
Compare(t) == CompareWith(t, line[t].length > sAlignmentLength)

\* the assignment, that nothing keeps together with it,
Assign(t) ==
  /\ pc[t] = "assign"
  /\ sAlignmentLength' = line[t].length
  /\ raced' = (raced \/ \E u \in Threads \ {t} : pc[u] \in {"assign", "pad"})
  /\ Goto(t, "pad")
  /\ UNCHANGED <<config, line, sMutex, lines>>

\* and the difference: std::string throws if it has fallen below zero, and
\* the destructor writes what the line has by then.
Pad(t) ==
  /\ pc[t] = "pad"
  /\ line' = [line EXCEPT ![t].threw = sAlignmentLength < line[t].length]
  /\ Goto(t, "text")
  /\ UNCHANGED <<config, sAlignmentLength, sMutex, raced, lines>>

\* ~LogLine(): what was put in the stream is written, or dropped,
End(t) ==
  /\ pc[t] = "text"
  /\ IF line[t].shown
       THEN Goto(t, "lock") /\ UNCHANGED line
       ELSE Goto(t, "idle") /\ line' = [line EXCEPT ![t] = NoLine]
  /\ UNCHANGED <<config, sAlignmentLength, sMutex, raced, lines>>

\* the text
Write(t) ==
  /\ pc[t] = "lock" /\ sMutex = "none"
  /\ sMutex' = t /\ Goto(t, "endl")
  /\ UNCHANGED <<config, sAlignmentLength, line, raced, lines>>

\* and then the end of the line.
WriteEndl(t) ==
  /\ pc[t] = "endl"
  /\ sMutex' = "none"
  /\ IF line[t].threw THEN Goto(t, "threw") /\ UNCHANGED line
                      ELSE Goto(t, "idle") /\ line' = [line EXCEPT ![t] = NoLine]
  /\ UNCHANGED <<config, sAlignmentLength, raced, lines>>

LogALine(t) == Get(t) \/ Compare(t) \/ Assign(t) \/ Pad(t) \/ End(t) \/ Write(t) \/ WriteEndl(t)
-----------------------------------------------------------------------------
Init ==
  /\ logLevel = 3 /\ logMaskItems = <<>> /\ accepted = <<>>
  /\ mLevel = [n \in Names |-> Unmade]
  /\ sAlignmentLength = 0 /\ sMutex = "none" /\ raced = FALSE
  /\ line = [t \in Threads |-> NoLine]
  /\ pc = [t \in Threads |-> "idle"] /\ masks = 0 /\ lines = 0

Next ==
  \/ SetLogMask \/ SetLogLevel
  \/ \E n \in Names : MakeLog(n)
  \/ \E t \in Threads : LogALine(t)

Spec == Init /\ [][Next]_vars
-----------------------------------------------------------------------------
(* Properties *)

\* Every variable has its type, and every item a level.
TypeOK ==
  /\ logLevel \in LogLevel /\ mLevel \in [Names -> LogLevel \union {Unmade}]
  /\ Len(logMaskItems) = Len(accepted)
  /\ \A i \in DOMAIN logMaskItems : logMaskItems[i].level \in LogLevel
  /\ sAlignmentLength \in HeaderLengths \union {0} /\ raced \in BOOLEAN
  /\ line \in [Threads -> Line]
  /\ masks \in 0..MaxMasks /\ lines \in 0..MaxLines
  /\ pc \in [Threads -> {"idle", "header", "assign", "pad", "text", "lock", "endl", "threw"}]
  /\ sMutex \in Threads \union {"none"}

Hits(n) == {i \in DOMAIN accepted : Matches(accepted[i], n)}
Decided(n) ==
  IF Hits(n) = {} THEN logLevel
  ELSE Parse(accepted[CHOOSE i \in Hits(n) : \A j \in Hits(n) : j <= i]).level

\* The level of a Log is the one that the last item with its name, of all the
\* masks set since one was refused, gives it, and else the current level.
MaskDecides == [][\A n \in Names : mLevel'[n] # mLevel[n] => mLevel'[n] = Decided(n)]_vars

\* A line throws on its padding (the size_t difference falls below zero) only if
\* two threads were at the length at a time.
OnlyRaceThrows == \A t \in Threads : line[t].threw => raced
=============================================================================
