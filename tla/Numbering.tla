------------------------------ MODULE Numbering ------------------------------
(****************************************************************************)
(* Document numbering (services/numbering.go, services/po_number.go).       *)
(*                                                                          *)
(* Every purchase order and delivery challan gets its number from           *)
(* NextDocNumber: the caller's request first reads the project's numbering  *)
(* settings, then one transaction reads and bumps (or creates) the row of   *)
(* number_sequences for (project, sequence type, financial year), and only  *)
(* later does the caller save the document that carries the number.  The    *)
(* three steps of different requests interleave, a save may fail, the       *)
(* process may crash between them, and the settings may be edited at any    *)
(* moment.                                                                  *)
(*                                                                          *)
(* A text is a sequence of symbols: a token such as "{SEQ}" is one symbol,  *)
(* every other symbol is one character.  A token that only comes about when *)
(* two other texts are joined in the middle of it is left out.              *)
(****************************************************************************)
EXTENDS Integers, FiniteSets, SequencesExt

CONSTANTS
    Requests,   \* requests that need a document number, each used once
    Projects,   \* project records
    SeqTypes,   \* sequence types in use
    Dates,      \* document dates, [year, month] records
    Symbols,    \* symbols of the texts a user can store: tokens and characters
    Forms,      \* what the settings form can store: start numbers and wordings
    References  \* reference numbers a project can have

ASSUME SeqTypesAssumption == SeqTypes \subseteq {"po", "tdc", "odc", "stdc"}
ASSUME DatesAssumption == Dates \subseteq [year : Nat, month : 1 .. 12]
ASSUME SymbolsAssumption ==
    {"{PREFIX}", "{SEP}", "{TYPE}", "{FY}", "{SEQ}", "-"} \subseteq Symbols

Text == Seq(Symbols)

\* The wording a settings group stores: *_prefix, *_separator, *_number_format
\* and *_seq_padding.
Style == [prefix : Text, separator : Text, format : Text, padding : Nat]

ASSUME ReferencesAssumption == References \subseteq Text

\* Purchase orders use the po_* settings, all challans share the dc_* ones.
ConfigGroupForType(t) == IF t = "po" THEN "po" ELSE "dc"
Groups == {ConfigGroupForType(t) : t \in SeqTypes}

\* formInt keeps every start number and padding that is stored at 1 or more.
ASSUME FormsAssumption ==
    Forms \subseteq [start : [SeqTypes -> Nat \ {0}],
                    style : [Groups -> {st \in Style : st.padding > 0}]]

\* The Indian financial year, April to March, as two two-digit years.
GetFinancialYear(d) ==
    LET startYear == IF d.month < 4 THEN d.year - 1 ELSE d.year
    IN  <<startYear % 100, (startYear + 1) % 100>>

Years == {GetFinancialYear(d) : d \in Dates}

\* The unique row of number_sequences that a request draws from.
Keys == Projects \X SeqTypes \X Years
NoKey == <<>>

\* The decimal digits of a number, most significant first, and the same with
\* zeros in front up to a width (%0*d).
Digit == <<"0", "1", "2", "3", "4", "5", "6", "7", "8", "9">>
Digits[n \in Nat] ==
    IF n < 10 THEN <<Digit[n + 1]>> ELSE Append(Digits[n \div 10], Digit[(n % 10) + 1])
Padded(n, width) == [i \in 1 .. width - Len(Digits[n]) |-> "0"] \o Digits[n]

\* Mutant of TypeCode: all challans show the code of their settings group.
GroupCode(t) == IF t = "po" THEN <<"P", "O">> ELSE <<"D", "C">>

\* The code a number shows for its sequence type.
TypeCode(t) == CASE t = "po"   -> <<"P", "O">>
                 [] t = "tdc"  -> <<"T", "D", "C">>
                 [] t = "odc"  -> <<"O", "D", "C">>
                 [] t = "stdc" -> <<"S", "T", "D", "C">>

\* strings.ReplaceAll: a text in the place of every occurrence of a token.
Substitute(text, token, by) ==
    FlattenSeq([i \in DOMAIN text |-> IF text[i] = token THEN by ELSE <<text[i]>>])

\* The tokens are replaced one after the other, so a token in the prefix or the
\* separator is replaced as well when its turn comes later, and one in the
\* project's reference number stays as it is.
FormatDocNumber(style, k, n, ref) ==
    LET prefixed  == Substitute(style.format, "{PREFIX}", style.prefix)
        separated == Substitute(prefixed, "{SEP}", style.separator)
        typed     == Substitute(separated, "{TYPE}", TypeCode(k[2]))
        dated     == Substitute(typed, "{FY}", Padded(k[3][1], 2) \o Padded(k[3][2], 2))
        numbered  == Substitute(dated, "{SEQ}", Padded(n, style.padding))
    IN  Substitute(numbered, "{PROJECT_REF}", ref)

\* What NextDocNumber reads in place of an empty format, separator or padding.
DefaultFormat == <<"{PREFIX}", "{SEP}", "{TYPE}", "{SEP}", "{FY}", "{SEP}", "{SEQ}">>
Defaulted(style) ==
    [prefix    |-> style.prefix,
     separator |-> IF style.separator = <<>> THEN <<"-">> ELSE style.separator,
     format    |-> IF style.format = <<>> THEN DefaultFormat ELSE style.format,
     padding   |-> IF style.padding = 0 THEN 3 ELSE style.padding]

VARIABLES
    seqStart,   \* projects.*_seq_start_*, by project and sequence type
    style,      \* the wording stored in projects, by project and settings group
    reference,  \* projects.reference_number
    last,       \* number_sequences.last_number by key, 0 when there is no row
    pc,         \* where each request stands
    key,        \* the sequence the request draws from
    cfg,        \* what the request read of the project: [start, style, ref]
    seq         \* the number the request was handed, 0 before that

vars == <<seqStart, style, reference, last, pc, key, cfg, seq>>

\* A start of 0 (settings never saved) counts as 1.
EffectiveStart(p, t) == IF seqStart[<<p, t>>] = 0 THEN 1 ELSE seqStart[<<p, t>>]

\* A project's settings before the form is ever saved.
Unset == [prefix |-> <<>>, separator |-> <<>>, format |-> <<>>, padding |-> 0]

Settings == [start : Nat, style : Style, ref : Text]
NoSettings == [start |-> 0, style |-> Unset, ref |-> <<>>]

Init ==
    /\ seqStart = [pt \in Projects \X SeqTypes |-> 0]
    /\ style = [pg \in Projects \X Groups |-> Unset]
    /\ reference \in [Projects -> References]
    /\ last = [k \in Keys |-> 0]
    /\ pc = [r \in Requests |-> "idle"]
    /\ key = [r \in Requests |-> NoKey]
    /\ cfg = [r \in Requests |-> NoSettings]
    /\ seq = [r \in Requests |-> 0]

-----------------------------------------------------------------------------
\* HandleProjectSettingsSave: one Save writes the start numbers and the wordings
\* of both groups.
SaveSettings(p) ==
    \E f \in Forms :
        /\ seqStart' = [pt \in Projects \X SeqTypes |->
                            IF pt[1] = p THEN f.start[pt[2]] ELSE seqStart[pt]]
        /\ style' = [pg \in Projects \X Groups |->
                            IF pg[1] = p THEN f.style[pg[2]] ELSE style[pg]]
        /\ UNCHANGED <<reference, last, pc, key, cfg, seq>>

\* HandleProjectUpdate: the project's own form changes its reference number.
EditProject(p) ==
    /\ \E ref \in References : reference' = [reference EXCEPT ![p] = ref]
    /\ UNCHANGED <<seqStart, style, last, pc, key, cfg, seq>>

\* NextDocNumber up to its transaction: pick the sequence, read the settings.
ReadSettings(r, p, t, d) ==
    /\ pc[r] = "idle"
    /\ pc' = [pc EXCEPT ![r] = "configured"]
    /\ key' = [key EXCEPT ![r] = <<p, t, GetFinancialYear(d)>>]
    /\ cfg' = [cfg EXCEPT ![r] =
                  [start |-> EffectiveStart(p, t),
                   style |-> Defaulted(style[<<p, ConfigGroupForType(t)>>]),
                   ref   |-> reference[p]]]
    /\ UNCHANGED <<seqStart, style, reference, last, seq>>

\* Mutants of NextNum.  The start number applies whenever it was changed:
NextNumRestarts(k, start) ==
    IF last[k] = 0 \/ start > 1 THEN start ELSE last[k] + 1
\* A raised start number makes a running sequence jump to it:
NextNumJumps(k, start) == IF last[k] < start THEN start ELSE last[k] + 1
\* The row is returned before it is incremented:
NextNumStale(k, start) == IF last[k] = 0 THEN start ELSE last[k]

\* The number the transaction computes from the sequence row it reads.
NextNum(k, start) == IF last[k] = 0 THEN start ELSE last[k] + 1

\* The transaction of NextDocNumber: read the row, bump or create it, commit.
DrawNumber(r) ==
    /\ pc[r] = "configured"
    /\ LET n == NextNum(key[r], cfg[r].start) IN
        /\ last' = [last EXCEPT ![key[r]] = n]
        /\ seq' = [seq EXCEPT ![r] = n]
    /\ pc' = [pc EXCEPT ![r] = "numbered"]
    /\ UNCHANGED <<seqStart, style, reference, key, cfg>>

\* The caller saves its purchase order or challan with the number.
SaveDocument(r) ==
    /\ pc[r] = "numbered"
    /\ pc' = [pc EXCEPT ![r] = "saved"]
    /\ UNCHANGED <<seqStart, style, reference, last, key, cfg, seq>>

\* The read, the transaction or the document's save returns an error, and the
\* handler gives up: a number already drawn is never put back.
Abort(r) ==
    /\ pc[r] \in {"configured", "numbered"}
    /\ pc' = [pc EXCEPT ![r] = "lost"]
    /\ UNCHANGED <<seqStart, style, reference, last, key, cfg, seq>>

\* The process dies: every request in flight is gone, the database stays.
Crash ==
    /\ \E r \in Requests : pc[r] \in {"configured", "numbered"}
    /\ pc' = [r \in Requests |->
                IF pc[r] \in {"configured", "numbered"} THEN "lost" ELSE pc[r]]
    /\ UNCHANGED <<seqStart, style, reference, last, key, cfg, seq>>

\* A draft document is deleted: the sequence row does not move.
DeleteDocument(r) ==
    /\ pc[r] = "saved"
    /\ pc' = [pc EXCEPT ![r] = "deleted"]
    /\ UNCHANGED <<seqStart, style, reference, last, key, cfg, seq>>

Next ==
    \/ \E p \in Projects : SaveSettings(p) \/ EditProject(p)
    \/ \E r \in Requests, p \in Projects, t \in SeqTypes, d \in Dates :
          ReadSettings(r, p, t, d)
    \/ \E r \in Requests :
          DrawNumber(r) \/ SaveDocument(r) \/ Abort(r) \/ DeleteDocument(r)
    \/ Crash

Spec == Init /\ [][Next]_vars

-----------------------------------------------------------------------------
\* The requests that were ever handed a number, whatever became of it.
Drawn == {r \in Requests : seq[r] # 0}

\* Type correctness: sequence rows hold naturals, and a request that left
\* "idle" carries a key and the settings NextDocNumber read for it.
TypeOK ==
    /\ seqStart \in [Projects \X SeqTypes -> Nat]
    /\ style \in [Projects \X Groups -> Style]
    /\ reference \in [Projects -> Text]
    /\ last \in [Keys -> Nat]
    /\ pc \in [Requests -> {"idle", "configured", "numbered", "saved",
                            "lost", "deleted"}]
    /\ key \in [Requests -> Keys \cup {NoKey}]
    /\ cfg \in [Requests -> Settings]
    /\ seq \in [Requests -> Nat]
    /\ \A r \in Requests :
        /\ pc[r] # "idle" => key[r] \in Keys /\ cfg[r].start > 0
        /\ pc[r] \in {"idle", "configured"} => seq[r] = 0
        /\ pc[r] \in {"numbered", "saved", "deleted"} => seq[r] # 0

\* No number is handed out twice in one sequence, even when the first holder
\* failed, crashed or was deleted, and whatever happened to the start number
\* in between: the transaction of NextDocNumber never gives a number back.
UniqueNumbers ==
    \A r, s \in Drawn : r # s /\ key[r] = key[s] => seq[r] # seq[s]

\* A sequence has no holes: between the first number handed out and
\* last_number every number went to some request, so a number missing from
\* the documents was burned by a failed request or a deleted draft, not
\* skipped by NextDocNumber.
NoHoles ==
    \A r \in Drawn : \A n \in seq[r] .. last[key[r]] :
        \E s \in Drawn : key[s] = key[r] /\ seq[s] = n

\* last_number is exactly the greatest number handed out (0 without a row):
\* changing the settings or losing a request never moves it.
LastIsGreatest ==
    /\ \A r \in Drawn : seq[r] <= last[key[r]]
    /\ \A k \in Keys : last[k] # 0 =>
            \E r \in Drawn : key[r] = k /\ seq[r] = last[k]

\* The text a request's document carries.
DocNumber(r) == FormatDocNumber(cfg[r].style, key[r], seq[r], cfg[r].ref)

\* The requests read the same prefix, separator, format and reference number.
SameWording(r, s) ==
    /\ \A f \in {"prefix", "separator", "format"} : cfg[r].style[f] = cfg[s].style[f]
    /\ cfg[r].ref = cfg[s].ref

Shows(r, token) == \E i \in DOMAIN cfg[r].style.format : cfg[r].style.format[i] = token

\* Two documents of one project worded alike never show the same text, across
\* its sequences and years too, provided the format shows {SEQ}, and {TYPE} and
\* {FY} where these differ: no literal, no neighbouring digits and no change of
\* the padding makes FormatDocNumber print one text for two numbers.
UniqueTexts ==
    \A r, s \in Drawn :
        /\ r # s
        /\ key[r][1] = key[s][1]
        /\ SameWording(r, s)
        /\ Shows(r, "{SEQ}")
        /\ key[r][2] # key[s][2] => Shows(r, "{TYPE}")
        /\ key[r][3] # key[s][3] => Shows(r, "{FY}")
        => DocNumber(r) # DocNumber(s)

\* What does not hold: when the wording changes in between, two numbers of one
\* sequence may show one text (prefix 2 behind number 1, then prefix 1 before
\* number 2), and neither NextDocNumber nor an index of the collections refuses it.
TextsStayUnique ==
    \A r, s \in Drawn :
        /\ r # s
        /\ key[r] = key[s]
        /\ Shows(r, "{SEQ}") /\ Shows(s, "{SEQ}")
        => DocNumber(r) # DocNumber(s)

\* Numbers only grow: a request that is handed a number gets one above every
\* number its sequence handed out before, and no step lowers last_number.
NeverRewinds ==
    [][/\ \A k \in Keys : last'[k] >= last[k]
       /\ \A r \in Requests : seq'[r] # seq[r] =>
            \A s \in Drawn : key[s] = key'[r] => seq'[r] > seq[s]]_vars
=============================================================================
