----------------------------- MODULE SongProofs -----------------------------
(***************************************************************************)
(* The texts of a song for any quizzes, answers, genres, numbers of clips  *)
(* and tasks.  What the form says is stored (Stored); every request made   *)
(* of the stored text says it (Faithful); the jobs of the demo and of the  *)
(* song, their versions and their clips are told apart (DemoHeld,          *)
(* SongAsked, SongDelivered).                                              *)
(***************************************************************************)
EXTENDS Song, TLAPS, FiniteSetTheorems, SequenceTheorems

-----------------------------------------------------------------------------
(* Texts.                                                                  *)

Fact == StoryKeys \cup {"TITLE", "EXTRA", "GENRE", "VOCAL", "STORY"}
Text == [facts : SUBSET Fact, words : Words, version : 1..2, silent : BOOLEAN]
Tag == Genres \cup {"voice", "instrumental", "russian lyrics", "russian pop", "heartfelt"}

\* What a new text says.
LEMMA SaysIs ==
  ASSUME NEW facts \in SUBSET Fact, NEW w \in Words, NEW silent \in BOOLEAN
  PROVE  /\ Says(facts, w, silent) \in Text /\ Says(facts, w, silent).facts = facts
         /\ Says(facts, w, silent).words = w /\ Says(facts, w, silent).version = 1
         /\ Says(facts, w, silent).silent = silent
  BY DEF Says, Text

\* Quoting nothing is a blank text.
LEMMA QuoteIs ==
  ASSUME NEW w \in Words
  PROVE  /\ Quote(w) \in Text /\ Quote(w).words = w /\ (Quote(w) = Blank <=> w = Absent)
         /\ ~Quote(w).silent
         /\ Blank \in Text /\ Blank.words = Absent /\ Blank.facts = {} /\ ~Blank.silent
  <1>1. Absent \in Words /\ {} \in SUBSET Fact /\ FALSE \in BOOLEAN  BY DEF Words
  <1>2. /\ Quote(w) \in Text /\ Quote(w).words = w /\ ~Quote(w).silent
        /\ Blank \in Text /\ Blank.words = Absent /\ Blank.facts = {} /\ ~Blank.silent
    BY <1>1, SaysIs DEF Quote, Blank
  <1>3. w = Absent => Quote(w) = Blank  BY DEF Quote, Blank
  <1> QED  BY <1>2, <1>3

\* A plain text has no sections.
LEMMA DecodePlain ==
  ASSUME NEW t
  PROVE  /\ Plain(t).plain = t
         /\ Decode(Plain(t)) = [ok |-> FALSE, tags |-> {}, description |-> Blank,
                                lyrics |-> Blank]
  <1>1. DOMAIN Plain(t).sections = {} /\ Plain(t).plain = t  BY DEF Plain
  <1>2. \A name, x : SectionOf(Plain(t), name, x) = x  BY <1>1 DEF SectionOf
  <1> QED  BY <1>1, <1>2 DEF Decode

\* What is encoded is decoded, though empty sections are not written.
LEMMA DecodeEncode ==
  ASSUME NEW tags, NEW d, NEW l
  PROVE  LET enc == Decode(Encode(tags, d, l))
         IN /\ enc.ok <=> (tags # {} \/ d # Blank \/ l # Blank)
            /\ enc.tags = tags /\ enc.description = d /\ enc.lyrics = l
  <1>1. CASE tags = {} /\ d = Blank /\ l = Blank
    <2>1. Encode(tags, d, l) = Plain(Blank)  BY <1>1 DEF Encode, NoText
    <2> QED  BY <1>1, <2>1, DecodePlain
  <1>2. CASE ~(tags = {} /\ d = Blank /\ l = Blank)
    <2> DEFINE value == [TAGS |-> tags, DESC |-> d, LYRICS |-> l]
               written == {n \in DOMAIN value :
                             \/ n = "TAGS" /\ tags # {}
                             \/ n = "DESC" /\ (d # Blank \/ l = Blank)
                             \/ n = "LYRICS" /\ l # Blank}
               text == Encode(tags, d, l)
    <2>1. text.sections = [n \in written |-> value[n]]  BY <1>2 DEF Encode
    <2>2. DOMAIN value = {"TAGS", "DESC", "LYRICS"}  OBVIOUS
    <2>3. /\ "TAGS" \in written <=> tags # {}
          /\ "DESC" \in written <=> (d # Blank \/ l = Blank)
          /\ "LYRICS" \in written <=> l # Blank
      BY <2>2
    <2>4. value["TAGS"] = tags /\ value["DESC"] = d /\ value["LYRICS"] = l  OBVIOUS
    <2> HIDE DEF written, value, text
    <2>5. SectionOf(text, "TAGS", {}) = tags  BY <2>1, <2>3, <2>4 DEF SectionOf
    <2>6. SectionOf(text, "DESC", Blank) = d  BY <2>1, <2>3, <2>4 DEF SectionOf
    <2>7. SectionOf(text, "LYRICS", Blank) = l  BY <2>1, <2>3, <2>4 DEF SectionOf
    <2>8. /\ Decode(text).ok <=> (tags # {} \/ d # Blank \/ l # Blank)
          /\ Decode(text).tags = tags /\ Decode(text).description = d
          /\ Decode(text).lyrics = l
      BY <2>5, <2>6, <2>7 DEF Decode
    <2> QED  BY <2>8 DEF text
  <1> QED  BY <1>1, <1>2

-----------------------------------------------------------------------------
(* What the form says is what is stored.                                   *)

RawTags == Decode(RawText).tags
RawLyrics == Decode(RawText).lyrics
RawIdea == IF Decode(RawText).ok THEN Decode(RawText).description ELSE RawText.plain

\* The text of an order says in every part what the customer has asked for.
Stored ==
  /\ Style = RawTags /\ RawTags \subseteq Tag
  /\ RawIdea \in Text /\ RawIdea.words = Absent /\ RawIdea.version = 1
  /\ Told \subseteq RawIdea.facts
  /\ WordsGiven \in Words
  /\ IF InstrumentalGiven
       THEN IsInstrumental(RawTags) /\ RawLyrics = Blank /\ RawIdea.silent
       ELSE ~IsInstrumental(RawTags) /\ RawLyrics = Quote(WordsGiven) /\ ~RawIdea.silent

\* The tags are never empty, and demand an instrumental song where the customer does.
LEMMA TagsIs ==
  ASSUME NEW a \in Answers
  PROVE  /\ StyleTags(a) \subseteq Tag /\ StyleTags(a) # {}
         /\ IsInstrumental(StyleTags(a)) <=> "instrumental" \in {a.vocal, a.genre}
  <1>1. a.vocal \in {"none", "voice", "instrumental"} /\ a.genre \in Genres \cup {"none", "own"}
    BY DEF Answers, Vocals, Absent
  <1> QED  BY <1>1 DEF StyleTags, IsInstrumental, Tag, Absent

\* What is told of the quiz is in the description.
LEMMA DescriptionTells ==
  ASSUME NEW q, NEW a \in Answers, NEW instrumental \in BOOLEAN,
         \A s \in q.template : s.stock \in BOOLEAN
  PROVE  LET d == FormatQuizDescription(Substituted(q.template, a), a, instrumental)
         IN /\ d \in Text /\ d # Blank
            /\ d.words = Absent /\ d.version = 1 /\ d.silent = instrumental
            /\ ToldByQuiz(q, a) \subseteq d.facts
  <1> DEFINE sentences == Substituted(q.template, a)
             facts == {"TITLE"} \cup FactsIn(Cleaned(sentences), a)
                      \cup (IF a.extra THEN {"EXTRA"} ELSE {})
                      \cup (IF a.genre = "own" THEN {"GENRE"} ELSE {})
                      \cup (IF a.vocal # Absent /\ ~instrumental THEN {"VOCAL"} ELSE {})
             d == FormatQuizDescription(sentences, a, instrumental)
  <1>1. d = Says(facts, Absent, instrumental)
    BY DEF FormatQuizDescription
  <1>2. ToldByQuiz(q, a) \subseteq facts
    <2> SUFFICES ASSUME NEW k \in ToldByQuiz(q, a), ~(a.extra /\ k = "EXTRA")
                 PROVE  k \in FactsIn(Cleaned(sentences), a)
      OBVIOUS
    <2>1. PICK s \in q.template : k \in s.keys /\ InFull(s, a)  BY DEF ToldByQuiz
    <2>2. s \in sentences  BY <2>1 DEF Substituted, Filled, InFull
    <2>3. s \in Cleaned(sentences)
      <3> HIDE DEF sentences
      <3> QED  BY <2>1, <2>2 DEF Cleaned, InFull
    <2>4. k \in StoryKeys /\ a.story[k] = "given"  BY DEF ToldByQuiz
    <2> QED  BY <2>1, <2>3, <2>4 DEF FactsIn
  <1>3. FactsIn(Cleaned(sentences), a) \subseteq StoryKeys  BY DEF FactsIn
  <1>4. facts \in SUBSET Fact /\ facts # {}  BY <1>3 DEF Fact
  <1> HIDE DEF d, facts
  <1>5. /\ d \in Text /\ d.facts = facts /\ d.words = Absent /\ d.version = 1
        /\ d.silent = instrumental /\ Blank.facts = {}
    BY <1>1, <1>4, SaysIs, QuoteIs DEF Words
  <1>6. /\ d \in Text /\ d # Blank
        /\ d.words = Absent /\ d.version = 1 /\ d.silent = instrumental
        /\ ToldByQuiz(q, a) \subseteq d.facts
    BY <1>2, <1>4, <1>5
  <1> QED  BY <1>6 DEF d

\* What a stored text says, with the tags it is sung to.
TextSays(text, tags, idea, lyrics) ==
  /\ Decode(text).tags = tags /\ Decode(text).lyrics = lyrics
  /\ IF Decode(text).ok THEN Decode(text).description = idea ELSE text.plain = idea

\* BuildFinalPrompt writes what the quiz was answered.
LEMMA PromptSays ==
  ASSUME NEW q \in Quizzes, NEW a \in Answers
  PROVE  LET text == BuildFinalPrompt(q, a)
             instrumental == "instrumental" \in {a.vocal, a.genre}
             d == FormatQuizDescription(Substituted(q.template, a), a, instrumental)
         IN /\ TextSays(text, StyleTags(a), d, OwnLyrics(a.words, instrumental))
            /\ Decode(text).ok /\ text # NoText
  <1> DEFINE instrumental == "instrumental" \in {a.vocal, a.genre}
             d == FormatQuizDescription(Substituted(q.template, a), a, instrumental)
             l == OwnLyrics(a.words, instrumental)
             text == BuildFinalPrompt(q, a)
  <1>1. StyleTags(a) # {} /\ (IsInstrumental(StyleTags(a)) <=> instrumental)  BY TagsIs
  <1>2. (IsInstrumental(StyleTags(a)) \/ a.vocal = "instrumental") = instrumental
    BY <1>1
  <1>3. text = Encode(StyleTags(a), d, l)
    BY <1>2 DEF BuildFinalPrompt
  <1> HIDE DEF text, d, l, instrumental
  <1>4. /\ Decode(text).ok /\ Decode(text).tags = StyleTags(a)
        /\ Decode(text).description = d /\ Decode(text).lyrics = l
    BY <1>1, <1>3, DecodeEncode
  <1>5. ~Decode(NoText).ok  BY DecodePlain DEF NoText
  <1>6. /\ TextSays(text, StyleTags(a), d, l) /\ Decode(text).ok
        /\ text # NoText
    BY <1>4, <1>5 DEF TextSays
  <1> QED  BY <1>6 DEF text, d, l, instrumental

\* The words of the customer, if the song has words.
LEMMA OwnLyricsIs ==
  ASSUME NEW w \in Words, NEW instrumental \in BOOLEAN
  PROVE  /\ instrumental => OwnLyrics(w, instrumental) = Blank
         /\ ~instrumental => OwnLyrics(w, instrumental) = Quote(w)
  BY DEF OwnLyrics

\* CreateOrder has stored what was sent.
Written ==
  \/ /\ form \in ByQuiz
     /\ sunoPrompt = BuildFinalPrompt(form.quiz, form.answers) /\ brief = PlainBrief
  \/ form \in ByConstructor /\ sunoPrompt = NoText /\ brief = ConstructorBrief(form)
  \/ form \in ByBrief /\ sunoPrompt = NoText /\ brief = PlainBrief

\* The answers to a quiz are stored as its prompt.
LEMMA QuizStored ==
  ASSUME form \in ByQuiz, sunoPrompt = BuildFinalPrompt(form.quiz, form.answers),
         brief = PlainBrief
  PROVE  Stored
  <1> DEFINE q == form.quiz
             a == form.answers
             instrumental == "instrumental" \in {a.vocal, a.genre}
             d == FormatQuizDescription(Substituted(q.template, a), a, instrumental)
  <1>1. form.by = "quiz" /\ q \in Quizzes /\ a \in Answers  BY DEF ByQuiz
  <1>2. /\ InstrumentalGiven = instrumental /\ WordsGiven = a.words /\ a.words \in Words
        /\ instrumental \in BOOLEAN
    BY <1>1 DEF InstrumentalGiven, WordsGiven, Answers
  <1>3. \A s \in q.template : s.stock \in BOOLEAN  BY <1>1, SongQuizzes DEF IsQuiz
  <1>4. /\ TextSays(sunoPrompt, StyleTags(a), d, OwnLyrics(a.words, instrumental))
        /\ Decode(sunoPrompt).ok /\ sunoPrompt # NoText
    BY <1>1, PromptSays
  <1>5. /\ d \in Text /\ d.words = Absent /\ d.version = 1 /\ d.silent = instrumental
        /\ Told \subseteq d.facts
    <2>1. Told = ToldByQuiz(q, a)  BY <1>1 DEF Told
    <2> HIDE DEF instrumental, q, a
    <2> QED  BY <1>1, <1>2, <1>3, <2>1, DescriptionTells
  <1>6. RawText = sunoPrompt  BY <1>4 DEF RawText
  <1>7. /\ RawTags = StyleTags(a) /\ RawIdea = d
        /\ RawLyrics = OwnLyrics(a.words, instrumental)
    BY <1>4, <1>6 DEF TextSays, RawTags, RawIdea, RawLyrics
  <1>8. /\ StyleTags(a) \subseteq Tag /\ StyleTags(a) # {}
        /\ IsInstrumental(StyleTags(a)) <=> instrumental
    BY <1>1, TagsIs
  <1>9. Style = RawTags  BY <1>4, <1>7, <1>8 DEF Style, TextSays
  <1> HIDE DEF d, instrumental, a, q
  <1>10. OwnLyrics(a.words, instrumental) = IF instrumental THEN Blank ELSE Quote(a.words)
    BY DEF OwnLyrics
  <1> QED  BY <1>2, <1>5, <1>7, <1>8, <1>9, <1>10 DEF Stored

\* The constructor of the site is stored as its brief.
LEMMA ConstructorStored ==
  ASSUME form \in ByConstructor, sunoPrompt = NoText, brief = ConstructorBrief(form)
  PROVE  Stored
  <1> DEFINE instrumental == form.vocal = "instrumental"
             facts == {"STORY"} \cup (IF instrumental THEN {} ELSE {"VOCAL"})
             tags == IF instrumental THEN {form.vocal} ELSE {form.vocal, "russian lyrics"}
             d == Says(facts, Absent, instrumental)
             l == OwnLyrics(form.words, instrumental)
  <1>1. form.by = "constructor" /\ form.words \in Words /\ form.vocal \in {"voice", "instrumental"}
    BY DEF ByConstructor
  <1>2. InstrumentalGiven = instrumental /\ WordsGiven = form.words /\ Told = {"STORY"}
    BY <1>1 DEF InstrumentalGiven, WordsGiven, Told
  <1>3. brief = Encode(tags, d, l)  BY DEF ConstructorBrief
  <1>4. RawText = brief  BY DEF RawText
  <1>5. tags # {} /\ tags \subseteq Tag /\ (IsInstrumental(tags) <=> instrumental)
    BY <1>1 DEF Tag, IsInstrumental
  <1>6. /\ facts \in SUBSET Fact /\ Absent \in Words /\ instrumental \in BOOLEAN
        /\ "STORY" \in facts
    BY DEF Fact, Words
  <1> HIDE DEF tags, facts, instrumental
  <1>7. /\ d \in Text /\ d.facts = facts /\ d.words = Absent /\ d.version = 1
        /\ d.silent = instrumental
    BY <1>6, SaysIs
  <1> HIDE DEF d, l
  <1>8. /\ Decode(brief).ok /\ Decode(brief).tags = tags
        /\ Decode(brief).description = d /\ Decode(brief).lyrics = l
    BY <1>3, <1>5, DecodeEncode
  <1>9. RawTags = tags /\ RawIdea = d /\ RawLyrics = l
    BY <1>4, <1>8 DEF RawTags, RawIdea, RawLyrics
  <1>10. Style = RawTags  BY <1>8, <1>9, DecodePlain DEF Style, NoText
  <1> QED  BY <1>1, <1>2, <1>5, <1>6, <1>7, <1>9, <1>10, OwnLyricsIs DEF Stored, l

\* A plain brief is stored as it is.
LEMMA BriefStored ==
  ASSUME form \in ByBrief, sunoPrompt = NoText, brief = PlainBrief
  PROVE  Stored
  <1> DEFINE d == Says({"STORY"}, Absent, FALSE)
  <1>1. form.by = "brief"  BY DEF ByBrief
  <1>2. ~InstrumentalGiven /\ WordsGiven = Absent /\ Told = {"STORY"}
    BY <1>1 DEF InstrumentalGiven, WordsGiven, Told
  <1>3. brief = Plain(d) /\ RawText = brief  BY DEF PlainBrief, RawText
  <1>4. /\ {"STORY"} \in SUBSET Fact /\ Absent \in Words /\ FALSE \in BOOLEAN
    BY DEF Fact, Words
  <1>5. d \in Text /\ d.facts = {"STORY"} /\ d.words = Absent /\ d.version = 1 /\ ~d.silent
    BY <1>4, SaysIs
  <1> HIDE DEF d
  <1>6. brief.plain = d
        /\ Decode(brief) = [ok |-> FALSE, tags |-> {}, description |-> Blank, lyrics |-> Blank]
    BY <1>3, DecodePlain
  <1>7. RawTags = {} /\ RawIdea = d /\ RawLyrics = Blank
    BY <1>3, <1>6 DEF RawTags, RawIdea, RawLyrics
  <1>8. Style = {}  BY <1>6, DecodePlain DEF Style, NoText
  <1>9. Blank = Quote(Absent)  BY DEF Blank, Quote
  <1> QED  BY <1>2, <1>4, <1>5, <1>7, <1>8, <1>9 DEF Stored, IsInstrumental

\* What CreateOrder has written says what the form says.
LEMMA WrittenIsStored ==
  ASSUME Written
  PROVE  Stored
  BY QuizStored, ConstructorStored, BriefStored DEF Written

-----------------------------------------------------------------------------
(* Requests.                                                               *)

Input == [tags : SUBSET Tag, instrumental : BOOLEAN, lyrics : Text, description : Text]

\* What a request must say of the order.
Faithful(in) ==
  /\ WordsGiven = Absent \/ InstrumentalGiven =>
       in.lyrics = Blank /\ Told \subseteq in.description.facts
  /\ IF InstrumentalGiven
       THEN /\ in.instrumental /\ IsInstrumental(in.tags) /\ in.lyrics = Blank
            /\ in.description.silent /\ in.description.words = Absent
       ELSE /\ ~in.instrumental /\ ~in.description.silent
            /\ WordsGiven = "song" => in.lyrics = Quote("song")
            /\ WordsGiven = "phrase" => in.lyrics = Blank /\ in.description.words = "phrase"

\* A text made of the stored one says as much, in its version; but beside words of the
\* customer's the story may be gone.
IdeaOf(text) == IF Decode(text).ok THEN Decode(text).description ELSE text.plain
BriefSays(text, v) ==
  /\ Decode(text).tags = RawTags /\ Decode(text).lyrics = RawLyrics /\ IdeaOf(text) \in Text
  /\ IF RawLyrics = Blank
       THEN /\ IdeaOf(text).facts = RawIdea.facts /\ IdeaOf(text).words = Absent
            /\ IdeaOf(text).silent = RawIdea.silent /\ IdeaOf(text).version = v
       ELSE ~IdeaOf(text).silent

\* The stored text is a first version of itself.
LEMMA RawSays ==
  ASSUME Stored
  PROVE  BriefSays(RawText, 1)
  <1>1. IdeaOf(RawText) = RawIdea  BY DEF IdeaOf, RawIdea
  <1> QED  BY <1>1 DEF Stored, BriefSays, RawTags, RawLyrics

\* buildGenerationBriefs makes two texts of it.
LEMMA BriefsSay ==
  ASSUME Stored
  PROVE  /\ BuildGenerationBriefs = <<BuildGenerationBriefs[1], BuildGenerationBriefs[2]>>
         /\ \A v \in 1..2 : BriefSays(BuildGenerationBriefs[v], v)
  <1> DEFINE enc == Decode(RawText)
             second == [RawIdea EXCEPT !.version = 2]
             words == Encode(enc.tags, Blank, enc.lyrics)
             tagged(idea) == Encode(enc.tags, idea, Blank)
             briefs == BuildGenerationBriefs
  <1>1. /\ RawIdea \in Text /\ RawIdea.version = 1 /\ RawIdea.words = Absent
        /\ enc.tags = RawTags /\ enc.lyrics = RawLyrics
    BY DEF Stored, RawTags, RawLyrics
  <1>2. /\ second \in Text /\ second.version = 2 /\ second.words = Absent
        /\ second.facts = RawIdea.facts /\ second.silent = RawIdea.silent
    BY <1>1 DEF Text
  <1>3. enc.lyrics # Blank => enc.ok  BY DEF Decode
  <1>4. briefs = IF enc.ok /\ enc.lyrics # Blank THEN <<words, words>>
                 ELSE IF enc.tags # {} THEN <<tagged(RawIdea), tagged(second)>>
                 ELSE <<Plain(RawIdea), Plain(second)>>
    BY DEF BuildGenerationBriefs, Briefs, RawIdea
  <1>5. ASSUME NEW x, NEW y, BriefSays(x, 1), BriefSays(y, 2)
        PROVE  /\ <<x, y>> = <<<<x, y>>[1], <<x, y>>[2]>>
               /\ \A v \in 1..2 : BriefSays(<<x, y>>[v], v)
    <2>1. <<x, y>>[1] = x /\ <<x, y>>[2] = y  OBVIOUS
    <2>2. \A v \in 1..2 : v = 1 \/ v = 2  OBVIOUS
    <2> QED  BY <1>5, <2>1, <2>2
  <1>6. CASE enc.lyrics # Blank
    <2>1. briefs = <<words, words>>  BY <1>3, <1>4, <1>6
    <2>2. /\ Decode(words).ok /\ Decode(words).tags = RawTags
          /\ Decode(words).description = Blank /\ Decode(words).lyrics = RawLyrics
      <3> HIDE DEF enc
      <3> QED  BY <1>1, <1>6, DecodeEncode
    <2>3. Blank \in Text /\ ~Blank.silent  BY QuoteIs DEF Words
    <2> HIDE DEF words
    <2>4. IdeaOf(words) = Blank  BY <2>2 DEF IdeaOf
    <2>5. \A v \in 1..2 : BriefSays(words, v)  BY <1>1, <1>6, <2>2, <2>3, <2>4 DEF BriefSays
    <2>6. BriefSays(words, 1) /\ BriefSays(words, 2)  BY <2>5
    <2> QED  BY <1>5, <2>1, <2>6
  <1>7. ASSUME NEW idea \in {RawIdea, second}, enc.lyrics = Blank
        PROVE  /\ BriefSays(Plain(idea), idea.version) \/ enc.tags # {}
               /\ BriefSays(tagged(idea), idea.version) \/ enc.tags = {}
    <2>1. /\ Decode(Plain(idea)) = [ok |-> FALSE, tags |-> {}, description |-> Blank,
                                    lyrics |-> Blank]
          /\ Plain(idea).plain = idea
      BY DecodePlain
    <2>2. enc.tags # {} =>
            /\ Decode(tagged(idea)).ok /\ Decode(tagged(idea)).tags = RawTags
            /\ Decode(tagged(idea)).description = idea /\ Decode(tagged(idea)).lyrics = Blank
      BY <1>1, DecodeEncode
    <2>3. /\ idea \in Text /\ idea.words = Absent /\ idea.facts = RawIdea.facts
          /\ idea.silent = RawIdea.silent
      BY <1>1, <1>2
    <2> HIDE DEF tagged, second
    <2>4. IdeaOf(Plain(idea)) = idea /\ (enc.tags # {} => IdeaOf(tagged(idea)) = idea)
      BY <2>1, <2>2 DEF IdeaOf
    <2> QED  BY <1>1, <1>7, <2>1, <2>2, <2>3, <2>4 DEF BriefSays
  <1>8. CASE enc.lyrics = Blank
    <2>1. briefs = IF enc.tags # {} THEN <<tagged(RawIdea), tagged(second)>>
                   ELSE <<Plain(RawIdea), Plain(second)>>
      BY <1>4, <1>8
    <2>2. CASE enc.tags # {}
      <3>1. BriefSays(tagged(RawIdea), 1) /\ BriefSays(tagged(second), 2)
        <4> HIDE DEF tagged, second, enc
        <4> QED  BY <1>1, <1>2, <1>7, <1>8, <2>2
      <3> QED  BY <1>5, <2>1, <2>2, <3>1
    <2>3. CASE enc.tags = {}
      <3>1. BriefSays(Plain(RawIdea), 1) /\ BriefSays(Plain(second), 2)
        <4> HIDE DEF second, enc
        <4> QED  BY <1>1, <1>2, <1>7, <1>8, <2>3
      <3> QED  BY <1>5, <2>1, <2>3, <3>1
    <2> QED  BY <2>2, <2>3
  <1> QED  BY <1>6, <1>8

\* ResolveMusicInput keeps what a text says, sung or described.
LEMMA ResolveSays ==
  ASSUME Stored, NEW b, NEW v \in 1..2, BriefSays(b, v)
  PROVE  LET in == Resolve(b, Style, IsInstrumental(Style))
         IN /\ in \in Input /\ Faithful(in)
            /\ WordsGiven = Absent => in.description.version = v
  <1> DEFINE idea == IdeaOf(b)
             silent == InstrumentalGiven
             in == Resolve(b, Style, IsInstrumental(Style))
  <1>1. /\ Style = RawTags /\ RawTags \in SUBSET Tag /\ Decode(b).tags = RawTags
        /\ Decode(b).lyrics = RawLyrics /\ idea \in Text
        /\ IsInstrumental(RawTags) \in BOOLEAN
    BY DEF Stored, BriefSays, IsInstrumental
  <1>2. in = IF RawLyrics # Blank
               THEN IF IsComplete(RawLyrics)
                      THEN Sing(RawTags, IsInstrumental(RawTags), RawLyrics)
                      ELSE Describe(RawTags, IsInstrumental(RawTags), Weave(idea, RawLyrics))
             ELSE IF Decode(b).ok \/ ~IsStructured(idea)
               THEN Describe(RawTags, IsInstrumental(RawTags), idea)
             ELSE Sing(RawTags, IsInstrumental(RawTags), idea)
    BY <1>1 DEF Resolve, IdeaOf
  <1>3. WordsGiven \in Words /\ (RawLyrics # Blank => RawLyrics = Quote(WordsGiven))
    BY DEF Stored
  <1>4. RawLyrics # Blank => /\ ~InstrumentalGiven /\ WordsGiven # Absent
                             /\ ~IsInstrumental(RawTags) /\ ~idea.silent
    BY QuoteIs DEF Stored, BriefSays
  <1>5. RawLyrics = Blank => InstrumentalGiven \/ WordsGiven = Absent
    BY QuoteIs DEF Stored
  <1> HIDE DEF in, idea
  <1>6. CASE RawLyrics # Blank /\ WordsGiven = "song"
    <2>1. RawLyrics = Quote("song") /\ RawLyrics \in Text /\ RawLyrics.words = "song"
      BY <1>3, <1>6, QuoteIs
    <2>2. in = MusicInput(RawTags, IsInstrumental(RawTags), RawLyrics, Blank)
      BY <1>2, <1>6, <2>1 DEF IsComplete, Sing
    <2>3. Blank \in Text /\ ~Blank.silent  BY <1>3, QuoteIs
    <2> QED  BY <1>1, <1>4, <1>6, <2>1, <2>2, <2>3 DEF MusicInput, Input, Faithful, in
  <1>7. CASE RawLyrics # Blank /\ WordsGiven = "phrase"
    <2>1. RawLyrics.words = "phrase" /\ Blank \in Text  BY <1>3, <1>7, QuoteIs
    <2>2. in = MusicInput(RawTags, IsInstrumental(RawTags), Blank, Weave(idea, RawLyrics))
      BY <1>2, <1>7, <2>1 DEF IsComplete, Describe
    <2>3. /\ Weave(idea, RawLyrics) \in Text /\ Weave(idea, RawLyrics).words = "phrase"
          /\ Weave(idea, RawLyrics).silent = idea.silent
      BY <1>1, <2>1 DEF Weave, Text, Words
    <2> QED  BY <1>1, <1>4, <1>7, <2>1, <2>2, <2>3 DEF MusicInput, Input, Faithful, in
  <1>8. CASE RawLyrics = Blank
    <2>1. /\ idea.words = Absent /\ idea.facts = RawIdea.facts /\ idea.version = v
          /\ idea.silent = RawIdea.silent /\ Told \subseteq idea.facts
      BY <1>8 DEF BriefSays, Stored, idea
    <2>2. in = MusicInput(RawTags, IsInstrumental(RawTags), Blank, idea)
      BY <1>2, <1>8, <2>1 DEF IsStructured, Describe, Absent
    <2>3. Blank \in Text  BY <1>3, QuoteIs
    <2>4. IsInstrumental(RawTags) <=> InstrumentalGiven  BY DEF Stored
    <2>5. idea.silent <=> InstrumentalGiven  BY <2>1 DEF Stored
    <2> QED  BY <1>1, <1>3, <1>5, <1>8, <2>1, <2>2, <2>3, <2>4, <2>5
             DEF MusicInput, Input, Faithful, Words, in, Absent
  <1> QED  BY <1>3, <1>4, <1>6, <1>7, <1>8 DEF Words

-----------------------------------------------------------------------------
(* The jobs of the demo and of the song.                                   *)

\* The demo is one job, of the stored text.
LEMMA DemoJobs ==
  ASSUME Stored
  PROVE  LET jobs == Jobs(DemoRequest)
         IN /\ Len(jobs) = 1 /\ DOMAIN jobs = 1..1
            /\ jobs[1] \in Input /\ Faithful(jobs[1])
            /\ WordsGiven = Absent => jobs[1].description.version = 1
  <1> DEFINE in == Resolve(RawText, Style, IsInstrumental(Style))
  <1>1. BriefSays(RawText, 1)  BY RawSays
  <1>2. in \in Input /\ Faithful(in) /\ (WordsGiven = Absent => in.description.version = 1)
    <2>1. 1 \in 1..2  OBVIOUS
    <2> QED  BY <1>1, <2>1, ResolveSays
  <1>3. /\ DemoRequest.briefs = <<RawText>> /\ DemoRequest.style = Style
        /\ DemoRequest.count = 2
    BY DEF DemoRequest, MusicGenerationRequest, clipsPerTask
  <1>4. TasksFor(2) = 1  BY DEF TasksFor, clipsPerTask
  <1> HIDE DEF in
  <1>5. Len(DemoRequest.briefs) = 1 /\ DemoRequest.briefs[1] = RawText  BY <1>3
  <1>6. Jobs(DemoRequest) = [i \in 1..1 |-> in]
    BY <1>3, <1>4, <1>5 DEF Jobs, in, DefaultLyricVariantCount
  <1>7. /\ Len(Jobs(DemoRequest)) = 1 /\ DOMAIN Jobs(DemoRequest) = 1..1
        /\ Jobs(DemoRequest)[1] = in
    BY <1>6
  <1> QED  BY <1>2, <1>7

\* The song is two jobs, one of each text, or with a demo of two clips one job of the
\* second text.
LEMMA SongJobs ==
  ASSUME Stored, Len(demoClips) \in Nat
  PROVE  LET jobs == Jobs(SongRequest)
         IN /\ Len(jobs) \in 1..2 /\ DOMAIN jobs = 1..Len(jobs)
            /\ \A i \in DOMAIN jobs : jobs[i] \in Input /\ Faithful(jobs[i])
            /\ Len(demoClips) = 0 => Len(jobs) = 2
            /\ Len(demoClips) = 2 => Len(jobs) = 1
            /\ WordsGiven = Absent =>
                 /\ Len(demoClips) = 0 => \A i \in 1..2 : jobs[i].description.version = i
                 /\ Len(demoClips) = 2 => jobs[1].description.version = 2
  <1> DEFINE in(v) == Resolve(BuildGenerationBriefs[v], Style, IsInstrumental(Style))
             n == Len(demoClips)
             jobs == Jobs(SongRequest)
             Goal ==
               /\ Len(jobs) \in 1..2 /\ DOMAIN jobs = 1..Len(jobs)
               /\ \A i \in DOMAIN jobs : jobs[i] \in Input /\ Faithful(jobs[i])
               /\ n = 0 => Len(jobs) = 2
               /\ n = 2 => Len(jobs) = 1
               /\ WordsGiven = Absent =>
                    /\ n = 0 => \A i \in 1..2 : jobs[i].description.version = i
                    /\ n = 2 => jobs[1].description.version = 2
  <1>1. \A v \in 1..2 : /\ in(v) \in Input /\ Faithful(in(v))
                        /\ WordsGiven = Absent => in(v).description.version = v
    BY BriefsSay, ResolveSays
  <1>2. BuildGenerationBriefs = <<BuildGenerationBriefs[1], BuildGenerationBriefs[2]>>
    BY BriefsSay
  <1>3. Len(BuildGenerationBriefs) = 2 /\ Last(BuildGenerationBriefs) = BuildGenerationBriefs[2]
    BY <1>2 DEF Last
  <1>4. CASE n \in 1..3
    <2>1. /\ SongRequest.briefs = <<BuildGenerationBriefs[2]>> /\ SongRequest.style = Style
          /\ SongRequest.count = 4 - n
      BY <1>3, <1>4 DEF SongRequest, MusicGenerationRequest, DefaultTrackCount
    <2>2. TasksFor(4 - n) \in 1..2 /\ (n = 2 => TasksFor(4 - n) = 1)
      <3> HIDE DEF n
      <3>1. 4 - n \in 1..3  BY <1>4
      <3>2. n = 2 => 4 - n = 2  OBVIOUS
      <3>3. TasksFor(3) = 2 /\ TasksFor(2) = 1 /\ TasksFor(1) = 1  BY DEF TasksFor, clipsPerTask
      <3>4. TasksFor(4 - n) = 1 \/ TasksFor(4 - n) = 2  BY <3>1, <3>3
      <3>5. n = 2 => TasksFor(4 - n) = 1  BY <3>2, <3>3
      <3> QED  BY <3>4, <3>5
    <2>3. Len(SongRequest.briefs) = 1 /\ SongRequest.briefs[1] = BuildGenerationBriefs[2]
      BY <2>1
    <2> HIDE DEF n
    <2>4. jobs = [i \in 1..TasksFor(4 - n) |-> in(2)]
      BY <2>1, <2>3 DEF Jobs, DefaultLyricVariantCount
    <2> HIDE DEF jobs, in
    <2>5. Len(jobs) = TasksFor(4 - n) /\ \A i \in DOMAIN jobs : jobs[i] = in(2)
      BY <2>2, <2>4
    <2>6. Len(jobs) \in 1..2 /\ DOMAIN jobs = 1..Len(jobs)  BY <2>2, <2>4, <2>5
    <2>7. 1 \in DOMAIN jobs  BY <2>6
    <2>8. /\ in(2) \in Input /\ Faithful(in(2))
          /\ WordsGiven = Absent => in(2).description.version = 2
      <3>1. 2 \in 1..2  OBVIOUS
      <3> QED  BY <1>1, <3>1
    <2>9. n # 0  BY <1>4
    <2>10. Goal  BY <2>2, <2>5, <2>6, <2>7, <2>8, <2>9
    <2> QED  BY <2>10 DEF jobs, n
  <1>5. CASE n \notin 1..3
    <2>1. /\ SongRequest.briefs = BuildGenerationBriefs /\ SongRequest.style = Style
          /\ SongRequest.count = 4
      BY <1>5 DEF SongRequest, MusicGenerationRequest, DefaultTrackCount
    <2>2. jobs = [i \in 1..2 |-> in(i)]
      <3>1. Len(SongRequest.briefs) >= 2 /\ SongRequest.count >= 4
        <4>1. Len(SongRequest.briefs) = 2 /\ SongRequest.count = 4  BY <1>3, <2>1
        <4> QED  BY <4>1
      <3>2. jobs = [i \in 1..2 |-> Resolve(SongRequest.briefs[i], SongRequest.style,
                                         IsInstrumental(SongRequest.style))]
        BY <3>1 DEF Jobs, DefaultLyricVariantCount, DefaultTrackCount
      <3> HIDE DEF jobs
      <3> QED  BY <2>1, <3>2
    <2> HIDE DEF jobs, in
    <2>3. DOMAIN jobs = 1..2 /\ \A i \in 1..2 : jobs[i] = in(i)  BY <2>2
    <2>4. Len(jobs) = 2  BY <2>2
    <2>5. n # 2  BY <1>5
    <2> HIDE DEF n
    <2>6. Goal  BY <1>1, <2>3, <2>4, <2>5
    <2> QED  BY <2>6 DEF jobs, n
  <1> QED  BY <1>4, <1>5

-----------------------------------------------------------------------------
(* The library's FlattenSeq, for one and two sequences.                    *)

\* Its definition, applied.
LEMMA FlattenIs ==
  ASSUME NEW s, Len(s) # 0
  PROVE  FlattenSeq(s) =
           (CHOOSE f : f = [i \in 1..Len(s) |-> IF i = 1 THEN s[i] ELSE f[i-1] \o s[i]])[Len(s)]
  <1>1. FlattenSeq(s) =
          IF Len(s) = 0 THEN s
          ELSE (CHOOSE f : f = [i \in 1..Len(s) |-> IF i = 1 THEN s[i]
                                                    ELSE f[i-1] \o s[i]])[Len(s)]
    BY Zenon DEF FlattenSeq
  <1> QED  BY <1>1

\* Of one sequence.
LEMMA FlattenOne ==
  ASSUME NEW s, Len(s) = 1
  PROVE  FlattenSeq(s) = s[1]
  <1> DEFINE G(f) == [i \in 1..Len(s) |-> IF i = 1 THEN s[i] ELSE f[i-1] \o s[i]]
             F == CHOOSE f : f = G(f)
             g == [i \in 1..1 |-> s[1]]
  <1>1. g = G(g)  OBVIOUS
  <1>2. F = G(F)
    <2> HIDE DEF G, g
    <2> QED  BY <1>1
  <1>3. F[1] = s[1]  BY <1>2
  <1>4. Len(s) # 0  OBVIOUS
  <1>5. FlattenSeq(s) = F[Len(s)]  BY <1>4, FlattenIs
  <1> QED  BY <1>3, <1>5

\* Of two sequences.
LEMMA FlattenTwo ==
  ASSUME NEW s, Len(s) = 2
  PROVE  FlattenSeq(s) = s[1] \o s[2]
  <1> DEFINE G(f) == [i \in 1..Len(s) |-> IF i = 1 THEN s[i] ELSE f[i-1] \o s[i]]
             F == CHOOSE f : f = G(f)
             g == [i \in 1..2 |-> IF i = 1 THEN s[1] ELSE s[1] \o s[2]]
  <1>1. g = G(g)
    <2>1. g[1] = s[1] /\ g[2] = s[1] \o s[2]  OBVIOUS
    <2> HIDE DEF g
    <2>2. ASSUME NEW i \in 1..2
          PROVE  (IF i = 1 THEN s[i] ELSE g[i-1] \o s[i]) = IF i = 1 THEN s[1] ELSE s[1] \o s[2]
      <3>1. CASE i = 1  BY <3>1
      <3>2. CASE i = 2
        <4>1. i - 1 = 1  BY <3>2
        <4>2. g[i-1] \o s[i] = s[1] \o s[2]  BY <2>1, <3>2, <4>1
        <4> QED  BY <3>2, <4>2
      <3> QED  BY <3>1, <3>2
    <2> QED  BY <2>2 DEF g
  <1>2. F = G(F)
    <2> HIDE DEF G, g
    <2> QED  BY <1>1
  <1>3. F[1] = s[1] /\ F[2] = F[1] \o s[2]
    <2> HIDE DEF F
    <2>1. F = [i \in 1..2 |-> IF i = 1 THEN s[i] ELSE F[i-1] \o s[i]]  BY <1>2
    <2>2. F[1] = s[1] /\ F[2] = F[2-1] \o s[2]  BY <2>1
    <2>3. 2 - 1 = 1  OBVIOUS
    <2> QED  BY <2>2, <2>3
  <1>4. Len(s) # 0  OBVIOUS
  <1>5. FlattenSeq(s) = F[Len(s)]  BY <1>4, FlattenIs
  <1> HIDE DEF F
  <1>6. F[Len(s)] = F[2]  OBVIOUS
  <1> QED  BY <1>3, <1>5, <1>6

-----------------------------------------------------------------------------
(* The inductive invariant.                                                *)

Task == [input : Input, status : {"running", "success", "failure"}, clips : Nat]

Typed ==
  /\ form \in Forms
  /\ suno \in Seq(Task)
  /\ demo \in {"none", "processing", "ready", "failed"}

\* Nothing is asked of Suno before the form is stored, and then what it says.
Asked ==
  /\ \/ status \in {"form", "refused"} /\ suno = <<>>
     \/ status \in {"pending", "queued", "processing", "completed", "failed"} /\ Written
  /\ \A i \in DOMAIN suno : Faithful(suno[i].input)

Version(task) == suno[task].input.description.version

\* The demo is one task of the first version, and what it has made is what is heard.
DemoHeld ==
  /\ demo \in {"processing", "ready"} =>
       /\ Len(demoJob) = 1 /\ DOMAIN demoJob = 1..1 /\ demoJob[1] \in DOMAIN suno
       /\ WordsGiven = Absent => Version(demoJob[1]) = 1
  /\ IF demo = "ready"
       THEN suno[demoJob[1]].status # "running" /\ demoClips = GetTask(demoJob[1]).clips
       ELSE demoClips = <<>>
  /\ heard \in {<<>>, demoClips}

\* A submission without a refusal asks for the versions that the demo has not made.
SongAsked ==
  status \in {"processing", "completed"} =>
    /\ Len(songJob) \in Nat /\ DOMAIN songJob = 1..Len(songJob)
    /\ \A i \in DOMAIN songJob : songJob[i] \in DOMAIN suno
    /\ ~refused =>
         /\ Len(heard) = 0 =>
              /\ Len(songJob) = 2 /\ songJob[1] # songJob[2]
              /\ WordsGiven = Absent => Version(songJob[1]) = 1 /\ Version(songJob[2]) = 2
         /\ Len(heard) = 2 =>
              /\ Len(songJob) = 1 /\ songJob[1] # demoJob[1]
              /\ WordsGiven = Absent => Version(songJob[1]) = 2

Pair(task) == <<Clip(task, 1), Clip(task, 2)>>

\* The tracks are the clips of the song's tasks, after those of the demo.
SongDelivered ==
  status = "completed" =>
    /\ \A i \in DOMAIN songJob : suno[songJob[i]].status # "running"
    /\ ~refused /\ (\A i \in DOMAIN songJob : suno[songJob[i]].clips = clipsPerTask) =>
         /\ Len(heard) = 0 => tracks = Pair(songJob[1]) \o Pair(songJob[2])
         /\ Len(heard) = 2 => tracks = Pair(demoJob[1]) \o Pair(songJob[1])

IInv == Typed /\ Asked /\ DemoHeld /\ SongAsked /\ SongDelivered

-----------------------------------------------------------------------------
(* Tasks.                                                                  *)

\* A request is sent as it was made, or the lyrics of it alone.
LEMMA CreateSays ==
  ASSUME NEW in \in Input, Faithful(in)
  PROVE  /\ CreateMusicTask(in) \in Task /\ Faithful(CreateMusicTask(in).input)
         /\ CreateMusicTask(in).status = "running" /\ CreateMusicTask(in).clips = 0
         /\ WordsGiven = Absent => CreateMusicTask(in).input.description = in.description
  <1> DEFINE sent == IF in.lyrics # Blank THEN [in EXCEPT !.description = Blank] ELSE in
  <1>1. CreateMusicTask(in) = [input |-> sent, status |-> "running", clips |-> 0]
    BY DEF CreateMusicTask
  <1>2. Blank \in Text /\ Blank.words = Absent /\ ~Blank.silent  BY QuoteIs DEF Words
  <1>3. sent \in Input /\ Faithful(sent)
    <2>1. CASE in.lyrics # Blank
      <3>1. /\ sent \in Input /\ sent.lyrics = in.lyrics /\ sent.tags = in.tags
            /\ sent.instrumental = in.instrumental /\ sent.description = Blank
        BY <1>2, <2>1 DEF Input
      <3>2. ~InstrumentalGiven /\ WordsGiven # "phrase" /\ WordsGiven # Absent
        BY <2>1 DEF Faithful
      <3> HIDE DEF sent
      <3> QED  BY <1>2, <3>1, <3>2 DEF Faithful
    <2>2. CASE in.lyrics = Blank  BY <2>2
    <2> QED  BY <2>1, <2>2
  <1>4. WordsGiven = Absent => sent = in  BY DEF Faithful
  <1> HIDE DEF sent
  <1>5. CreateMusicTask(in) \in Task  BY <1>1, <1>3 DEF Task
  <1>6. /\ CreateMusicTask(in).input = sent /\ CreateMusicTask(in).status = "running"
        /\ CreateMusicTask(in).clips = 0
    BY <1>1
  <1> QED  BY <1>3, <1>4, <1>5, <1>6

\* The tasks of some jobs, in their order.
LEMMA CreatedSay ==
  ASSUME NEW jobs, NEW n \in Nat, NEW made \in [1..n -> DOMAIN jobs],
         \A i \in DOMAIN jobs : jobs[i] \in Input /\ Faithful(jobs[i])
  PROVE  LET new == Created(jobs, made)
         IN /\ new \in Seq(Task) /\ Len(new) = n
            /\ \A i \in 1..n :
                 /\ Faithful(new[i].input)
                 /\ WordsGiven = Absent => new[i].input.description = jobs[made[i]].description
  <1> DEFINE new == Created(jobs, made)
  <1>1. new = [i \in 1..n |-> CreateMusicTask(jobs[made[i]])]  BY DEF Created
  <1> HIDE DEF new
  <1>2. ASSUME NEW i \in 1..n
        PROVE  /\ new[i] \in Task /\ Faithful(new[i].input)
               /\ WordsGiven = Absent => new[i].input.description = jobs[made[i]].description
    <2>1. made[i] \in DOMAIN jobs  OBVIOUS
    <2>2. new[i] = CreateMusicTask(jobs[made[i]])  BY <1>1
    <2> QED  BY <2>1, <2>2, CreateSays
  <1>3. new \in [1..n -> Task]  BY <1>1, <1>2
  <1>4. new \in Seq(Task) /\ Len(new) = n  BY <1>3
  <1> QED  BY <1>2, <1>4 DEF new

\* Tasks are appended.
LEMMA Appended ==
  ASSUME suno \in Seq(Task), NEW new \in Seq(Task), suno' = suno \o new
  PROVE  /\ suno' \in Seq(Task) /\ Len(suno') = Len(suno) + Len(new)
         /\ \A i \in DOMAIN suno : i \in DOMAIN suno' /\ suno'[i] = suno[i]
         /\ \A i \in 1..Len(new) : /\ Len(suno) + i \in DOMAIN suno' \ DOMAIN suno
                                   /\ suno'[Len(suno) + i] = new[i]
         /\ \A i \in DOMAIN suno' : i \in DOMAIN suno \/ i - Len(suno) \in 1..Len(new)
  OBVIOUS

\* What the tasks have answered to stays what was asked.
LEMMA FormStays ==
  ASSUME form' = form
  PROVE  /\ WordsGiven' = WordsGiven /\ InstrumentalGiven' = InstrumentalGiven /\ Told' = Told
         /\ \A in : Faithful(in)' <=> Faithful(in)
  <1>1. WordsGiven' = WordsGiven /\ InstrumentalGiven' = InstrumentalGiven /\ Told' = Told
    BY DEF WordsGiven, InstrumentalGiven, Told
  <1> QED  BY <1>1 DEF Faithful

\* What no step undoes: a task keeps its request, and when it has ended all of it.
Kept ==
  /\ suno' \in Seq(Task)
  /\ \A t \in DOMAIN suno :
       /\ t \in DOMAIN suno' /\ suno'[t].input = suno[t].input
       /\ suno[t].status # "running" => suno'[t] = suno[t]

\* The demo stays while its columns do.
LEMMA DemoKept ==
  ASSUME DemoHeld, Kept, UNCHANGED <<form, lane, heard>>
  PROVE  DemoHeld'
  <1>1. UNCHANGED <<demo, demoClips, demoJob, heard>> /\ WordsGiven' = WordsGiven
    BY FormStays DEF lane
  <1>2. CASE demo \in {"processing", "ready"}
    <2>1. /\ Len(demoJob) = 1 /\ DOMAIN demoJob = 1..1 /\ demoJob[1] \in DOMAIN suno
          /\ WordsGiven = Absent => Version(demoJob[1]) = 1
      BY <1>2 DEF DemoHeld
    <2>2. /\ demoJob[1] \in DOMAIN suno' /\ Version(demoJob[1])' = Version(demoJob[1])
      BY <1>1, <2>1 DEF Kept, Version
    <2>3. demo = "ready" => /\ suno'[demoJob[1]] = suno[demoJob[1]]
                            /\ suno[demoJob[1]].status # "running"
                            /\ demoClips = GetTask(demoJob[1]).clips
      BY <2>1 DEF DemoHeld, Kept
    <2>4. demo = "ready" => GetTask(demoJob[1])' = GetTask(demoJob[1])
      BY <1>1, <2>3 DEF GetTask
    <2> QED  BY <1>1, <2>1, <2>2, <2>3, <2>4 DEF DemoHeld
  <1>3. CASE demo \notin {"processing", "ready"}  BY <1>1, <1>3 DEF DemoHeld
  <1> QED  BY <1>2, <1>3

\* So does the job of the song, and what it has delivered.
LEMMA SongKept ==
  ASSUME SongAsked, SongDelivered, Kept,
         UNCHANGED <<form, status, demoJob, songJob, heard, refused, tracks>>
  PROVE  SongAsked' /\ SongDelivered'
  <1>1. WordsGiven' = WordsGiven  BY FormStays
  <1>2. CASE status \in {"processing", "completed"}
    <2>1. /\ DOMAIN songJob = 1..Len(songJob)
          /\ \A i \in DOMAIN songJob : songJob[i] \in DOMAIN suno
      BY <1>2 DEF SongAsked
    <2>2. \A i \in DOMAIN songJob : /\ songJob[i] \in DOMAIN suno'
                                    /\ Version(songJob[i])' = Version(songJob[i])
      BY <2>1 DEF Kept, Version
    <2>3. SongAsked'
      <3>1. Len(songJob) = 2 => 1 \in DOMAIN songJob /\ 2 \in DOMAIN songJob  BY <2>1
      <3>2. Len(songJob) = 1 => 1 \in DOMAIN songJob  BY <2>1
      <3>3. Len(songJob) = 2 => /\ Version(songJob[1])' = Version(songJob[1])
                                /\ Version(songJob[2])' = Version(songJob[2])
        BY <2>2, <3>1
      <3>4. Len(songJob) = 1 => Version(songJob[1])' = Version(songJob[1])
        BY <2>2, <3>2
      <3> QED  BY <1>1, <1>2, <2>2, <3>3, <3>4 DEF SongAsked
    <2>4. CASE status = "completed"
      <3>1. \A i \in DOMAIN songJob : suno[songJob[i]].status # "running"
        BY <2>4 DEF SongDelivered
      <3>2. \A i \in DOMAIN songJob : suno'[songJob[i]] = suno[songJob[i]]
        BY <2>1, <3>1 DEF Kept
      <3>3. \A t : Pair(t)' = Pair(t)  BY DEF Pair, Clip
      <3> QED  BY <2>3, <2>4, <3>1, <3>2, <3>3 DEF SongDelivered
    <2> QED  BY <1>2, <2>3, <2>4 DEF SongDelivered
  <1>3. CASE status \notin {"processing", "completed"}  BY <1>3 DEF SongAsked, SongDelivered
  <1> QED  BY <1>2, <1>3

\* Nothing is new at Suno.
LEMMA SunoStays ==
  ASSUME Typed, suno' = suno
  PROVE  Kept
  BY DEF Kept, Typed

\* Every task that is new says what the form says.
LEMMA AskedKept ==
  ASSUME Asked, Kept, Written, UNCHANGED texts,
         status' \in {"pending", "queued", "processing", "completed", "failed"},
         \A t \in DOMAIN suno' \ DOMAIN suno : Faithful(suno'[t].input)
  PROVE  Asked'
  <1>1. UNCHANGED <<form, sunoPrompt, brief>>  BY DEF texts
  <1>2. Written'  BY <1>1 DEF Written
  <1>3. \A t \in DOMAIN suno' : Faithful(suno'[t].input)  BY DEF Asked, Kept
  <1>4. WordsGiven' = WordsGiven /\ InstrumentalGiven' = InstrumentalGiven /\ Told' = Told
    BY <1>1, FormStays
  <1>5. (\A t \in DOMAIN suno : Faithful(suno[t].input))'
    BY <1>3, <1>4 DEF Faithful
  <1> QED  BY <1>2, <1>5 DEF Asked

-----------------------------------------------------------------------------
(* The steps.                                                              *)

\* CreateOrder writes the text and asks nothing.
LEMMA CreateOrderKeeps ==
  ASSUME IInv, CreateOrder
  PROVE  IInv'
  <1>1. /\ status = "form" /\ suno = <<>> /\ form \in Forms
        /\ UNCHANGED <<form, lane, songJob, heard, refused, suno, tracks>>
        /\ status' \in {"pending", "refused"}
    BY DEF IInv, Asked, Typed, CreateOrder, Store
  <1>2. Typed' /\ Kept
    <2>1. UNCHANGED <<form, suno, demo>>  BY <1>1 DEF lane
    <2> QED  BY <2>1, SunoStays DEF IInv, Typed
  <1>3. Asked'
    <2>1. suno' = <<>> /\ DOMAIN suno' = {}  BY <1>1
    <2>2. status' = "pending" => Written'
      <3>1. CASE form.by = "quiz"
        <4>1. form \in ByQuiz  BY <1>1, <3>1 DEF Forms, ByConstructor, ByBrief
        <4>2. status' = "pending" =>
                sunoPrompt' = BuildFinalPrompt(form.quiz, form.answers) /\ brief' = PlainBrief
          BY <3>1 DEF CreateOrder, Store
        <4> QED  BY <1>1, <4>1, <4>2 DEF Written
      <3>2. CASE form.by = "constructor"
        <4>1. form \in ByConstructor  BY <1>1, <3>2 DEF Forms, ByQuiz, ByBrief
        <4>2. sunoPrompt' = NoText /\ brief' = ConstructorBrief(form)
          BY <3>2 DEF CreateOrder, Store
        <4> QED  BY <1>1, <4>1, <4>2 DEF Written
      <3>3. CASE form.by = "brief"
        <4>1. form \in ByBrief  BY <1>1, <3>3 DEF Forms, ByQuiz, ByConstructor
        <4>2. sunoPrompt' = NoText /\ brief' = PlainBrief  BY <3>3 DEF CreateOrder, Store
        <4> QED  BY <1>1, <4>1, <4>2 DEF Written
      <3> QED  BY <3>1, <3>2, <3>3 DEF CreateOrder
    <2> QED  BY <1>1, <2>1, <2>2 DEF Asked
  <1>4. DemoHeld'  BY <1>1, <1>2, DemoKept DEF IInv
  <1>5. SongAsked' /\ SongDelivered'  BY <1>1 DEF SongAsked, SongDelivered
  <1> QED  BY <1>2, <1>3, <1>4, <1>5 DEF IInv

\* GenerateDemo asks for the stored text, or is refused.
LEMMA GenerateDemoKeeps ==
  ASSUME IInv, GenerateDemo
  PROVE  IInv'
  <1> DEFINE jobs == Jobs(DemoRequest)
             new == Created(jobs, [i \in DOMAIN jobs |-> i])
  <1>1. /\ status = "pending" /\ demo \in {"none", "failed"}
        /\ UNCHANGED <<form, sunoPrompt, brief, status, demoClips, songJob, heard, refused,
                       tracks>>
    BY DEF GenerateDemo, texts
  <1>2. Written /\ Stored  BY <1>1, WrittenIsStored DEF IInv, Asked
  <1>3. demoClips = <<>> /\ heard = <<>>  BY <1>1 DEF IInv, DemoHeld
  <1>4. SongAsked' /\ SongDelivered'  BY <1>1 DEF SongAsked, SongDelivered
  <1>5. CASE suno' = suno \o new /\ demo' = "processing" /\ demoJob' = TaskIds(Len(jobs))
    <2>1. /\ Len(jobs) = 1 /\ DOMAIN jobs = 1..1 /\ jobs[1] \in Input /\ Faithful(jobs[1])
          /\ WordsGiven = Absent => jobs[1].description.version = 1
      BY <1>2, DemoJobs
    <2> HIDE DEF jobs
    <2> DEFINE made == [i \in DOMAIN jobs |-> i]
    <2>2. made \in [1..1 -> DOMAIN jobs] /\ made[1] = 1  BY <2>1
    <2>3. \A i \in DOMAIN jobs : jobs[i] \in Input /\ Faithful(jobs[i])
      <3>1. \A i \in DOMAIN jobs : i = 1  BY <2>1
      <3> QED  BY <2>1, <3>1
    <2>4. /\ new \in Seq(Task) /\ Len(new) = 1
          /\ Faithful(new[1].input)
          /\ WordsGiven = Absent => new[1].input.description = jobs[1].description
      <3> HIDE DEF made
      <3>1. 1 \in Nat /\ 1 \in 1..1  OBVIOUS
      <3> QED  BY <2>2, <2>3, <3>1, CreatedSay DEF made
    <2> HIDE DEF new, made
    <2>5. /\ suno' \in Seq(Task)
          /\ \A i \in DOMAIN suno : i \in DOMAIN suno' /\ suno'[i] = suno[i]
          /\ Len(suno) + 1 \in DOMAIN suno' \ DOMAIN suno
          /\ suno'[Len(suno) + 1] = new[1]
          /\ \A i \in DOMAIN suno' \ DOMAIN suno : i = Len(suno) + 1
      <3>1. suno \in Seq(Task)  BY DEF IInv, Typed
      <3>2. 1 \in 1..Len(new)  BY <2>4
      <3>3. \A i \in DOMAIN suno' : i \in DOMAIN suno \/ i - Len(suno) \in 1..1
        BY <1>5, <2>4, <3>1, Appended
      <3>4. \A i \in DOMAIN suno' \ DOMAIN suno : i = Len(suno) + 1
        <4>1. suno' \in Seq(Task)  BY <1>5, <2>4, <3>1, Appended
        <4>2. \A i \in DOMAIN suno' : i \in Int  BY <4>1
        <4>3. Len(suno) \in Int  BY <3>1
        <4> QED  BY <3>3, <4>2, <4>3
      <3> QED  BY <1>5, <2>4, <3>1, <3>2, <3>4, Appended
    <2>6. Kept  BY <2>5 DEF Kept
    <2>7. Typed'  BY <1>1, <1>5, <2>5 DEF IInv, Typed
    <2>8. Asked'
      <3>1. \A t \in DOMAIN suno' \ DOMAIN suno : Faithful(suno'[t].input)  BY <2>4, <2>5
      <3> QED  BY <1>1, <1>2, <2>6, <3>1, AskedKept DEF IInv, texts
    <2>9. DemoHeld'
      <3>1. demoJob' = [i \in 1..1 |-> Len(suno) + i]  BY <1>5, <2>1 DEF TaskIds
      <3>2. Len(demoJob') = 1 /\ DOMAIN demoJob' = 1..1 /\ demoJob'[1] = Len(suno) + 1
        BY <3>1
      <3>3. WordsGiven' = WordsGiven  BY <1>1, FormStays
      <3>4. WordsGiven = Absent => Version(demoJob[1])' = 1
        BY <2>1, <2>4, <2>5, <3>2 DEF Version
      <3> QED  BY <1>1, <1>3, <1>5, <2>5, <3>2, <3>3, <3>4 DEF DemoHeld
    <2> QED  BY <1>4, <2>7, <2>8, <2>9 DEF IInv
  <1>6. CASE demo' = "failed" /\ UNCHANGED <<suno, demoJob>>
    <2>1. Typed' /\ Kept  BY <1>1, <1>6, SunoStays DEF IInv, Typed
    <2>2. Asked'
      <3>1. \A t \in DOMAIN suno' \ DOMAIN suno : Faithful(suno'[t].input)  BY <1>6
      <3> QED  BY <1>1, <1>2, <2>1, <3>1, AskedKept DEF IInv, texts
    <2>3. DemoHeld'  BY <1>1, <1>3, <1>6 DEF DemoHeld
    <2> QED  BY <1>4, <2>1, <2>2, <2>3 DEF IInv
  <1> QED  BY <1>5, <1>6 DEF GenerateDemo

\* CheckDemoStatus stores the clips of the one task.
LEMMA CheckDemoStatusKeeps ==
  ASSUME IInv, CheckDemoStatus
  PROVE  IInv'
  <1>1. /\ demo = "processing" /\ Result(demoJob) # "running"
        /\ UNCHANGED <<form, sunoPrompt, brief, status, demoJob, songJob, heard, refused, suno,
                       tracks>>
    BY DEF CheckDemoStatus, texts
  <1>2. /\ Len(demoJob) = 1 /\ DOMAIN demoJob = 1..1 /\ demoJob[1] \in DOMAIN suno
        /\ WordsGiven = Absent => Version(demoJob[1]) = 1
        /\ demoClips = <<>> /\ heard = <<>>
    BY <1>1 DEF IInv, DemoHeld
  <1>3. Written
    BY <1>2 DEF IInv, Asked
  <1>4. Typed' /\ Kept  BY <1>1, SunoStays DEF IInv, Typed, CheckDemoStatus
  <1>5. Asked'
    <2>1. \A t \in DOMAIN suno' \ DOMAIN suno : Faithful(suno'[t].input)  BY <1>1
    <2>2. status \in {"pending", "queued", "processing", "completed", "failed"}
      BY <1>2 DEF IInv, Asked
    <2> QED  BY <1>1, <1>3, <1>4, <2>1, <2>2, AskedKept DEF IInv, texts
  <1>6. DemoHeld'
    <2>1. WordsGiven' = WordsGiven  BY <1>1, FormStays
    <2>2. Version(demoJob[1])' = Version(demoJob[1]) /\ GetTask(demoJob[1])' = GetTask(demoJob[1])
      BY <1>1 DEF Version, GetTask
    <2>3. CASE Result(demoJob) = "completed"
      <3>1. demo' = "ready" /\ demoClips' = Fetched(demoJob)  BY <2>3 DEF CheckDemoStatus
      <3>2. Fetched(demoJob) = GetTask(demoJob[1]).clips
        <4> DEFINE s == [i \in DOMAIN demoJob |-> GetTask(demoJob[i]).clips]
        <4>1. Len(s) = 1 /\ s[1] = GetTask(demoJob[1]).clips  BY <1>2
        <4> HIDE DEF s
        <4>2. FlattenSeq(s) = s[1]  BY <4>1, FlattenOne
        <4> QED  BY <4>1, <4>2 DEF Fetched, s
      <3>3. suno[demoJob[1]].status # "running"
        <4>1. GetTask(demoJob[1]).status # "running"  BY <1>1, <1>2 DEF Result
        <4> QED  BY <4>1 DEF GetTask
      <3> QED  BY <1>1, <1>2, <2>1, <2>2, <3>1, <3>2, <3>3 DEF DemoHeld
    <2>4. CASE Result(demoJob) # "completed"
      <3>1. demo' = "failed" /\ demoClips' = demoClips  BY <2>4 DEF CheckDemoStatus
      <3> QED  BY <1>1, <1>2, <3>1 DEF DemoHeld
    <2> QED  BY <2>3, <2>4
  <1>7. SongAsked' /\ SongDelivered'  BY <1>1, <1>4, SongKept DEF IInv
  <1> QED  BY <1>4, <1>5, <1>6, <1>7 DEF IInv

\* A payment or a new attempt queues the order.
LEMMA QueueKeeps ==
  ASSUME IInv, Queue
  PROVE  IInv'
  <1>1. /\ status \in {"pending", "failed"} /\ status' = "queued"
        /\ UNCHANGED <<form, sunoPrompt, brief, lane, demo, songJob, heard, refused, suno, tracks>>
    BY DEF Queue, texts, lane
  <1>2. Typed' /\ Kept  BY <1>1, SunoStays DEF IInv, Typed
  <1>3. Asked'
    <2>1. \A t \in DOMAIN suno' \ DOMAIN suno : Faithful(suno'[t].input)  BY <1>1
    <2>2. Written  BY <1>1 DEF IInv, Asked
    <2> QED  BY <1>1, <1>2, <2>1, <2>2, AskedKept DEF IInv, texts
  <1>4. DemoHeld'  BY <1>1, <1>2, DemoKept DEF IInv
  <1>5. SongAsked' /\ SongDelivered'  BY <1>1 DEF SongAsked, SongDelivered
  <1> QED  BY <1>2, <1>3, <1>4, <1>5 DEF IInv

\* Two jobs without a refusal are two tasks, in their order.
LEMMA AllMade ==
  ASSUME NEW jobs, NEW made \in Selections(jobs), Len(jobs) \in Nat, DOMAIN jobs = 1..Len(jobs)
  PROVE  /\ Len(made) \in 0..Len(jobs) /\ made \in [1..Len(made) -> DOMAIN jobs]
         /\ Len(jobs) = 1 /\ Len(made) = 1 => made[1] = 1
         /\ Len(jobs) = 2 /\ Len(made) = 2 => made[1] = 1 /\ made[2] = 2
  <1>1. PICK n \in 0..Len(jobs) : made \in [1..n -> DOMAIN jobs]  BY DEF Selections
  <1>2. \A i, j \in DOMAIN made : i < j => made[i] < made[j]  BY DEF Selections
  <1>3. Len(made) = n /\ DOMAIN made = 1..n  BY <1>1
  <1>4. Len(jobs) = 1 /\ n = 1 => made[1] = 1
    <2> SUFFICES ASSUME Len(jobs) = 1, n = 1  PROVE made[1] = 1
      OBVIOUS
    <2>1. made[1] \in 1..1  BY <1>1
    <2> QED  BY <2>1
  <1>5. Len(jobs) = 2 /\ n = 2 => made[1] = 1 /\ made[2] = 2
    <2> SUFFICES ASSUME Len(jobs) = 2, n = 2  PROVE made[1] = 1 /\ made[2] = 2
      OBVIOUS
    <2>1. made[1] \in 1..2 /\ made[2] \in 1..2  BY <1>1
    <2>2. made[1] < made[2]  BY <1>2, <1>3
    <2> QED  BY <2>1, <2>2
  <1> QED  BY <1>1, <1>3, <1>4, <1>5

\* ProcessGenerationTask asks for the versions not yet made, of which some may be refused.
LEMMA ProcessGenerationTaskKeeps ==
  ASSUME IInv, ProcessGenerationTask
  PROVE  IInv'
  <1> DEFINE jobs == Jobs(SongRequest)
  <1>1. /\ status = "queued"
        /\ UNCHANGED <<form, sunoPrompt, brief, lane, demo, demoClips, demoJob, tracks>>
    BY DEF ProcessGenerationTask, texts, lane
  <1>2. Written /\ Stored  BY <1>1, WrittenIsStored DEF IInv, Asked
  <1>3. Len(demoClips) \in Nat
    <2>1. CASE demo = "ready"
      <3>1. /\ demoJob[1] \in DOMAIN suno
            /\ demoClips = [n \in 1..suno[demoJob[1]].clips |-> Clip(demoJob[1], n)]
        BY <2>1 DEF IInv, DemoHeld, GetTask
      <3>2. suno[demoJob[1]] \in Task  BY <3>1 DEF IInv, Typed
      <3>3. suno[demoJob[1]].clips \in Nat  BY <3>2 DEF Task
      <3> QED  BY <3>1, <3>3
    <2>2. CASE demo # "ready"  BY <2>2 DEF IInv, DemoHeld
    <2> QED  BY <2>1, <2>2
  <1>4. /\ Len(jobs) \in 1..2 /\ DOMAIN jobs = 1..Len(jobs)
        /\ \A i \in DOMAIN jobs : jobs[i] \in Input /\ Faithful(jobs[i])
        /\ Len(demoClips) = 0 => Len(jobs) = 2
        /\ Len(demoClips) = 2 => Len(jobs) = 1
        /\ WordsGiven = Absent =>
             /\ Len(demoClips) = 0 => \A i \in 1..2 : jobs[i].description.version = i
             /\ Len(demoClips) = 2 => jobs[1].description.version = 2
    BY <1>2, <1>3, SongJobs
  <1>5. PICK made \in Selections(jobs) :
          /\ suno' = suno \o Created(jobs, made)
          /\ \/ /\ made # <<>> /\ status' = "processing"
                /\ songJob' = TaskIds(Len(made))
                /\ heard' = demoClips /\ refused' = (Len(made) < Len(jobs))
             \/ UNCHANGED <<status, songJob, heard, refused>>
    BY DEF ProcessGenerationTask
  <1> DEFINE new == Created(jobs, made)
  <1> HIDE DEF jobs
  <1>6. /\ Len(made) \in Nat /\ Len(made) \in 0..Len(jobs) /\ made \in [1..Len(made) -> DOMAIN jobs]
        /\ Len(jobs) = 1 /\ Len(made) = 1 => made[1] = 1
        /\ Len(jobs) = 2 /\ Len(made) = 2 => made[1] = 1 /\ made[2] = 2
    <2>1. Len(jobs) \in Nat  BY <1>4
    <2> QED  BY <1>4, <2>1, AllMade
  <1>7. /\ new \in Seq(Task) /\ Len(new) = Len(made)
        /\ \A i \in 1..Len(made) :
             /\ Faithful(new[i].input)
             /\ WordsGiven = Absent => new[i].input.description = jobs[made[i]].description
    <2> DEFINE n == Len(made)
    <2>1. n \in Nat /\ made \in [1..n -> DOMAIN jobs]  BY <1>6
    <2>2. \A i \in DOMAIN jobs : jobs[i] \in Input /\ Faithful(jobs[i])  BY <1>4
    <2> HIDE DEF n
    <2>3. /\ new \in Seq(Task) /\ Len(new) = n
          /\ \A i \in 1..n :
               /\ Faithful(new[i].input)
               /\ WordsGiven = Absent => new[i].input.description = jobs[made[i]].description
      BY <2>1, <2>2, CreatedSay
    <2> QED  BY <2>3 DEF n
  <1> HIDE DEF new
  <1>8. suno' = suno \o new /\ suno \in Seq(Task)  BY <1>5 DEF new, IInv, Typed
  <1>9. /\ suno' \in Seq(Task) /\ Len(suno') = Len(suno) + Len(new)
        /\ \A i \in DOMAIN suno : i \in DOMAIN suno' /\ suno'[i] = suno[i]
        /\ \A i \in 1..Len(new) : /\ Len(suno) + i \in DOMAIN suno' \ DOMAIN suno
                                  /\ suno'[Len(suno) + i] = new[i]
        /\ \A i \in DOMAIN suno' : i \in DOMAIN suno \/ i - Len(suno) \in 1..Len(new)
    BY <1>7, <1>8, Appended
  <1>10. Kept  BY <1>9 DEF Kept
  <1>11. Typed'  BY <1>1, <1>9 DEF IInv, Typed
  <1>12. Asked'
    <2>1. ASSUME NEW t \in DOMAIN suno' \ DOMAIN suno
          PROVE  Faithful(suno'[t].input)
      <3>1. t - Len(suno) \in 1..Len(new)  BY <1>9
      <3>2. Len(suno) + (t - Len(suno)) = t
        <4>1. t \in Int /\ Len(suno) \in Int  BY <1>8, <1>9
        <4> QED  BY <4>1
      <3>3. suno'[t] = new[t - Len(suno)]  BY <1>9, <3>1, <3>2
      <3> QED  BY <1>7, <3>1, <3>3
    <2>2. status' \in {"queued", "processing"}  BY <1>1, <1>5
    <2> QED  BY <1>1, <1>2, <1>10, <2>1, <2>2, AskedKept DEF IInv, texts
  <1>13. CASE UNCHANGED <<status, songJob, heard, refused>>
    <2>1. DemoHeld'  BY <1>1, <1>10, <1>13, DemoKept DEF IInv
    <2>2. SongAsked' /\ SongDelivered'  BY <1>1, <1>13 DEF SongAsked, SongDelivered
    <2> QED  BY <1>11, <1>12, <2>1, <2>2 DEF IInv
  <1>14. CASE /\ status' = "processing" /\ songJob' = TaskIds(Len(made))
              /\ heard' = demoClips /\ refused' = (Len(made) < Len(jobs))
    <2>1. DemoHeld'
      <3>1. (heard \in {<<>>, demoClips})'  BY <1>1, <1>14
      <3>2. WordsGiven' = WordsGiven  BY <1>1, FormStays
      <3>3. CASE demo \in {"processing", "ready"}
        <4>1. /\ Len(demoJob) = 1 /\ DOMAIN demoJob = 1..1 /\ demoJob[1] \in DOMAIN suno
              /\ WordsGiven = Absent => Version(demoJob[1]) = 1
          BY <3>3 DEF IInv, DemoHeld
        <4>2. demoJob[1] \in DOMAIN suno' /\ suno'[demoJob[1]] = suno[demoJob[1]]
          BY <1>9, <4>1
        <4>3. /\ Version(demoJob[1])' = Version(demoJob[1])
              /\ GetTask(demoJob[1])' = GetTask(demoJob[1])
          BY <1>1, <4>2 DEF Version, GetTask
        <4> QED  BY <1>1, <3>1, <3>2, <4>1, <4>2, <4>3 DEF IInv, DemoHeld
      <3>4. CASE demo \notin {"processing", "ready"}
        BY <1>1, <3>1, <3>4 DEF IInv, DemoHeld
      <3> QED  BY <3>3, <3>4
    <2>2. /\ Len(songJob') = Len(made) /\ DOMAIN songJob' = 1..Len(made)
          /\ \A i \in 1..Len(made) : songJob'[i] = Len(suno) + i
      <3>1. songJob' = [i \in 1..Len(made) |-> Len(suno) + i]  BY <1>14 DEF TaskIds
      <3> QED  BY <1>6, <3>1
    <2>3. \A i \in 1..Len(made) :
            /\ songJob'[i] \in DOMAIN suno' \ DOMAIN suno
            /\ WordsGiven = Absent => Version(songJob[i])' = jobs[made[i]].description.version
      <3> SUFFICES ASSUME NEW i \in 1..Len(made)
                   PROVE  /\ songJob'[i] \in DOMAIN suno' \ DOMAIN suno
                          /\ WordsGiven = Absent =>
                               Version(songJob[i])' = jobs[made[i]].description.version
        OBVIOUS
      <3>1. songJob'[i] = Len(suno) + i /\ i \in 1..Len(new)  BY <1>7, <2>2
      <3>2. songJob'[i] \in DOMAIN suno' \ DOMAIN suno /\ suno'[songJob'[i]] = new[i]
        BY <1>9, <3>1
      <3>3. Version(songJob[i])' = new[i].input.description.version
        BY <3>2 DEF Version
      <3> QED  BY <1>7, <3>2, <3>3
    <2>4. SongAsked'
      <3>1. WordsGiven' = WordsGiven /\ demoJob' = demoJob  BY <1>1, FormStays
      <3>2. ASSUME ~refused', Len(demoClips) = 0
            PROVE  /\ Len(songJob') = 2 /\ songJob'[1] # songJob'[2]
                   /\ WordsGiven = Absent => /\ Version(songJob[1])' = 1
                                             /\ Version(songJob[2])' = 2
        <4>1. Len(jobs) = 2  BY <1>4, <3>2
        <4>2. ~(Len(made) < 2) /\ Len(made) \in 0..2  BY <1>6, <1>14, <3>2, <4>1
        <4>3. Len(made) = 2  BY <4>2
        <4>4. made[1] = 1 /\ made[2] = 2  BY <1>6, <4>1, <4>3
        <4>5. 1 \in 1..2 /\ 2 \in 1..2  OBVIOUS
        <4>6. songJob'[1] = Len(suno) + 1 /\ songJob'[2] = Len(suno) + 2
          BY <2>2, <4>3, <4>5
        <4>7. Len(suno) \in Int  BY <1>8
        <4>8. songJob'[1] # songJob'[2]  BY <4>6, <4>7
        <4> QED  BY <1>4, <2>2, <2>3, <3>2, <4>3, <4>4, <4>5, <4>8
      <3>3. ASSUME ~refused', Len(demoClips) = 2
            PROVE  /\ Len(songJob') = 1 /\ songJob'[1] # demoJob[1]
                   /\ WordsGiven = Absent => Version(songJob[1])' = 2
        <4>1. Len(jobs) = 1  BY <1>4, <3>3
        <4>2. ~(Len(made) < 1) /\ Len(made) \in 0..1  BY <1>6, <1>14, <3>3, <4>1
        <4>3. Len(made) = 1  BY <4>2
        <4>4. made[1] = 1 /\ 1 \in 1..1  BY <1>6, <4>1, <4>3
        <4>5. demoClips # <<>>  BY <3>3
        <4>6. demoJob[1] \in DOMAIN suno  BY <4>5 DEF IInv, DemoHeld
        <4> QED  BY <1>4, <2>2, <2>3, <3>3, <4>3, <4>4, <4>6
      <3>4. \A i \in DOMAIN songJob' : songJob'[i] \in DOMAIN suno'  BY <2>2, <2>3
      <3> QED  BY <1>6, <1>14, <2>2, <3>1, <3>2, <3>3, <3>4 DEF SongAsked
    <2>5. SongDelivered'  BY <1>14 DEF SongDelivered
    <2> QED  BY <1>11, <1>12, <2>1, <2>4, <2>5 DEF IInv
  <1> QED  BY <1>5, <1>13, <1>14

\* The clips of a task that has made two.
LEMMA PairIs ==
  ASSUME NEW t, suno[t].clips = 2
  PROVE  GetTask(t).clips = Pair(t) /\ Len(GetTask(t).clips) = 2
  <1> DEFINE clips == [n \in 1..2 |-> Clip(t, n)]
  <1>1. GetTask(t).clips = clips  BY DEF GetTask
  <1>2. Len(clips) = 2 /\ clips[1] = Clip(t, 1) /\ clips[2] = Clip(t, 2)  OBVIOUS
  <1>3. clips = <<clips[1], clips[2]>>  OBVIOUS
  <1> HIDE DEF clips
  <1>4. clips = Pair(t)  BY <1>2, <1>3 DEF Pair
  <1> QED  BY <1>1, <1>2, <1>4

\* The clips of a job of one task.
LEMMA FetchedOne ==
  ASSUME NEW job, Len(job) = 1, DOMAIN job = 1..1, suno[job[1]].clips = 2
  PROVE  Fetched(job) = Pair(job[1])
  <1> DEFINE s == [i \in DOMAIN job |-> GetTask(job[i]).clips]
  <1>1. GetTask(job[1]).clips = Pair(job[1])  BY PairIs
  <1>2. Len(s) = 1 /\ s[1] = GetTask(job[1]).clips  OBVIOUS
  <1> HIDE DEF s
  <1>3. FlattenSeq(s) = s[1]  BY <1>2, FlattenOne
  <1> QED  BY <1>1, <1>2, <1>3 DEF Fetched, s

\* The clips of a job of two tasks.
LEMMA FetchedTwo ==
  ASSUME NEW job, Len(job) = 2, DOMAIN job = 1..2,
         suno[job[1]].clips = 2, suno[job[2]].clips = 2
  PROVE  Fetched(job) = Pair(job[1]) \o Pair(job[2])
  <1> DEFINE s == [i \in DOMAIN job |-> GetTask(job[i]).clips]
  <1>1. GetTask(job[1]).clips = Pair(job[1]) /\ GetTask(job[2]).clips = Pair(job[2])
    BY PairIs
  <1>2. Len(s) = 2 /\ s[1] = GetTask(job[1]).clips /\ s[2] = GetTask(job[2]).clips  OBVIOUS
  <1> HIDE DEF s
  <1>3. FlattenSeq(s) = s[1] \o s[2]  BY <1>2, FlattenTwo
  <1> QED  BY <1>1, <1>2, <1>3 DEF Fetched, s

\* CheckGenerationStatus delivers the clips, after those of the demo that was heard.
LEMMA CheckGenerationStatusKeeps ==
  ASSUME IInv, CheckGenerationStatus
  PROVE  IInv'
  <1>1. /\ status = "processing" /\ Result(songJob) # "running"
        /\ status' \in {"completed", "failed"}
        /\ UNCHANGED <<form, sunoPrompt, brief, lane, demo, demoClips, demoJob, songJob, heard,
                       refused, suno>>
    BY DEF CheckGenerationStatus, texts, lane
  <1>2. Typed' /\ Kept  BY <1>1, SunoStays DEF IInv, Typed
  <1>3. Asked'
    <2>1. \A t \in DOMAIN suno' \ DOMAIN suno : Faithful(suno'[t].input)  BY <1>1
    <2>2. Written  BY <1>1 DEF IInv, Asked
    <2> QED  BY <1>1, <1>2, <2>1, <2>2, AskedKept DEF IInv, texts
  <1>4. DemoHeld'  BY <1>1, <1>2, DemoKept DEF IInv
  <1>5. SongAsked'
    <2>1. WordsGiven' = WordsGiven  BY <1>1, FormStays
    <2>2. \A t : Version(t)' = Version(t)  BY <1>1 DEF Version
    <2> QED  BY <1>1, <2>1, <2>2 DEF IInv, SongAsked
  <1>6. CASE Result(songJob) = "completed"
    <2>1. status' = "completed" /\ tracks' = Delivered(Fetched(songJob))
      BY <1>6 DEF CheckGenerationStatus
    <2>2. /\ DOMAIN songJob = 1..Len(songJob)
          /\ ~refused => /\ Len(heard) = 0 => Len(songJob) = 2
                         /\ Len(heard) = 2 => Len(songJob) = 1
      BY <1>1 DEF IInv, SongAsked
    <2>3. \A i \in DOMAIN songJob : suno[songJob[i]].status # "running"
      <3>1. \A i \in DOMAIN songJob : GetTask(songJob[i]).status # "running"
        BY <1>1 DEF Result
      <3> QED  BY <3>1 DEF GetTask
    <2>4. ASSUME ~refused, \A i \in DOMAIN songJob : suno[songJob[i]].clips = 2,
                 Len(heard) = 0
          PROVE  tracks' = Pair(songJob[1]) \o Pair(songJob[2])
      <3>1. Len(songJob) = 2 /\ DOMAIN songJob = 1..2  BY <2>2, <2>4
      <3>2. 1 \in 1..2 /\ 2 \in 1..2  OBVIOUS
      <3>3. Fetched(songJob) = Pair(songJob[1]) \o Pair(songJob[2])
        BY <2>4, <3>1, <3>2, FetchedTwo
      <3>4. Len(Fetched(songJob)) = 4  BY <3>3 DEF Pair
      <3>5. demoClips # <<>> => ~(Len(Fetched(songJob)) <= DefaultTrackCount - Len(demoClips))
        <4> SUFFICES ASSUME demoClips # <<>>
                     PROVE  ~(4 <= 4 - Len(demoClips))
          BY <3>4 DEF DefaultTrackCount
        <4>1. /\ demoJob[1] \in DOMAIN suno
              /\ demoClips = [n \in 1..suno[demoJob[1]].clips |-> Clip(demoJob[1], n)]
          BY DEF IInv, DemoHeld, GetTask
        <4>2. suno[demoJob[1]] \in Task  BY <4>1 DEF IInv, Typed
        <4>3. suno[demoJob[1]].clips \in Nat  BY <4>2 DEF Task
        <4>4. Len(demoClips) = suno[demoJob[1]].clips  BY <4>1, <4>3
        <4>5. Len(demoClips) # 0  BY <4>1, <4>4
        <4>6. Len(demoClips) \in Nat \ {0}  BY <4>3, <4>4, <4>5
        <4> QED  BY <4>6
      <3> QED  BY <2>1, <3>3, <3>5 DEF Delivered
    <2>5. ASSUME ~refused, \A i \in DOMAIN songJob : suno[songJob[i]].clips = 2,
                 Len(heard) = 2
          PROVE  tracks' = Pair(demoJob[1]) \o Pair(songJob[1])
      <3>1. Len(songJob) = 1 /\ DOMAIN songJob = 1..1  BY <2>2, <2>5
      <3>2. Fetched(songJob) = Pair(songJob[1])
        <4>1. 1 \in 1..1  OBVIOUS
        <4> QED  BY <2>5, <3>1, <4>1, FetchedOne
      <3>3. Len(Fetched(songJob)) = 2  BY <3>2 DEF Pair
      <3>4. heard # <<>>  BY <2>5
      <3>5. heard = demoClips /\ demoClips # <<>>  BY <3>4 DEF IInv, DemoHeld
      <3>6. /\ demoJob[1] \in DOMAIN suno /\ demoClips = GetTask(demoJob[1]).clips
        BY <3>5 DEF IInv, DemoHeld
      <3>7. suno[demoJob[1]].clips = 2
        <4>1. suno[demoJob[1]] \in Task  BY <3>6 DEF IInv, Typed
        <4>2. suno[demoJob[1]].clips \in Nat  BY <4>1 DEF Task
        <4>3. demoClips = [n \in 1..suno[demoJob[1]].clips |-> Clip(demoJob[1], n)]
          BY <3>6 DEF GetTask
        <4> QED  BY <2>5, <3>5, <4>2, <4>3
      <3>8. demoClips = Pair(demoJob[1])  BY <3>6, <3>7, PairIs
      <3>9. Len(Fetched(songJob)) <= DefaultTrackCount - Len(demoClips)
        <4>1. Len(demoClips) = 2  BY <2>5, <3>5
        <4> QED  BY <3>3, <4>1 DEF DefaultTrackCount
      <3> QED  BY <2>1, <3>2, <3>5, <3>8, <3>9 DEF Delivered
    <2>6. \A t : Pair(t)' = Pair(t)  BY DEF Pair, Clip
    <2>7. SongDelivered'
      <3>1. demoJob' = demoJob /\ songJob' = songJob /\ heard' = heard /\ refused' = refused
            /\ suno' = suno
        BY <1>1
      <3> QED  BY <2>3, <2>4, <2>5, <2>6, <3>1 DEF SongDelivered, clipsPerTask
    <2> QED  BY <1>2, <1>3, <1>4, <1>5, <2>7 DEF IInv
  <1>7. CASE Result(songJob) # "completed"
    <2>1. status' = "failed"  BY <1>7 DEF CheckGenerationStatus
    <2> QED  BY <1>2, <1>3, <1>4, <1>5, <2>1 DEF IInv, SongDelivered
  <1> QED  BY <1>6, <1>7

\* Suno ends a task that runs and no other.
LEMMA SunoEndsKeeps ==
  ASSUME IInv, NEW i \in DOMAIN suno, SunoEnds(i)
  PROVE  IInv'
  <1>1. /\ suno[i].status = "running"
        /\ UNCHANGED <<form, texts, status, lane, demo, demoJob, songJob, heard, refused, tracks>>
    <2>1. /\ suno[i].status = "running"
          /\ UNCHANGED <<texts, status, lane, songJob, heard, refused, tracks>>
      BY Zenon DEF SunoEnds
    <2> QED  BY <2>1 DEF texts, lane
  <1>2. suno \in Seq(Task) /\ suno[i] \in Task  BY DEF IInv, Typed
  <1>3. PICK task \in Task : suno' = [suno EXCEPT ![i] = task] /\ task.input = suno[i].input
    <2>1. CASE suno' = [suno EXCEPT ![i].status = "failure"]
      <3> DEFINE task == [suno[i] EXCEPT !.status = "failure"]
      <3>1. task \in Task /\ task.input = suno[i].input  BY <1>2 DEF Task
      <3> QED  BY <2>1, <3>1
    <2>2. ASSUME NEW n \in ClipCounts,
                 suno' = [suno EXCEPT ![i].status = "success", ![i].clips = n]
          PROVE  \E task \in Task : /\ suno' = [suno EXCEPT ![i] = task]
                                    /\ task.input = suno[i].input
      <3> DEFINE task == [suno[i] EXCEPT !.status = "success", !.clips = n]
      <3>1. n \in Nat  BY SongNumbers
      <3>2. task \in Task /\ task.input = suno[i].input  BY <1>2, <3>1 DEF Task
      <3>3. suno' = [suno EXCEPT ![i] = task]  BY <1>2, <2>2
      <3> QED  BY <3>2, <3>3
    <2> QED  BY <2>1, <2>2, Zenon DEF SunoEnds
  <1>4. Kept
    <2>1. suno' \in Seq(Task)  BY <1>2, <1>3
    <2>2. DOMAIN suno' = DOMAIN suno  BY <1>3
    <2>3. \A t \in DOMAIN suno : suno'[t] = IF t = i THEN task ELSE suno[t]  BY <1>3
    <2> QED  BY <1>1, <1>3, <2>1, <2>2, <2>3 DEF Kept
  <1>5. Typed'  BY <1>1, <1>4 DEF IInv, Typed, Kept
  <1>6. Written
    BY DEF IInv, Asked
  <1>7. Asked'
    <2>1. DOMAIN suno' = DOMAIN suno  BY <1>3
    <2>2. \A t \in DOMAIN suno' \ DOMAIN suno : Faithful(suno'[t].input)  BY <2>1
    <2>3. status' \in {"pending", "queued", "processing", "completed", "failed"}
      BY <1>1 DEF IInv, Asked
    <2> QED  BY <1>1, <1>4, <1>6, <2>2, <2>3, AskedKept DEF IInv
  <1>8. DemoHeld'  BY <1>1, <1>4, DemoKept DEF IInv
  <1>9. SongAsked' /\ SongDelivered'  BY <1>1, <1>4, SongKept DEF IInv
  <1> QED  BY <1>5, <1>7, <1>8, <1>9 DEF IInv

-----------------------------------------------------------------------------
(* Counting the tracks.                                                    *)

\* Two different things are two.
LEMMA TwoIs ==
  ASSUME NEW x, NEW y, x # y
  PROVE  IsFiniteSet({x, y}) /\ Cardinality({x, y}) = 2
  <1>1. IsFiniteSet({x}) /\ Cardinality({x}) = 1  BY FS_Singleton
  <1>2. {x, y} = {x} \cup {y} /\ y \notin {x}  OBVIOUS
  <1>3. /\ IsFiniteSet({x} \cup {y}) /\ Cardinality({x} \cup {y}) = 1 + 1
    BY <1>1, <1>2, FS_AddElement
  <1> QED  BY <1>2, <1>3

\* Two sequences of two elements.
LEMMA FourIs ==
  ASSUME NEW S, NEW p \in Seq(S), NEW q \in Seq(S), Len(p) = 2, Len(q) = 2
  PROVE  LET t == p \o q
         IN /\ t \in Seq(S) /\ Len(t) = 4 /\ DOMAIN t = 1..4
            /\ t[1] = p[1] /\ t[2] = p[2] /\ t[3] = q[1] /\ t[4] = q[2]
  <1> DEFINE t == p \o q
  <1>1. /\ t \in Seq(S) /\ Len(t) = Len(p) + Len(q)
        /\ \A i \in 1..Len(p) + Len(q) : t[i] = IF i <= Len(p) THEN p[i] ELSE q[i - Len(p)]
    BY ConcatProperties
  <1> HIDE DEF t
  <1>2. Len(t) = 2 + 2 /\ \A i \in 1..2 + 2 : t[i] = IF i <= 2 THEN p[i] ELSE q[i - 2]
    BY <1>1
  <1>3. /\ Len(t) = 4 /\ t[1] = p[1] /\ t[2] = p[2]
        /\ t[3] = q[3 - 2] /\ t[4] = q[4 - 2]
    BY <1>2
  <1>4. 4 - 2 = 2 /\ 3 - 2 = 1  OBVIOUS
  <1>5. DOMAIN t = 1..4  BY <1>1, <1>3
  <1> QED  BY <1>1, <1>3, <1>4, <1>5 DEF t

\* The clips of two tasks, with the versions of the tasks.
LEMMA PairsCount ==
  ASSUME NEW a, NEW b, a # b
  PROVE  LET t == Pair(a) \o Pair(b)
         IN /\ Len(t) = 4 /\ IsPrefix(<<>>, t) /\ IsPrefix(Pair(a), t)
            /\ ToSet(t) = {Clip(a, 1), Clip(a, 2), Clip(b, 1), Clip(b, 2)}
            /\ Cardinality(ToSet(t)) = 4
  <1> DEFINE t == Pair(a) \o Pair(b)
             w == Clip(a, 1)
             x == Clip(a, 2)
             y == Clip(b, 1)
             z == Clip(b, 2)
  <1>1. w # x /\ w # y /\ w # z /\ x # y /\ x # z /\ y # z
    <2>1. /\ w.task = a /\ w.n = 1 /\ x.task = a /\ x.n = 2
          /\ y.task = b /\ y.n = 1 /\ z.task = b /\ z.n = 2
      BY DEF Clip
    <2>2. 1 # 2  OBVIOUS
    <2> HIDE DEF w, x, y, z
    <2> QED  BY <2>1, <2>2
  <1>2. Pair(a) = <<w, x>> /\ Pair(b) = <<y, z>>  BY DEF Pair
  <1> HIDE DEF w, x, y, z
  <1>3. /\ t \in Seq({w, x, y, z}) /\ Len(t) = 4 /\ DOMAIN t = 1..4
        /\ t[1] = w /\ t[2] = x /\ t[3] = y /\ t[4] = z
    <2> DEFINE S == {w, x, y, z}
               p == <<w, x>>
               q == <<y, z>>
    <2>1. Len(p) = 2 /\ Len(q) = 2 /\ p[1] = w /\ p[2] = x /\ q[1] = y /\ q[2] = z  OBVIOUS
    <2>2. p \in Seq(S) /\ q \in Seq(S)  OBVIOUS
    <2>3. t = p \o q  BY <1>2
    <2> HIDE DEF p, q, S, t
    <2>4. /\ t \in Seq(S) /\ Len(t) = 4 /\ DOMAIN t = 1..4
          /\ t[1] = p[1] /\ t[2] = p[2] /\ t[3] = q[1] /\ t[4] = q[2]
      BY <2>1, <2>2, <2>3, FourIs
    <2> QED  BY <2>1, <2>4 DEF S
  <1> HIDE DEF t
  <1>4. Len(t) = 4 /\ DOMAIN t = 1..4 /\ t[1] = w /\ t[2] = x /\ t[3] = y /\ t[4] = z
    BY <1>3
  <1>5. ToSet(t) = {w, x, y, z}
    <2>1. \A i \in 1..4 : i = 1 \/ i = 2 \/ i = 3 \/ i = 4  OBVIOUS
    <2>2. 1 \in 1..4 /\ 2 \in 1..4 /\ 3 \in 1..4 /\ 4 \in 1..4  OBVIOUS
    <2> QED  BY <1>4, <2>1, <2>2, Zenon DEF ToSet
  <1>6. Cardinality({w, x, y, z}) = 4
    <2>1. IsFiniteSet({w, x}) /\ Cardinality({w, x}) = 2  BY <1>1, TwoIs
    <2>2. y \notin {w, x} /\ z \notin {w, x, y}  BY <1>1
    <2>3. /\ IsFiniteSet({w, x} \cup {y})
          /\ Cardinality({w, x} \cup {y}) = Cardinality({w, x}) + 1
      BY <2>1, <2>2, FS_AddElement
    <2>4. {w, x} \cup {y} = {w, x, y} /\ {w, x, y} \cup {z} = {w, x, y, z}  OBVIOUS
    <2>5. IsFiniteSet({w, x, y}) /\ Cardinality({w, x, y}) = 3  BY <2>1, <2>3, <2>4
    <2>6. Cardinality({w, x, y} \cup {z}) = Cardinality({w, x, y}) + 1
      BY <2>2, <2>5, FS_AddElement
    <2> QED  BY <2>4, <2>5, <2>6
  <1>7. IsPrefix(<<>>, t) /\ IsPrefix(<<w, x>>, t)
    <2>1. SubSeq(<<>>, 1, 0) = <<>> /\ SubSeq(t, 1, 0) = <<>> /\ Len(<<>>) = 0 /\ 0 <= 4
      BY <1>3
    <2>2. SubSeq(<<w, x>>, 1, 2) = SubSeq(t, 1, 2)
      <3>1. /\ SubSeq(<<w, x>>, 1, 2) = [i \in 1..2 |-> <<w, x>>[i]]
            /\ SubSeq(t, 1, 2) = [i \in 1..2 |-> t[i]]
        BY <1>3
      <3>2. \A i \in 1..2 : <<w, x>>[i] = t[i]  BY <1>4
      <3> QED  BY <3>1, <3>2
    <2>3. Len(<<w, x>>) = 2 /\ 2 <= 4  OBVIOUS
    <2>4. IsPrefix(<<>>, t)  BY <1>4, <2>1 DEF IsPrefix
    <2>5. IsPrefix(<<w, x>>, t)  BY <1>4, <2>2, <2>3 DEF IsPrefix
    <2> QED  BY <2>4, <2>5
  <1> QED  BY <1>2, <1>4, <1>5, <1>6, <1>7 DEF t, w, x, y, z

\* Two clips are of each version.
LEMMA VersionsCount ==
  ASSUME NEW a, NEW b, a # b, Version(a) = 1, Version(b) = 2,
         NEW v \in 1..2
  PROVE  Cardinality({c \in ToSet(Pair(a) \o Pair(b)) : VersionOf(c) = v}) = 2
  <1> DEFINE all == ToSet(Pair(a) \o Pair(b))
  <1>1. all = {Clip(a, 1), Clip(a, 2), Clip(b, 1), Clip(b, 2)}  BY PairsCount
  <1>2. /\ VersionOf(Clip(a, 1)) = 1 /\ VersionOf(Clip(a, 2)) = 1
        /\ VersionOf(Clip(b, 1)) = 2 /\ VersionOf(Clip(b, 2)) = 2
    BY DEF VersionOf, Version, Clip
  <1>3. Clip(a, 1) # Clip(a, 2) /\ Clip(b, 1) # Clip(b, 2)
    <2>1. /\ Clip(a, 1).n = 1 /\ Clip(a, 2).n = 2 /\ Clip(b, 1).n = 1 /\ Clip(b, 2).n = 2
      BY DEF Clip
    <2> QED  BY <2>1
  <1> HIDE DEF all
  <1>4. CASE v = 1
    <2>1. {c \in all : VersionOf(c) = v} = {Clip(a, 1), Clip(a, 2)}  BY <1>1, <1>2, <1>4
    <2>2. Cardinality({Clip(a, 1), Clip(a, 2)}) = 2  BY <1>3, TwoIs
    <2> QED  BY <2>1, <2>2 DEF all
  <1>5. CASE v = 2
    <2>1. {c \in all : VersionOf(c) = v} = {Clip(b, 1), Clip(b, 2)}  BY <1>1, <1>2, <1>5
    <2>2. Cardinality({Clip(b, 1), Clip(b, 2)}) = 2  BY <1>3, TwoIs
    <2> QED  BY <2>1, <2>2 DEF all
  <1> QED  BY <1>4, <1>5

-----------------------------------------------------------------------------
(* The theorems.                                                           *)

\* The invariant at first.
LEMMA InitIs ==
  ASSUME Init
  PROVE  IInv
  BY DEF Init, IInv, Typed, Asked, DemoHeld, SongAsked, SongDelivered

\* The invariant after every step.
LEMMA StepKeeps ==
  ASSUME IInv, [Next]_vars
  PROVE  IInv'
  <1>1. CASE CreateOrder  BY <1>1, CreateOrderKeeps
  <1>2. CASE GenerateDemo  BY <1>2, GenerateDemoKeeps
  <1>3. CASE CheckDemoStatus  BY <1>3, CheckDemoStatusKeeps
  <1>4. CASE Queue  BY <1>4, QueueKeeps
  <1>5. CASE ProcessGenerationTask  BY <1>5, ProcessGenerationTaskKeeps
  <1>6. CASE CheckGenerationStatus  BY <1>6, CheckGenerationStatusKeeps
  <1>7. CASE \E i \in DOMAIN suno : SunoEnds(i)  BY <1>7, SunoEndsKeeps
  <1>8. CASE UNCHANGED vars
    <2>1. /\ UNCHANGED <<form, sunoPrompt, brief, texts, status, lane, demo, demoClips, demoJob,
                         songJob, heard, refused, suno, tracks>>
      BY <1>8 DEF vars, texts, lane
    <2>2. Typed' /\ Kept  BY <2>1, SunoStays DEF IInv, Typed
    <2>3. DemoHeld'  BY <2>1, <2>2, DemoKept DEF IInv
    <2>4. SongAsked' /\ SongDelivered'  BY <2>1, <2>2, SongKept DEF IInv
    <2>5. Asked'
      <3>1. CASE Written /\ status \notin {"form", "refused"}
        <4>1. \A t \in DOMAIN suno' \ DOMAIN suno : Faithful(suno'[t].input)  BY <2>1
        <4>2. status' \in {"pending", "queued", "processing", "completed", "failed"}
          BY <2>1, <3>1 DEF IInv, Asked
        <4> QED  BY <2>1, <2>2, <3>1, <4>1, <4>2, AskedKept DEF IInv
      <3>2. CASE status \in {"form", "refused"} /\ suno = <<>>
        <4>1. DOMAIN suno' = {}  BY <2>1, <3>2
        <4> QED  BY <2>1, <3>2, <4>1 DEF Asked
      <3> QED  BY <3>1, <3>2 DEF IInv, Asked
    <2> QED  BY <2>2, <2>3, <2>4, <2>5 DEF IInv
  <1> QED  BY <1>1, <1>2, <1>3, <1>4, <1>5, <1>6, <1>7, <1>8 DEF Next

\* The invariant always: nothing is asked of Suno that the form does not say, and each
\* job and its clips are told apart.
THEOREM TextsAndJobs == Spec => []IInv
  BY InitIs, StepKeeps, PTL DEF Spec

\* No answer of the customer is lost on the way to Suno, whatever the quiz asks and
\* whatever Suno refuses.
THEOREM AnswersReachSunoHolds == Spec => []AnswersReachSuno
  <1>1. IInv => AnswersReachSuno  BY DEF IInv, Asked, Faithful, AnswersReachSuno
  <1> QED  BY <1>1, TextsAndJobs, PTL

\* Words of the customer are sung as given, and an instrumental song has none.
THEOREM OwnWordsAreSungHolds == Spec => []OwnWordsAreSung
  <1>1. IInv => OwnWordsAreSung  BY DEF IInv, Asked, Faithful, OwnWordsAreSung
  <1> QED  BY <1>1, TextsAndJobs, PTL

\* Two clips of each text are delivered, those of the demo among them and first.
THEOREM TwoTextsHolds == Spec => []TwoTexts
  <1>1. IInv => TwoTexts
    <2> SUFFICES ASSUME IInv, status = "completed", WordsGiven = Absent, ~refused,
                        \A i \in DOMAIN songJob : suno[songJob[i]].clips = clipsPerTask,
                        Len(heard) \in {0, 2}
                 PROVE  /\ Len(tracks) = 4 /\ Cardinality(ToSet(tracks)) = 4
                        /\ IsPrefix(heard, tracks)
                        /\ \A v \in 1..2 :
                             Cardinality({c \in ToSet(tracks) : VersionOf(c) = v}) = 2
      BY DEF TwoTexts, clipsPerTask, DefaultTrackCount
    <2>1. CASE Len(heard) = 0
      <3>1. /\ songJob[1] # songJob[2] /\ Version(songJob[1]) = 1 /\ Version(songJob[2]) = 2
            /\ tracks = Pair(songJob[1]) \o Pair(songJob[2])
        BY <2>1 DEF IInv, SongAsked, SongDelivered
      <3>2. heard = <<>>
        <4>1. CASE heard = demoClips
          <5>1. CASE demo = "ready"
            <6>1. /\ demoJob[1] \in DOMAIN suno
                  /\ demoClips = [n \in 1..suno[demoJob[1]].clips |-> Clip(demoJob[1], n)]
              BY <5>1 DEF IInv, DemoHeld, GetTask
            <6>2. suno[demoJob[1]] \in Task  BY <6>1 DEF IInv, Typed
            <6>3. suno[demoJob[1]].clips \in Nat  BY <6>2 DEF Task
            <6>4. Len(demoClips) = suno[demoJob[1]].clips  BY <6>1, <6>3
            <6> QED  BY <2>1, <4>1, <6>1, <6>4
          <5>2. CASE demo # "ready"  BY <4>1, <5>2 DEF IInv, DemoHeld
          <5> QED  BY <5>1, <5>2
        <4> QED  BY <4>1 DEF IInv, DemoHeld
      <3> QED  BY <3>1, <3>2, PairsCount, VersionsCount
    <2>2. CASE Len(heard) = 2
      <3>1. heard # <<>>  BY <2>2
      <3>2. heard = demoClips /\ demo = "ready"  BY <3>1 DEF IInv, DemoHeld
      <3>3. /\ songJob[1] # demoJob[1] /\ Version(songJob[1]) = 2 /\ Version(demoJob[1]) = 1
            /\ tracks = Pair(demoJob[1]) \o Pair(songJob[1])
            /\ demoJob[1] \in DOMAIN suno
            /\ demoClips = [n \in 1..suno[demoJob[1]].clips |-> Clip(demoJob[1], n)]
        BY <2>2, <3>2 DEF IInv, DemoHeld, SongAsked, SongDelivered, GetTask
      <3>4. suno[demoJob[1]] \in Task  BY <3>3 DEF IInv, Typed
      <3>5. suno[demoJob[1]].clips \in Nat  BY <3>4 DEF Task
      <3>6. suno[demoJob[1]].clips = 2
        <4>1. Len(demoClips) = suno[demoJob[1]].clips  BY <3>3, <3>5
        <4> QED  BY <2>2, <3>2, <4>1
      <3>7. heard = Pair(demoJob[1])
        <4>1. demoClips = GetTask(demoJob[1]).clips  BY <3>2 DEF IInv, DemoHeld
        <4> QED  BY <3>2, <3>6, <4>1, PairIs
      <3>8. /\ Len(tracks) = 4 /\ IsPrefix(Pair(demoJob[1]), tracks)
            /\ Cardinality(ToSet(tracks)) = 4
        BY <3>3, PairsCount
      <3>9. ASSUME NEW v \in 1..2
            PROVE  Cardinality({c \in ToSet(tracks) : VersionOf(c) = v}) = 2
        <4>1. Cardinality({c \in ToSet(Pair(demoJob[1]) \o Pair(songJob[1])) :
                             VersionOf(c) = v}) = 2
          BY <3>3, VersionsCount
        <4> QED  BY <3>3, <4>1
      <3> QED  BY <3>7, <3>8, <3>9
    <2> QED  BY <2>1, <2>2
  <1> QED  BY <1>1, TextsAndJobs, PTL
=============================================================================
