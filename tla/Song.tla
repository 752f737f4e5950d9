-------------------------------- MODULE Song --------------------------------
(***************************************************************************)
(* What of the customer's answers reaches the song: the form becomes one   *)
(* stored text (BuildFinalPrompt and the #SUNO_...# markers), the text is  *)
(* taken apart and becomes the requests sent to Suno, first for the demo,  *)
(* then for the paid versions, and their clips become the tracks of the    *)
(* order.  One order, its demo and its paid generation run side by side.   *)
(*                                                                         *)
(* A text is told by its contents: the facts it states, the words of the   *)
(* customer it quotes, which of two versions it asks for, and whether it   *)
(* demands an instrumental track.  An answer is a single sentence.         *)
(***************************************************************************)
EXTENDS Integers, FiniteSets, SequencesExt

CONSTANTS
  Quizzes,     \* categories: [template, required], see IsQuiz
  StoryKeys,   \* mapping keys put into a template
  Genres,      \* answers to GENRE in Latin letters; one in Cyrillic is "own"
  ClipCounts,  \* numbers of clips Suno makes of one task
  MaxTasks     \* bound: tasks created at Suno

SkipKeys == {"VOCAL", "GENRE", "EXTRA", "CUSTOM_LYRICS"}

\* A template is its set of sentences: the keys it names, and whether it is one of
\* the stock sentences that cleanSubstitutedTemplate takes out.
IsQuiz(q) ==
  /\ q.required \subseteq StoryKeys
  /\ \A s \in q.template : s.keys \subseteq StoryKeys \cup SkipKeys /\ s.stock \in BOOLEAN

ASSUME SongQuizzes == \A q \in Quizzes : IsQuiz(q)
ASSUME SongKeys == StoryKeys \cap SkipKeys = {}
ASSUME SongGenres == Genres \cap {"none", "own"} = {}
ASSUME SongNumbers == ClipCounts \subseteq Nat /\ MaxTasks \in Nat

Absent == "none"
DefaultTrackCount == 4
DefaultLyricVariantCount == 2
clipsPerTask == 2

\* The customer's own words are a phrase or a whole song (IsCompleteSongLyrics).
Words == {Absent, "phrase", "song"}
Vocals == {Absent, "voice", "instrumental"}

\* A customer answers a quiz, or fills the constructor of the site, or sends a plain
\* brief; an answer may be left out or, in the quiz, sent blank.
Answers ==
  [story: [StoryKeys -> {"given", "blank", Absent}], extra: BOOLEAN,
   vocal: Vocals, genre: Genres \cup {Absent, "own"}, words: Words]
ByQuiz == [by: {"quiz"}, quiz: Quizzes, answers: Answers]
ByConstructor ==
  [by: {"constructor"}, vocal: {"voice", "instrumental"}, words: Words]
ByBrief == [by: {"brief"}]
Forms == ByQuiz \cup ByConstructor \cup ByBrief

VARIABLES
  form,        \* what the customer has sent
  status,      \* "form", "refused", "pending", then orders.generation_status
  sunoPrompt,  \* orders.suno_prompt
  brief,       \* orders.brief
  demo,        \* orders.demo_status
  demoClips,   \* orders.demo_clips
  demoJob,     \* the job id the demo polls: indices of tasks
  songJob,     \* the job id the paid generation polls
  heard,       \* the demo clips the last submission has counted on
  refused,     \* history: the last submission lost one of its jobs
  suno,        \* tasks at Suno, in the order of their creation
  tracks       \* orders.tracks

texts == <<form, sunoPrompt, brief>>
lane == <<demo, demoClips, demoJob>>
vars == <<texts, status, lane, songJob, heard, refused, suno, tracks>>

-----------------------------------------------------------------------------
(* Texts (pkg/suno/prompt.go).                                             *)

Says(facts, words, silent) ==
  [facts |-> facts, words |-> words, version |-> 1, silent |-> silent]
Blank == Says({}, Absent, FALSE)
Quote(w) == Says({}, w, FALSE)

\* A stored text has marked sections, or is plain.
Plain(t) == [sections |-> <<>>, plain |-> t]
NoText == Plain(Blank)

\* EncodePromptWithLyrics: DESC is written whenever there are no lyrics.
Encode(tags, description, lyrics) ==
  LET value == [TAGS |-> tags, DESC |-> description, LYRICS |-> lyrics]
      written == {n \in DOMAIN value :
                    \/ n = "TAGS" /\ tags # {}
                    \/ n = "DESC" /\ (description # Blank \/ lyrics = Blank)
                    \/ n = "LYRICS" /\ lyrics # Blank}
  IN IF tags = {} /\ description = Blank /\ lyrics = Blank THEN NoText
     ELSE [plain |-> Blank, sections |-> [n \in written |-> value[n]]]

SectionOf(text, name, nothing) ==
  IF name \in DOMAIN text.sections THEN text.sections[name] ELSE nothing

\* DecodePrompt; ok is FALSE for a plain text, and when every section is empty.
Decode(text) ==
  LET tags == SectionOf(text, "TAGS", {})
      description == SectionOf(text, "DESC", Blank)
      lyrics == SectionOf(text, "LYRICS", Blank)
  IN [ok |-> tags # {} \/ description # Blank \/ lyrics # Blank,
      tags |-> tags, description |-> description, lyrics |-> lyrics]

IsInstrumental(tags) == "instrumental" \in tags
IsComplete(lyrics) == lyrics.words = "song"
IsStructured(text) == text.words = "song"

\* BuildStyleTagsFromAnswersWithCustomGenres; a genre in Cyrillic goes to the text.
StyleTags(a) ==
  LET pieces == {a.vocal, a.genre} \ {Absent, "own"} IN
  IF pieces = {} /\ a.genre # "own" THEN {"russian pop", "heartfelt"}
  ELSE IF IsInstrumental(pieces) THEN pieces ELSE pieces \cup {"russian lyrics"}

FilledIfGiven(s, a) == \A k \in s.keys : k \in StoryKeys /\ a.story[k] = "given"

\* No [KEY] is left in the sentence: a style key is never put in, a blank answer is.
Filled(s, a) == \A k \in s.keys : k \in StoryKeys /\ a.story[k] # Absent

\* StripUnfilledPlaceholders after the answers are put in.
Substituted(template, a) == {s \in template : Filled(s, a)}

\* cleanSubstitutedTemplate, and what is left when it takes out everything.
Cleaned(sentences) ==
  LET body == {s \in sentences : ~s.stock} IN IF body = {} THEN sentences ELSE body

FactsIn(sentences, a) ==
  {k \in StoryKeys \cap UNION {s.keys : s \in sentences} : a.story[k] = "given"}

\* FormatQuizDescription, with the genres in Cyrillic and VocalRequirementLine.
FormatQuizDescription(sentences, a, instrumental) ==
  Says({"TITLE"} \cup FactsIn(Cleaned(sentences), a)
       \cup (IF a.extra THEN {"EXTRA"} ELSE {})
       \cup (IF a.genre = "own" THEN {"GENRE"} ELSE {})
       \cup (IF a.vocal # Absent /\ ~instrumental THEN {"VOCAL"} ELSE {}),
       Absent, instrumental)

\* An instrumental song has no use for the words.
OwnLyrics(words, instrumental) == IF instrumental THEN Blank ELSE Quote(words)

BuildFinalPrompt(quiz, a) ==
  LET tags == StyleTags(a)
      instrumental == IsInstrumental(tags) \/ a.vocal = "instrumental"
  IN Encode(tags,
            FormatQuizDescription(Substituted(quiz.template, a), a, instrumental),
            OwnLyrics(a.words, instrumental))

\* composeCatalogBrief of the site.
ConstructorBrief(f) ==
  LET instrumental == f.vocal = "instrumental"
      facts == {"STORY"} \cup (IF instrumental THEN {} ELSE {"VOCAL"})
  IN Encode(IF instrumental THEN {f.vocal} ELSE {f.vocal, "russian lyrics"},
            Says(facts, Absent, instrumental),
            OwnLyrics(f.words, instrumental))

PlainBrief == Plain(Says({"STORY"}, Absent, FALSE))

ValidateQuizAnswers(quiz, a) == \A k \in quiz.required : a.story[k] = "given"

-----------------------------------------------------------------------------
(* Requests (order_usecase.go, generation_jobs.go, pkg/suno).              *)

MusicInput(tags, instrumental, lyrics, description) ==
  [tags |-> tags, instrumental |-> instrumental, lyrics |-> lyrics, description |-> description]

\* Sung word for word, or described.
Sing(tags, instrumental, lyrics) == MusicInput(tags, instrumental, lyrics, Blank)
Describe(tags, instrumental, description) == MusicInput(tags, instrumental, Blank, description)

\* weaveVerbatimLines.
Weave(description, lyrics) == [description EXCEPT !.words = lyrics.words]

ResolveSinging(text, style, instrumental) ==
  LET enc == Decode(text)
      tags == IF style # {} THEN style ELSE enc.tags
  IN IF enc.lyrics # Blank
       THEN Sing(tags, instrumental, enc.lyrics)
       ELSE Describe(tags, instrumental, IF enc.ok THEN enc.description ELSE text.plain)

\* ResolveMusicInput.
Resolve(text, style, instrumental) ==
  LET enc == Decode(text)
      tags == IF style # {} THEN style ELSE enc.tags
      idea == IF enc.ok THEN enc.description ELSE text.plain
      quiet == instrumental \/ IsInstrumental(tags)
  IN IF enc.lyrics # Blank
       THEN IF IsComplete(enc.lyrics) THEN Sing(tags, quiet, enc.lyrics)
            ELSE Describe(tags, quiet, Weave(idea, enc.lyrics))
     ELSE IF enc.ok \/ ~IsStructured(idea) THEN Describe(tags, quiet, idea)
     ELSE Sing(tags, quiet, idea)

\* demoBrief, and the text buildGenerationBriefs starts from.
RawText == IF sunoPrompt # NoText THEN sunoPrompt ELSE brief

\* sunoInspirationBriefs: the same words twice, or two versions of the text.
Briefs(raw) ==
  LET enc == Decode(raw)
      idea == IF enc.ok THEN enc.description ELSE raw.plain
      second == [idea EXCEPT !.version = 2]
      words == Encode(enc.tags, Blank, enc.lyrics)
  IN IF enc.ok /\ enc.lyrics # Blank THEN <<words, words>>
     ELSE IF enc.tags # {}
            THEN <<Encode(enc.tags, idea, Blank), Encode(enc.tags, second, Blank)>>
            ELSE <<Plain(idea), Plain(second)>>

\* resolveSunoStyleTags.
Style == IF Decode(sunoPrompt).tags # {} THEN Decode(sunoPrompt).tags ELSE Decode(brief).tags

\* Two clips come of one task.
TasksFor(count) == IF count <= clipsPerTask THEN 1 ELSE (count + clipsPerTask - 1) \div clipsPerTask

MusicGenerationRequest(briefs, count) == [briefs |-> briefs, style |-> Style, count |-> count]

\* generationJobs: a task for each text, or several of the first text.
Jobs(request) ==
  LET input(text) == Resolve(text, request.style, IsInstrumental(request.style)) IN
  IF Len(request.briefs) >= DefaultLyricVariantCount /\ request.count >= DefaultTrackCount
    THEN [i \in 1..DefaultLyricVariantCount |-> input(request.briefs[i])]
    ELSE [i \in 1..TasksFor(request.count) |-> input(request.briefs[1])]

DemoRequest == MusicGenerationRequest(<<RawText>>, clipsPerTask)

BuildGenerationBriefs == Briefs(RawText)

FirstTextAgain ==
  MusicGenerationRequest(
    IF demoClips # <<>> THEN <<Head(BuildGenerationBriefs)>> ELSE BuildGenerationBriefs,
    DefaultTrackCount - Len(demoClips))

\* With clips of the demo only the missing versions are asked for, of the last text.
SongRequest ==
  IF Len(demoClips) \in 1..DefaultTrackCount - 1
    THEN MusicGenerationRequest(<<Last(BuildGenerationBriefs)>>, DefaultTrackCount - Len(demoClips))
    ELSE MusicGenerationRequest(BuildGenerationBriefs, DefaultTrackCount)

\* A task at Suno: in Custom Mode the lyrics alone are sent.
CreateMusicTask(in) ==
  [input |-> IF in.lyrics # Blank THEN [in EXCEPT !.description = Blank] ELSE in,
   status |-> "running", clips |-> 0]

\* SubmitGeneration: the jobs in made, in their order, become tasks; the others are
\* refused.
Selections(jobs) ==
  {made \in UNION {[1..n -> DOMAIN jobs] : n \in 0..Len(jobs)} :
     \A i, j \in DOMAIN made : i < j => made[i] < made[j]}
Created(jobs, made) == [i \in DOMAIN made |-> CreateMusicTask(jobs[made[i]])]
TaskIds(n) == [i \in 1..n |-> Len(suno) + i]

-----------------------------------------------------------------------------
(* Results.                                                                *)

Clip(task, n) == [task |-> task, n |-> n]
GetTask(task) ==
  [status |-> suno[task].status, clips |-> [n \in 1..suno[task].clips |-> Clip(task, n)]]

\* FetchResult: all the tasks of the job together.
Result(job) ==
  IF \E i \in DOMAIN job : GetTask(job[i]).status = "running" THEN "running"
  ELSE IF \A i \in DOMAIN job : GetTask(job[i]).clips = <<>> THEN "failed" ELSE "completed"
Fetched(job) == FlattenSeq([i \in DOMAIN job |-> GetTask(job[i]).clips])

\* CheckGenerationStatus: the demo comes first if all fit the four versions.
Delivered(fetched) ==
  IF demoClips # <<>> /\ Len(fetched) <= DefaultTrackCount - Len(demoClips)
    THEN demoClips \o fetched ELSE fetched

-----------------------------------------------------------------------------
Init ==
  /\ form \in Forms
  /\ status = "form"
  /\ sunoPrompt = NoText /\ brief = NoText
  /\ demo = "none" /\ demoClips = <<>> /\ demoJob = <<>>
  /\ songJob = <<>> /\ heard = <<>> /\ refused = FALSE
  /\ suno = <<>> /\ tracks = <<>>

Store(prompt, b) ==
  /\ status' = "pending" /\ sunoPrompt' = prompt /\ brief' = b

\* CreateOrder.  With a quiz the brief is only what the admin is shown.
CreateOrder ==
  /\ status = "form"
  /\ \/ /\ form.by = "quiz"
        /\ IF ValidateQuizAnswers(form.quiz, form.answers)
             THEN Store(BuildFinalPrompt(form.quiz, form.answers), PlainBrief)
             ELSE status' = "refused" /\ UNCHANGED <<sunoPrompt, brief>>
     \/ form.by = "constructor" /\ Store(NoText, ConstructorBrief(form))
     \/ form.by = "brief" /\ Store(NoText, PlainBrief)
  /\ UNCHANGED <<form, lane, songJob, heard, refused, suno, tracks>>

\* GenerateDemo, again after a demo that failed; Suno may refuse.
GenerateDemo ==
  LET jobs == Jobs(DemoRequest) IN
  /\ status = "pending" /\ demo \in {"none", "failed"}
  /\ \/ /\ Len(suno) < MaxTasks
        /\ suno' = suno \o Created(jobs, [i \in DOMAIN jobs |-> i])
        /\ demo' = "processing" /\ demoJob' = TaskIds(Len(jobs))
     \/ demo' = "failed" /\ UNCHANGED <<suno, demoJob>>
  /\ UNCHANGED <<texts, status, demoClips, songJob, heard, refused, tracks>>

\* CheckDemoStatus.
CheckDemoStatus ==
  /\ demo = "processing" /\ Result(demoJob) # "running"
  /\ IF Result(demoJob) = "completed"
       THEN demo' = "ready" /\ demoClips' = Fetched(demoJob)
       ELSE demo' = "failed" /\ UNCHANGED demoClips
  /\ UNCHANGED <<texts, status, demoJob, songJob, heard, refused, suno, tracks>>

\* HandlePaymentSuccess, and RegenerateOrder of a song that failed.
Queue ==
  /\ status \in {"pending", "failed"}
  /\ status' = "queued"
  /\ UNCHANGED <<texts, lane, songJob, heard, refused, suno, tracks>>

\* ProcessGenerationTask: some job may be refused; if all are, or the poll cannot be
\* enqueued, the order is queued again and the tasks made are lost.
ProcessGenerationTask ==
  LET jobs == Jobs(SongRequest) IN
  /\ status = "queued"
  /\ \E made \in Selections(jobs) :
       /\ Len(suno) + Len(made) <= MaxTasks
       /\ suno' = suno \o Created(jobs, made)
       /\ \/ /\ made # <<>> /\ status' = "processing"
             /\ songJob' = TaskIds(Len(made))
             /\ heard' = demoClips /\ refused' = (Len(made) < Len(jobs))
          \/ UNCHANGED <<status, songJob, heard, refused>>
  /\ UNCHANGED <<texts, lane, tracks>>

\* CheckGenerationStatus, once the uploads have succeeded.
CheckGenerationStatus ==
  /\ status = "processing" /\ Result(songJob) # "running"
  /\ IF Result(songJob) = "completed"
       THEN status' = "completed" /\ tracks' = Delivered(Fetched(songJob))
       ELSE status' = "failed" /\ UNCHANGED tracks
  /\ UNCHANGED <<texts, lane, songJob, heard, refused, suno>>

\* Suno ends a task, with any number of clips, or fails it.
SunoEnds(i) ==
  /\ suno[i].status = "running"
  /\ \/ \E n \in ClipCounts :
          suno' = [suno EXCEPT ![i].status = "success", ![i].clips = n]
     \/ suno' = [suno EXCEPT ![i].status = "failure"]
  /\ UNCHANGED <<texts, status, lane, songJob, heard, refused, tracks>>

Next ==
  \/ CreateOrder
  \/ GenerateDemo \/ CheckDemoStatus
  \/ Queue \/ ProcessGenerationTask \/ CheckGenerationStatus
  \/ \E i \in DOMAIN suno : SunoEnds(i)

Spec == Init /\ [][Next]_vars

-----------------------------------------------------------------------------
(* Properties.                                                             *)

WordsGiven ==
  CASE form.by = "quiz" -> form.answers.words
    [] form.by = "constructor" -> form.words
    [] OTHER -> Absent

\* An answer about the voice or the genre may ask for a song without words.
InstrumentalGiven ==
  CASE form.by = "quiz" -> "instrumental" \in {form.answers.vocal, form.answers.genre}
    [] form.by = "constructor" -> form.vocal = "instrumental"
    [] OTHER -> FALSE

\* The answers that a sentence of the template tells without an answer left out.
InFull(s, a) == ~s.stock /\ s.keys \subseteq StoryKeys /\ \A k \in s.keys : a.story[k] # Absent
ToldByQuiz(quiz, a) ==
  {k \in StoryKeys : a.story[k] = "given" /\ \E s \in quiz.template : k \in s.keys /\ InFull(s, a)}
  \cup (IF a.extra THEN {"EXTRA"} ELSE {})
Told == IF form.by = "quiz" THEN ToldByQuiz(form.quiz, form.answers) ELSE {"STORY"}

\* Every request in which Suno writes the words itself, of the demo and of both
\* versions, after any refusal, retry or reuse of the demo, tells the customer's
\* story: no answer is lost between the form, the stored text and the two texts made
\* of it.  An order with words of its own is excepted: see README.
AnswersReachSuno ==
  \A i \in DOMAIN suno :
    WordsGiven = Absent \/ InstrumentalGiven
      => suno[i].input.lyrics = Blank /\ Told \subseteq suno[i].input.description.facts

\* A whole song of the customer is sung as it stands, in the demo and in every
\* version; a phrase is put into every text that Suno writes; and an instrumental
\* order never sends words, while its text, its tags and its flag all say so.
OwnWordsAreSung ==
  \A i \in DOMAIN suno :
    LET input == suno[i].input IN
    IF InstrumentalGiven
      THEN /\ input.instrumental /\ IsInstrumental(input.tags)
           /\ input.lyrics = Blank
           /\ input.description.silent /\ input.description.words = Absent
      ELSE /\ ~input.instrumental /\ ~input.description.silent
           /\ WordsGiven = "song" => input.lyrics = Quote("song")
           /\ WordsGiven = "phrase" => /\ input.lyrics = Blank
                                       /\ input.description.words = "phrase"

VersionOf(clip) == suno[clip.task].input.description.version

\* When Suno refuses nothing and makes two clips of each task, the customer gets four
\* different clips, two of each text, the demo first if there was one in time, whether
\* it became ready before, during or after the submission (DefaultLyricVariantCount).
TwoTexts ==
  status = "completed" /\ WordsGiven = Absent /\ ~refused
  /\ (\A i \in DOMAIN songJob : suno[songJob[i]].clips = clipsPerTask)
  /\ Len(heard) \in {0, clipsPerTask}
    => /\ Len(tracks) = DefaultTrackCount /\ Cardinality(ToSet(tracks)) = DefaultTrackCount
       /\ IsPrefix(heard, tracks)
       /\ \A v \in 1..2 : Cardinality({c \in ToSet(tracks) : VersionOf(c) = v}) = 2
=============================================================================
