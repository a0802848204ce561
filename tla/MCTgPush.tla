------------------------------- MODULE MCTgPush -------------------------------
(* Small instances of TgPush; one unit of the clock is a minute, and the   *)
(* hour is shortened (Hour) so that the cap is reached.  Beside it the      *)
(* pusher's rehearsals, and the profiles and the editor of the community,   *)
(* which share nothing with it nor with each other: in a behaviour one of   *)
(* them moves.                                                              *)
EXTENDS TgPush, Sequences, TLC

CONSTANTS s1, s2, s3, s4, t1, t2, a1,
  Lanes, None, Never, pic1, pic2, bad,
  \* Of the components beside TgPush; their modules say what each is.
  Nicked, Staff, Nicknames, FoldedName(_), NameOfOperator(_), Forms, MONTH, LastDay,
  Places, Pictures, Unreadable, MAX_IMAGES, MaxStored,
  PastStories, PastTraits, PastTitle, Boilerplate, WordStarts, PastSimilar, PastCap, PastHour,
  PastCooldown, PastRecapCooldown, EventWindow, PastAge, PastLength, Bodies, LINK_CHARS

\* A nickname in small letters is never empty; the figures are days and counts.
ASSUME ProfilesAssumption == MONTH \in Nat /\ \A n \in Nicknames : FoldedName(n) # None
ASSUME ComposerAssumption == MAX_IMAGES \in Nat

\* The lines a story's body may hold, and what the replay counts in.
BodyLines == {"text", "blank", "related", "note", "source", "footer", "raw_source"}
ASSUME RehearsalAssumption ==
  /\ Bodies \subseteq Seq(BodyLines)
  /\ {PastCap, PastCooldown, PastRecapCooldown, EventWindow, LINK_CHARS} \subseteq Nat
  /\ PastHour \in Nat \ {0} /\ PastLength \in Nat /\ None \notin Nat

BothWays(pairs) == pairs \cup {<<q[2], q[1]>> : q \in pairs}

MCPublished == (s1 :> 0) @@ (s2 :> 1) @@ (s3 :> 2) @@ (s4 :> 3)
MCPublished2 == (s1 :> 0) @@ (s2 :> 1)
\* s2 and s3 tell one event in different words, s4 rewrites s1.
MCSameEvent == BothWays({<<s2, s3>>})
MCSimilarKey == BothWays({<<s1, s4>>})
MCNoPairs == {}

\* The component that moves; the others stay in an initial state of theirs.
VARIABLES lane,
  profiles_day, profiles_username, profiles_nickname_key, profiles_nickname_changed_at,
  profiles_picture, profiles_email_answer_notifications, profiles_verified, profiles_request,
  composer_body, composer_imageFiles, composer_previews, composer_removed, composer_images,
  composer_savedBody, composer_promised,
  rehearsal_command, rehearsal_published, rehearsal_now, rehearsal_todo, rehearsal_taken,
  rehearsal_keys, rehearsal_events, rehearsal_last, rehearsal_last_recap, rehearsal_hour_anchor,
  rehearsal_hour_count, rehearsal_out, rehearsal_shown

profilesVars == <<profiles_day, profiles_username, profiles_nickname_key,
    profiles_nickname_changed_at, profiles_picture, profiles_email_answer_notifications,
    profiles_verified, profiles_request>>
composerVars == <<composer_body, composer_imageFiles, composer_previews, composer_removed,
    composer_images, composer_savedBody, composer_promised>>
rehearsalVars == <<rehearsal_command, rehearsal_published, rehearsal_now, rehearsal_todo,
    rehearsal_taken, rehearsal_keys, rehearsal_events, rehearsal_last, rehearsal_last_recap,
    rehearsal_hour_anchor, rehearsal_hour_count, rehearsal_out, rehearsal_shown>>
allVars == <<lane, vars, profilesVars, composerVars, rehearsalVars>>

MCFoldedName(n) == IF n = "Kim" THEN "kim" ELSE n
MCNameOfOperator(u) == "lee"

\* A launch told twice, a recap, a breaking recap, and a story whose title is like the recap's.
MCTraits == <<{"breaking"}, {}, {"recap"}, {"breaking", "recap"}, {}>>
MCTitle ==
  <<{"launch", "missile", "north"}, {"launched", "missile", "the"}, {"btc"}, {"btc"}, {"rates", "fed"}>>
MCStarts == {<<"launch", "launched">>}
MCSimilar == {<<3, 5>>, <<5, 3>>}
MCBodies ==
  {<<>>, <<"text", "text">>} \cup {<<l>> : l \in BodyLines} \cup {<<"text", l>> : l \in BodyLines}

profiles == INSTANCE Profiles WITH
  Members <- Nicked, Operators <- Staff, Names <- Nicknames, Fold <- FoldedName,
  OperatorName <- NameOfOperator, Tabs <- Forms, MONTH <- MONTH, LastDay <- LastDay, Never <- Never,
  None <- None, day <- profiles_day, username <- profiles_username,
  nickname_key <- profiles_nickname_key, nickname_changed_at <- profiles_nickname_changed_at,
  picture <- profiles_picture, email_answer_notifications <- profiles_email_answer_notifications,
  verified <- profiles_verified, request <- profiles_request

composer == INSTANCE Composer WITH
  Places <- Places, Pictures <- Pictures, Unreadable <- Unreadable, MAX_IMAGES <- MAX_IMAGES,
  MaxStored <- MaxStored, None <- None, body <- composer_body, imageFiles <- composer_imageFiles,
  previews <- composer_previews, removed <- composer_removed, images <- composer_images,
  savedBody <- composer_savedBody, promised <- composer_promised

rehearsal == INSTANCE Rehearsal WITH
  Stories <- PastStories, Traits <- PastTraits, Title <- PastTitle, Boilerplate <- Boilerplate,
  Starts <- WordStarts, SimilarKey <- PastSimilar, MAX_PER_HOUR <- PastCap, Hour <- PastHour,
  COOLDOWN <- PastCooldown, RECAP_COOLDOWN <- PastRecapCooldown, EVENT_WINDOW <- EventWindow,
  MAX_AGE <- PastAge, Length <- PastLength, Bodies <- Bodies, LINK_CHARS <- LINK_CHARS,
  None <- None, command <- rehearsal_command, published <- rehearsal_published,
  now <- rehearsal_now, todo <- rehearsal_todo, taken <- rehearsal_taken, keys <- rehearsal_keys,
  events <- rehearsal_events, last <- rehearsal_last, last_recap <- rehearsal_last_recap,
  hour_anchor <- rehearsal_hour_anchor, hour_count <- rehearsal_hour_count, out <- rehearsal_out,
  shown <- rehearsal_shown

LaneInit ==
  /\ lane \in Lanes /\ Init
  /\ profiles!Init
  /\ lane = "profiles" \/ \A m \in Nicked : ~profiles_verified[m]
  /\ composer!Init
  /\ rehearsal!Init
  /\ lane = "rehearsal" \/ (rehearsal_command = "replay" /\ \A s \in PastStories : rehearsal_published[s] = 0)

PushStep(A) == lane = "push" /\ A /\ UNCHANGED <<lane, profilesVars, composerVars, rehearsalVars>>
ProfilesStep(A) == lane = "profiles" /\ A /\ UNCHANGED <<lane, vars, composerVars, rehearsalVars>>
ComposerStep(A) == lane = "composer" /\ A /\ UNCHANGED <<lane, vars, profilesVars, rehearsalVars>>
RehearsalStep(A) == lane = "rehearsal" /\ A /\ UNCHANGED <<lane, vars, profilesVars, composerVars>>

LaneNext ==
  \/ PushStep(Advance)
  \/ \E s \in Stories : PushStep(Collect(s))
  \/ \E p \in Ticks : PushStep(TickStep(p))
  \/ \E p \in Agents : PushStep(PostStep(p))
  \/ \E p \in Runs : PushStep(SendStep(p)) \/ PushStep(Kill(p))
  \/ \E t \in Forms, m \in Nicked, n \in Nicknames :
       \/ ProfilesStep(profiles!Onboarding(t, m, n)) \/ ProfilesStep(profiles!EditNickname(t, m, n))
  \/ \E t \in Forms :
       \/ ProfilesStep(profiles!complete_profile(t)) \/ ProfilesStep(profiles!UpdateNickname(t))
  \/ \E m \in Nicked :
       \/ ProfilesStep(profiles!edit_avatar(m))
       \/ \E kind \in {"icon", "photo"} : ProfilesStep(profiles!profile_image(m, kind))
       \/ \E enabled \in BOOLEAN : ProfilesStep(profiles!SetAnswerEmail(m, enabled))
  \/ ProfilesStep(profiles!NextDay)
  \/ \E pic \in Pictures, p \in Places : ComposerStep(composer!addInlineImage(pic, p))
  \/ \E pics \in {<<a>> : a \in Pictures} \cup (Pictures \X Pictures) :
       ComposerStep(composer!setFileInputFromSelection(pics))
  \/ \E p \in Places, source \in composer!Source : ComposerStep(composer!Edit(p, source))
  \/ \E i \in composer!Stored : ComposerStep(composer!TickRemoval(i))
  \/ ComposerStep(composer!Restored) \/ ComposerStep(composer!Save) \/ ComposerStep(composer!Refuse)
  \/ \E s \in PastStories : RehearsalStep(rehearsal!Visit(s))
  \/ RehearsalStep(rehearsal!NextMinute)
  \/ rehearsal_command = "dry_run" /\ rehearsal_shown = None /\ \E item \in rehearsal!Items :
       RehearsalStep(rehearsal!DryRun(item))
  \/ \E body \in Bodies, order \in {<<"related", "source">>, <<"source", "related">>} :
       RehearsalStep(rehearsal!ShapeCheck(<<"titled">> \o body \o order \o <<"footer">>))

LaneSpec == LaneInit /\ [][LaneNext]_allVars

LaneFairSpec ==
  /\ LaneSpec
  /\ \A p \in Ticks :
       WF_allVars(PushStep(BeginTick(p) \/ Gauge(p) \/ Consider(p) \/ Leave(p) \/ SendStep(p)))
  /\ \A p \in Agents : WF_allVars(PushStep(CheckPost(p) \/ SendStep(p)))

-----------------------------------------------------------------------------
\* The properties of the components.
\* Nobody takes another's name, and a changed one stays for a month (Profiles.tla).
NamesStay == profiles!NamesStay
\* A picture seen in the text is the one readers see there (Composer.tla).
PreviewIsSaved == lane = "composer" => composer!PreviewIsSaved
\* A replay keeps the pacing it is read for, and a message that passes is whole (Rehearsal.tla).
RehearsalTells == lane = "rehearsal" => rehearsal!Paced /\ rehearsal!Shapely
=============================================================================
