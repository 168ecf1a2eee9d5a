-------------------------- MODULE PosterCandidates --------------------------
(***************************************************************************)
(* Which posters the control panel offers for an item: the ranking and the *)
(* fallback of services/posters/candidates.py, and the language check of   *)
(* services/posters/quality.py.  Pure: no state of the panel is involved.  *)
(*                                                                         *)
(* An item is its Plex type and what its Guid list says.  The catalogues'  *)
(* answers are one record: the posters each holds for the item (a failed   *)
(* request, a 404 and an empty list are all the empty sequence) and        *)
(* whether TMDb's /find and TheTVDB's login answer.  A poster is the two   *)
(* numbers it is ranked by and its language; urls and labels are left out. *)
(***************************************************************************)
EXTENDS Integers, Sequences, FiniteSets

Sources == <<"tmdb", "fanart", "tvdb", "omdb", "tvmaze">>
Keyed == {"tmdb", "fanart", "tvdb", "omdb"}

-----------------------------------------------------------------------------
\* The ids of an item

\* A direct tmdb:// id, or one that /find knows; tmdb:// with no number after it falls through.
TmdbId(item, world) ==
  \/ item.tmdb = "number"
  \/ item.type = "show" /\ item.tvdb # "absent" /\ world.findTvdb
  \/ item.imdb /\ world.findImdb

\* fanart_ids_for_item: movies are keyed by the TMDb id, shows by TheTVDB's.
FanartId(item) == IF item.type = "movie" THEN item.tmdb = "number" ELSE item.tvdb = "number"

-----------------------------------------------------------------------------
\* Ranking

\* The pair a source ranks by: vote average and count, likes and English, score alone.
Merit(source, p) ==
  CASE source = "fanart" -> <<p.rate, IF p.lang \in {"en", "00"} THEN 1 ELSE 0>>
    [] source = "tvdb"   -> <<p.rate, 0>>
    [] OTHER             -> <<p.rate, p.votes>>

Better(m, n) == m[1] > n[1] \/ (m[1] = n[1] /\ m[2] > n[2])

\* list.sort(reverse=True) keeps the order of equals.
Ahead(source, posters, i, j) ==
  LET m == Merit(source, posters[i])
      n == Merit(source, posters[j])
  IN Better(m, n) \/ (m = n /\ i < j)

Place(source, posters, j) == 1 + Cardinality({i \in DOMAIN posters : Ahead(source, posters, i, j)})

Ranked(source, posters) ==
  [k \in DOMAIN posters |-> posters[CHOOSE j \in DOMAIN posters : Place(source, posters, j) = k]]

Cut(posters, limit) == SubSeq(posters, 1, IF Len(posters) < limit THEN Len(posters) ELSE limit)

Top(source, posters, limit) == Cut(Ranked(source, posters), limit)

-----------------------------------------------------------------------------
\* One source

TmdbTopPosters(item, world, limit) ==
  IF TmdbId(item, world) THEN Top("tmdb", world.posters["tmdb"], limit) ELSE <<>>

FanartTopPosters(item, world, limit) ==
  IF FanartId(item) THEN Top("fanart", world.posters["fanart"], limit) ELSE <<>>

\* Without a token, from the cache or from a login, TheTVDB offers nothing.
TvdbTopPosters(item, world, limit) ==
  IF item.tvdb = "number" /\ world.token THEN Top("tvdb", world.posters["tvdb"], limit) ELSE <<>>

\* OMDb and TVmaze answer with one poster at most, whatever the limit.
OmdbTopPosters(item, world) == IF item.imdb THEN Cut(world.posters["omdb"], 1) ELSE <<>>

TvmazeTopPosters(item, world) ==
  IF item.type = "show" /\ item.imdb THEN Cut(world.posters["tvmaze"], 1) ELSE <<>>

Offered(source, item, world, limit) ==
  CASE source = "tmdb"   -> TmdbTopPosters(item, world, limit)
    [] source = "fanart" -> FanartTopPosters(item, world, limit)
    [] source = "tvdb"   -> TvdbTopPosters(item, world, limit)
    [] source = "omdb"   -> OmdbTopPosters(item, world)
    [] source = "tvmaze" -> TvmazeTopPosters(item, world)

-----------------------------------------------------------------------------
\* The fallback through the sources

Configured(source, keys) == source \in keys \cup {"tvmaze"}

\* _require_source_configured answers 503 otherwise.
RequireSourceConfigured(source, keys) == Configured(source, keys)

\* The primary source, then the others as they come.
Order(primary) ==
  LET p == CHOOSE p \in DOMAIN Sources : Sources[p] = primary
  IN [n \in DOMAIN Sources |->
        IF n = 1 THEN primary ELSE IF n <= p THEN Sources[n - 1] ELSE Sources[n]]

First(N) == CHOOSE n \in N : \A k \in N : n <= k

\* Defect: the first configured source decides, whatever it offers.
ResolveFirstConfigured(item, keys, primary, world, limit) ==
  LET order == Order(primary)
      source == order[First({n \in DOMAIN order : Configured(order[n], keys)})]
      offer == Offered(source, item, world, limit)
  IN [source |-> IF offer = <<>> THEN "none" ELSE source, candidates |-> offer]

ResolvePosterCandidates(item, keys, primary, world, limit) ==
  LET order == Order(primary)
      offers == {n \in DOMAIN order : /\ Configured(order[n], keys)
                                      /\ Offered(order[n], item, world, limit) # <<>>}
  IN IF offers = {} THEN [source |-> "none", candidates |-> <<>>]
     ELSE LET source == order[First(offers)]
          IN [source |-> source, candidates |-> Offered(source, item, world, limit)]

-----------------------------------------------------------------------------
\* The quality scan

\* LANG_639_2_TO_1 knows the usual languages; Swahili stands for those it lacks.
TwoLetter(code) == CASE code = "eng" -> "en" [] code = "jpn" -> "ja" [] OTHER -> "none"

\* The selected audio stream's tag, or its code translated.
PrimaryAudioLang(audio) == IF audio.tag # "none" THEN audio.tag ELSE TwoLetter(audio.code)

\* TMDb's single highest-voted poster against the audio; textless art never differs.
LanguageMismatch(item, keys, world, audio) ==
  /\ "tmdb" \in keys
  /\ PrimaryAudioLang(audio) # "none"
  /\ TmdbId(item, world)
  /\ world.posters["tmdb"] # <<>>
  /\ LET lang == Ranked("tmdb", world.posters["tmdb"])[1].lang
     IN lang # "none" /\ lang # PrimaryAudioLang(audio)

\* Plex's grey title card is small; an image that cannot be decoded is not one.
IsPlaceholder(image) == image.small /\ image.grey /\ image.decodes

ScanItemQuality(item, keys, world, audio, image) ==
  IF IsPlaceholder(image) THEN {"placeholder"}
  ELSE {f \in {"low_res", "language_mismatch"} :
          IF f = "low_res" THEN image.decodes /\ image.narrow
          ELSE LanguageMismatch(item, keys, world, audio)}

-----------------------------------------------------------------------------
\* Bounded inputs: every item, two or three posters per ranked catalogue.

Guids == {"absent", "number", "garbage"}
Movie == [type : {"movie"}, tmdb : Guids, tvdb : Guids, imdb : BOOLEAN]
Show == [type : {"show"}, tmdb : Guids, tvdb : Guids, imdb : BOOLEAN]
Poster(rate, votes, lang) == [rate |-> rate, votes |-> votes, lang |-> lang]
Fair == Poster(1, 1, "en")
Liked == Poster(1, 2, "sw")
Loved == Poster(2, 1, "none")

\* What the ranked catalogues may hold, and what the others may.
Lists == {<<>>, <<Fair, Liked>>, <<Liked, Loved, Fair>>}
Singles == {<<>>, <<Fair>>}
Holdings ==
  {h \in [{"tmdb", "fanart", "tvdb", "omdb", "tvmaze"} -> Lists \cup Singles] :
     \A s \in DOMAIN h : h[s] \in IF s \in {"omdb", "tvmaze"} THEN Singles ELSE Lists}
Worlds == [posters : Holdings, findTvdb : {TRUE}, findImdb : {FALSE}, token : {TRUE}]
            \cup [posters : Holdings, findTvdb : {FALSE}, findImdb : {TRUE}, token : {FALSE}]
TmdbWorlds == {w \in Worlds : \A s \in {"fanart", "tvdb", "omdb", "tvmaze"} : w.posters[s] = <<>>}
KeySets == {{}, {"fanart", "tvdb"}, {"tmdb", "omdb"}, Keyed}

Sample(P(_, _, _, _)) ==
  \A item \in Movie \cup Show, keys \in KeySets, world \in Worlds :
    \A primary \in {s \in {"tmdb", "fanart", "tvdb", "omdb", "tvmaze"} :
                      RequireSourceConfigured(s, keys)} :
      P(item, keys, world, primary)

\* What the automatic sync applies is the first candidate that a review of the same item shows,
\* and both come from the same source: the picker's "apply auto for the rest" relies on it.
AutoPicksFirstCandidate ==
  Sample(LAMBDA item, keys, world, primary :
    LET auto == ResolvePosterCandidates(item, keys, primary, world, 1)
        review == ResolvePosterCandidates(item, keys, primary, world, 3)
    IN auto.source = review.source /\ auto.candidates = Cut(review.candidates, 1))

\* An item goes without a poster only when no configured catalogue holds one under an id the item
\* has there; and no source is passed over in favour of a later one.
MissMeansNoneHoldsOne ==
  Sample(LAMBDA item, keys, world, primary :
    LET known == {s \in {"omdb"} : item.imdb}
                   \cup {s \in {"tvmaze"} : item.imdb /\ item.type = "show"}
                   \cup {s \in {"tvdb"} : item.tvdb = "number" /\ world.token}
                   \cup {s \in {"fanart"} : item.type = "movie" /\ item.tmdb = "number"}
                   \cup {s \in {"fanart"} : item.type = "show" /\ item.tvdb = "number"}
                   \cup {s \in {"tmdb"} : TmdbId(item, world)}
        holding == {s \in known : Configured(s, keys) /\ world.posters[s] # <<>>}
        used == ResolvePosterCandidates(item, keys, primary, world, 1).source
        position == [s \in holding |-> CHOOSE n \in 1..5 : Order(primary)[n] = s]
    IN IF holding = {} THEN used = "none"
       ELSE used \in holding /\ \A s \in holding : position[used] <= position[s])

\* A poster is flagged for its language only if the audio is in another one: a language the table
\* lacks is a missed flag and never a false one.  The streams are those with a plain two-letter tag
\* or none; a regional tag such as en-us is compared as it is.
NoFalseMismatch ==
  \A item \in Movie \cup Show, keys \in KeySets, world \in TmdbWorlds :
    \A tag \in {"none", "en", "sw"}, code \in {"none", "eng", "swa"}, small \in BOOLEAN :
      LET audio == [tag |-> tag, code |-> code]
          image == [small |-> small, grey |-> TRUE, decodes |-> TRUE, narrow |-> FALSE]
          spoken == IF tag # "none" THEN tag
                    ELSE CASE code = "eng" -> "en" [] code = "swa" -> "sw" [] OTHER -> "none"
          best == {n \in DOMAIN world.posters["tmdb"] :
                     \A k \in DOMAIN world.posters["tmdb"] :
                       ~Better(Merit("tmdb", world.posters["tmdb"][k]),
                               Merit("tmdb", world.posters["tmdb"][n]))}
      IN "language_mismatch" \in ScanItemQuality(item, keys, world, audio, image) =>
           spoken # "none" /\ \E n \in best : world.posters["tmdb"][n].lang \notin {"none", spoken}

=============================================================================
