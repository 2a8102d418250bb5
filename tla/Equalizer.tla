----------------------------- MODULE Equalizer ------------------------------
(***************************************************************************)
(* The session's equalizer.  Application threads edit its bands and        *)
(* controls under mutex_; the render callback copies them under the same   *)
(* mutex, lets it go, brings the chain of the pipeline it holds up to date *)
(* and reports back under the mutex again; the decode worker publishes new *)
(* pipelines.  Frequencies, gains and rates are small numbers; the width of*)
(* a band and the sound itself are left out.                               *)
(***************************************************************************)
EXTENDS Integers, SequencesExt, FiniteSetsExt

CONSTANTS
  MaxBands, MinFrequency, MaxFrequency, Spacing, \* the limits of a layout
  MaxGain, MaxVolume,
  Presets,      \* the built-in presets in their order, names
  Curve,        \* their gain at each frequency
  Rates,        \* sample rates of the stream; a band above its rate is not heard
  DefaultRate,  \* the one assumed before a rate is known
  DefaultFrequencies, \* of the layout a session starts with
  States,       \* the bands and remembered gains an application may ask for
  Frequencies, Gains, Volumes, \* values it may ask for
  MaxVersion    \* bounds the changes

\* There is room for as many bands as are allowed.
ASSUME LayoutAssumption ==
  /\ MaxBands \in Nat \ {0} /\ Spacing \in Nat /\ MaxGain \in Nat
  /\ MinFrequency \in Int /\ MaxFrequency \in Int
  /\ MinFrequency + (MaxBands - 1) * Spacing <= MaxFrequency

\* builtin_equalizer_presets, without the entry for custom that every operation skips.
ASSUME PresetAssumption ==
  /\ Presets \in Seq(STRING)
  /\ "flat" \in ToSet(Presets) /\ "custom" \notin ToSet(Presets)
  /\ \A p \in ToSet(Presets), f \in MinFrequency..MaxFrequency :
       Curve[p][f] \in (-MaxGain)..MaxGain
  /\ \A f \in MinFrequency..MaxFrequency : Curve["flat"][f] = 0

\* What is not finite is refused before anything is changed.
ASSUME ArgumentAssumption ==
  /\ Frequencies \subseteq Int /\ Gains \subseteq Int
  /\ \A asked \in States : /\ asked.bands \in Seq([frequency : Int, gain : Int])
                           /\ asked.lastNonflat \in Seq(Int)

VARIABLES
  bands, activePreset, lastNonflat, \* of equalizer_state_
  knobs,                            \* enabled, output gain, volume
  headroom, eqStatus,               \* headroom_compensation_db, status
  version, rate,                    \* equalizer_control_version_, last_known_sample_rate_
  closed, resetting,                \* closed_; a reset_equalizer between its two locks
  engineUp,                         \* the render stream works
  requestedRate, chain,             \* requested_render_format_; the published pipeline's chain
  workerRate,                       \* of the pipeline the decode worker is preparing
  pc, snapshot, held, heldIsPublished \* the callback, its copy, the chain it holds

layout == <<bands, activePreset, lastNonflat>>
metadata == <<headroom, eqStatus, version>>
control == <<closed, resetting, engineUp>>
pipeline == <<requestedRate, chain, workerRate>>
callback == <<pc, snapshot, held, heldIsPublished>>
vars == <<layout, knobs, metadata, rate, control, pipeline, callback>>

-----------------------------------------------------------------------------
(* Band layouts.                                                           *)

Band(f, g) == [frequency |-> f, gain |-> g]

Larger(x, y) == IF x >= y THEN x ELSE y
Smaller(x, y) == IF x <= y THEN x ELSE y
Clamp(x, low, high) == Larger(low, Smaller(x, high))

\* No more bands than are allowed, in range, sorted, and apart.
Legal(list) ==
  /\ Len(list) <= MaxBands
  /\ \A i \in DOMAIN list : list[i].frequency \in MinFrequency..MaxFrequency
  /\ \A i \in 2..Len(list) : list[i].frequency >= list[i - 1].frequency + Spacing

\* Upwards: every band makes room above the one before it.
PushedUp(frequencies) ==
  LET up[i \in DOMAIN frequencies] ==
        IF i = 1 THEN frequencies[i]
        ELSE Larger(frequencies[i], up[i - 1] + Spacing)
  IN  up

\* Downwards: every band makes room below the next; the last is not above MaxFrequency.
PushedDown(frequencies) ==
  LET down[i \in DOMAIN frequencies] ==
        IF i = Len(frequencies) THEN Smaller(frequencies[i], MaxFrequency)
        ELSE Larger(Smaller(frequencies[i], down[i + 1] - Spacing), MinFrequency)
  IN  down

\* Variant: the bands are not pushed down again from the last one.
PushedUpOnly(frequencies) ==
  LET up == PushedUp(frequencies)
  IN  [i \in DOMAIN up |-> Smaller(up[i], MaxFrequency)]

Spread(frequencies) == PushedDown(PushedUp(frequencies))

\* The first bands there is room for, with values in range.
Clamped(list) ==
  [i \in 1..Smaller(Len(list), MaxBands) |->
    Band(Clamp(list[i].frequency, MinFrequency, MaxFrequency),
         Clamp(list[i].gain, -MaxGain, MaxGain))]

\* So few bands are sorted by insertion: of two at one frequency the first stays first.
Before(list, i, j) ==
  \/ list[i].frequency < list[j].frequency
  \/ list[i].frequency = list[j].frequency /\ i < j

Place(list, i) == 1 + Cardinality({j \in DOMAIN list : Before(list, j, i)})

Sorted(list) ==
  [k \in DOMAIN list |-> list[CHOOSE i \in DOMAIN list : Place(list, i) = k]]

Normalize(list) ==
  LET sorted == Sorted(Clamped(list))
      spread == Spread([i \in DOMAIN sorted |-> sorted[i].frequency])
  IN  [i \in DOMAIN sorted |-> Band(spread[i], sorted[i].gain)]

\* equalizer_band_editable_frequency_range: from Lowest to Highest.
Lowest(list, i) ==
  IF i = 1 THEN MinFrequency
  ELSE Larger(MinFrequency, list[i - 1].frequency + Spacing)

Highest(list, i) ==
  IF i = Len(list) THEN MaxFrequency
  ELSE Smaller(MaxFrequency, list[i + 1].frequency - Spacing)

BandGains(list) == [i \in DOMAIN list |-> list[i].gain]

Projected(preset, list) == [i \in DOMAIN list |-> Curve[preset][list[i].frequency]]

IsPreset(preset, list) == BandGains(list) = Projected(preset, list)

\* Variant: only the flat curve is recognised.
FlatOrCustom(list) == IF IsPreset("flat", list) THEN "flat" ELSE "custom"

\* The first built-in preset whose curve the gains follow.
Recognised(list) ==
  LET i == SelectInSeq(Presets, LAMBDA p : IsPreset(p, list))
  IN  IF i = 0 THEN "custom" ELSE Presets[i]

IsFlat(list) == \A i \in DOMAIN list : list[i].gain = 0

\* The snapshot for coming back from flat; another number of bands forgets it.
Remembered(old, list) ==
  IF ~IsFlat(list) THEN BandGains(list)
  ELSE IF Len(old) = Len(list) THEN old ELSE [i \in DOMAIN list |-> 0]

\* compute_target_preamp_db: as far down as the highest boost, and one more.
Preamp(list, r) ==
  LET peak == Max({0} \cup {list[i].gain : i \in {j \in DOMAIN list : list[j].frequency <= r}})
  IN  IF peak > 0 THEN -(peak + 1) ELSE 0

DefaultBands == [i \in DOMAIN DefaultFrequencies |-> Band(DefaultFrequencies[i], 0)]

\* make_default_equalizer_bands gives frequencies that are already legal.
ASSUME DefaultAssumption == DefaultFrequencies \in Seq(Int) /\ Legal(DefaultBands)

\* The snapshot an application brings along, cut to the number of bands.
Brought(gains, list) ==
  [i \in DOMAIN list |->
    IF i \in DOMAIN gains THEN Clamp(gains[i], -MaxGain, MaxGain) ELSE 0]

-----------------------------------------------------------------------------
NoChain == [version |-> -2]

\* equalizer_chain::configure: nothing told, nothing in transition.
Configured(told, r) ==
  [version |-> told, bands |-> <<>>, headroom |-> 0, rate |-> r,
   knobs |-> [enabled |-> FALSE, outputGain |-> 0, volume |-> MaxVolume],
   preamp |-> 0, settling |-> 0]

\* A new pipeline's chain has never been told the controls.
NeverTold == -1

NewChain(r) == Configured(NeverTold, r)

NoSnapshot == [version |-> -2]

NoRate == 0
DeadWorker == -1

Init ==
  /\ \/ /\ bands = DefaultBands /\ eqStatus = "loading"
        /\ activePreset = "flat" /\ headroom = 0
        /\ lastNonflat = [i \in DOMAIN bands |-> 0]
     \/ \E asked \in States :
          /\ Len(asked.bands) <= MaxBands
          /\ bands = Normalize(asked.bands) /\ eqStatus = "ready"
          /\ activePreset = Recognised(bands)
          /\ headroom = Preamp(bands, DefaultRate)
          /\ lastNonflat = Remembered(Brought(asked.lastNonflat, bands), bands)
  /\ knobs = [enabled |-> FALSE, outputGain |-> 0, volume |-> MaxVolume]
  /\ version = 0 /\ rate = 0
  /\ closed = FALSE /\ resetting = FALSE /\ engineUp = TRUE
  /\ requestedRate = 0 /\ chain = NoChain /\ workerRate = NoRate
  /\ pc = "idle" /\ snapshot = NoSnapshot /\ held = NoChain /\ heldIsPublished = FALSE

-----------------------------------------------------------------------------
(* The application, each operation under one lock unless said.             *)

\* Variant: the control version stays, so a chain takes itself for up to date.
VersionKept == version' = version

Bump == version < MaxVersion /\ version' = version + 1

\* recompute_equalizer_metadata_locked.
Recompute(list, r) ==
  /\ headroom' = Preamp(list, IF r > 0 THEN r ELSE DefaultRate)
  /\ eqStatus' = IF eqStatus = "audio_engine_unavailable" THEN eqStatus ELSE "ready"
  /\ Bump

SetLayout(list, preset) ==
  /\ bands' = list
  /\ activePreset' = preset
  /\ lastNonflat' = Remembered(lastNonflat, list)
  /\ Recompute(list, rate)

EditsOnlyLayout == UNCHANGED <<knobs, rate, control, pipeline, callback>>

SetVolumePercent(v) ==
  /\ ~closed
  /\ knobs' = [knobs EXCEPT !.volume = Clamp(v, 0, MaxVolume)]
  /\ Bump
  /\ UNCHANGED <<layout, headroom, eqStatus, rate, control, pipeline, callback>>

SetOutputGain(g) ==
  /\ ~closed
  /\ knobs' = [knobs EXCEPT !.outputGain = Clamp(g, -MaxGain, MaxGain)]
  /\ Bump
  /\ UNCHANGED <<layout, headroom, eqStatus, rate, control, pipeline, callback>>

SetEnabled(on) ==
  /\ ~closed
  /\ knobs' = [knobs EXCEPT !.enabled = on]
  /\ Recompute(bands, rate)
  /\ UNCHANGED <<layout, rate, control, pipeline, callback>>

Shaped(preset) == [i \in DOMAIN bands |->
                     Band(bands[i].frequency, Projected(preset, bands)[i])]

SelectPreset(preset) ==
  /\ ~closed
  /\ SetLayout(Shaped(preset), preset)
  /\ EditsOnlyLayout

SetBandGain(i, g) ==
  /\ ~closed
  /\ LET list == [bands EXCEPT ![i].gain = Clamp(g, -MaxGain, MaxGain)]
     IN  SetLayout(list, Recognised(list))
  /\ EditsOnlyLayout

\* The width is not modelled; what else the operation does is.
SetBandQ ==
  /\ ~closed /\ bands # <<>>
  /\ Recompute(bands, rate)
  /\ UNCHANGED <<layout, knobs, rate, control, pipeline, callback>>

\* Refused at the limit, and where the neighbours leave no room.
AddBand(frequency, g) ==
  /\ ~closed
  /\ Len(bands) < MaxBands
  /\ LET f == Clamp(frequency, MinFrequency, MaxFrequency)
         i == 1 + Cardinality({k \in DOMAIN bands : bands[k].frequency < f})
         inserted == InsertAt(bands, i, Band(f, Clamp(g, -MaxGain, MaxGain)))
         list == [inserted EXCEPT ![i].frequency =
                    Clamp(f, Lowest(inserted, i), Highest(inserted, i))]
     IN  /\ Lowest(inserted, i) <= Highest(inserted, i)
         /\ SetLayout(list, Recognised(list))
  /\ EditsOnlyLayout

RemoveBand(i) ==
  /\ ~closed
  /\ LET list == RemoveAt(bands, i) IN SetLayout(list, Recognised(list))
  /\ EditsOnlyLayout

SetBandFrequency(i, f) ==
  /\ ~closed
  /\ Lowest(bands, i) <= Highest(bands, i)
  /\ LET list == [bands EXCEPT ![i].frequency =
                    Clamp(f, Lowest(bands, i), Highest(bands, i))]
     IN  SetLayout(list, Recognised(list))
  /\ EditsOnlyLayout

ApplyState(asked, on, g) ==
  /\ ~closed
  /\ Len(asked.bands) <= MaxBands
  /\ LET list == Normalize(asked.bands)
     IN  /\ bands' = list
         /\ activePreset' = Recognised(list)
         /\ lastNonflat' = Remembered(Brought(asked.lastNonflat, list), list)
         /\ Recompute(list, rate)
  /\ knobs' = [knobs EXCEPT !.enabled = on, !.outputGain = Clamp(g, -MaxGain, MaxGain)]
  /\ UNCHANGED <<rate, control, pipeline, callback>>

\* reset_equalizer takes the mutex twice and looks at closed_ the first time only.
ResetBegin ==
  /\ ~closed /\ ~resetting
  /\ SetLayout(Shaped("flat"), "flat")
  /\ resetting' = TRUE
  /\ UNCHANGED <<knobs, rate, closed, engineUp, pipeline, callback>>

ResetEnd ==
  /\ resetting
  /\ resetting' = FALSE
  /\ knobs' = [knobs EXCEPT !.outputGain = 0]
  /\ Recompute(bands, rate)
  /\ UNCHANGED <<layout, rate, closed, engineUp, pipeline, callback>>

Close ==
  /\ ~closed
  /\ closed' = TRUE
  /\ UNCHANGED <<layout, knobs, metadata, rate, resetting, engineUp, pipeline, callback>>

-----------------------------------------------------------------------------
(* The stream under the session.                                           *)

EngineLost ==
  /\ ~closed
  /\ engineUp /\ pc = "idle"
  /\ engineUp' = FALSE
  /\ eqStatus' \in {"audio_engine_unavailable", "error"}
  /\ UNCHANGED <<layout, knobs, headroom, version, rate, closed, resetting, pipeline,
                 callback>>

\* Reopening it failed.
RecoveryFails ==
  /\ ~closed
  /\ ~engineUp
  /\ eqStatus' = "error"
  /\ UNCHANGED <<layout, knobs, headroom, version, rate, control, pipeline, callback>>

\* Reopening the stream tells the equalizer nothing.
EngineRecovered ==
  /\ ~closed
  /\ ~engineUp
  /\ engineUp' = TRUE
  /\ UNCHANGED <<layout, knobs, metadata, rate, closed, resetting, pipeline, callback>>

SelectOutputDevice ==
  /\ ~closed
  /\ eqStatus' = "loading"
  /\ UNCHANGED <<layout, knobs, headroom, version, rate, control, pipeline, callback>>

-----------------------------------------------------------------------------
(* The decode worker and the render callback.                              *)

WorkerTakesRate ==
  /\ ~closed
  /\ workerRate = NoRate /\ requestedRate # NoRate
  /\ workerRate' = requestedRate
  /\ UNCHANGED <<layout, knobs, metadata, rate, control, requestedRate, chain, callback>>

\* A failed open or a newer command; or an exception, after which it is gone.
WorkerGivesUp ==
  /\ workerRate > 0
  /\ \/ workerRate' = NoRate /\ UNCHANGED eqStatus
     \/ workerRate' = DeadWorker /\ eqStatus' = IF closed THEN eqStatus ELSE "error"
  /\ UNCHANGED <<layout, knobs, headroom, version, rate, control, requestedRate, chain,
                 callback>>

\* The rate may have changed since it was taken.
PublishPipeline ==
  /\ ~closed
  /\ workerRate > 0
  /\ chain' = NewChain(workerRate)
  /\ heldIsPublished' = FALSE
  /\ rate' = workerRate
  /\ Recompute(bands, workerRate)
  /\ workerRate' = NoRate
  /\ UNCHANGED <<layout, knobs, control, requestedRate, pc, snapshot, held>>

\* The callback has the mutex: it copies the controls.
RenderCopy(r) ==
  /\ pc = "idle" /\ ~closed /\ engineUp
  /\ rate' = r /\ requestedRate' = r
  /\ IF chain # NoChain /\ chain.rate = r
       THEN /\ snapshot' = [version |-> version, bands |-> bands, knobs |-> knobs,
                            headroom |-> headroom]
            /\ held' = chain /\ heldIsPublished' = TRUE
            /\ pc' = "mixing"
       ELSE UNCHANGED <<pc, snapshot, held, heldIsPublished>>
  /\ UNCHANGED <<layout, knobs, metadata, control, chain, workerRate>>

\* One step of a transition that has some steps left: an even part of the way.
Smoothed(value, target, left) ==
  IF left = 0 THEN value ELSE value + (target - value) \div left

\* The preamp goes to its new value over two blocks.
Processed(c) ==
  [c EXCEPT !.preamp = Smoothed(@, c.headroom, c.settling),
            !.settling = Larger(0, @ - 1)]

\* Variant: a chain that has been told any controls is taken for up to date.
ToldOnce(c, s) == IF c.version >= 0 THEN c
  ELSE [c EXCEPT !.version = s.version, !.bands = s.bands, !.knobs = s.knobs,
                 !.headroom = s.headroom, !.settling = 2]

\* A chain told other controls than the copy's is told the copy, and its transitions
\* start again.
Told(c, s) ==
  IF c.version = s.version THEN c
  ELSE [c EXCEPT !.version = s.version, !.bands = s.bands, !.knobs = s.knobs,
                 !.headroom = s.headroom, !.settling = 2]

\* No block, or one of a superseded request: the controls wait for the next.
RenderNothing ==
  /\ pc = "mixing"
  /\ pc' = "idle" /\ snapshot' = NoSnapshot /\ held' = NoChain /\ heldIsPublished' = FALSE
  /\ UNCHANGED <<layout, knobs, metadata, rate, control, pipeline>>

RenderBlock ==
  /\ pc = "mixing"
  /\ held' = Processed(Told(held, snapshot))
  /\ chain' = IF heldIsPublished THEN held' ELSE chain
  /\ pc' = "reporting"
  /\ UNCHANGED <<layout, knobs, metadata, rate, control, requestedRate, workerRate,
                 snapshot, heldIsPublished>>

\* The report, unless the mutex is taken or the block has been superseded.
RenderReport ==
  /\ pc = "reporting"
  /\ \/ /\ ~closed
        /\ rate' = held.rate
        /\ headroom' = held.headroom
     \/ UNCHANGED <<rate, headroom>>
  /\ pc' = "idle" /\ snapshot' = NoSnapshot /\ held' = NoChain /\ heldIsPublished' = FALSE
  /\ UNCHANGED <<layout, knobs, eqStatus, version, control, pipeline>>

-----------------------------------------------------------------------------
\* Each moves the control version, which is bounded.
Edit ==
  /\ version < MaxVersion
  /\ \/ \E v \in Volumes : SetVolumePercent(v)
     \/ \E g \in Gains : SetOutputGain(g)
     \/ \E on \in BOOLEAN : SetEnabled(on)
     \/ \E p \in ToSet(Presets) : SelectPreset(p)
     \/ \E i \in DOMAIN bands, g \in Gains : SetBandGain(i, g)
     \/ SetBandQ
     \/ \E f \in Frequencies, g \in Gains : AddBand(f, g)
     \/ \E i \in DOMAIN bands : RemoveBand(i)
     \/ \E i \in DOMAIN bands, f \in Frequencies : SetBandFrequency(i, f)
     \/ \E asked \in States, on \in BOOLEAN, g \in Gains : ApplyState(asked, on, g)
     \/ ResetBegin \/ ResetEnd

Render == (\E r \in Rates : RenderCopy(r)) \/ RenderNothing \/ RenderBlock \/ RenderReport

Next ==
  \/ Edit \/ Close
  \/ EngineLost \/ RecoveryFails \/ EngineRecovered \/ SelectOutputDevice
  \/ WorkerTakesRate \/ WorkerGivesUp \/ PublishPipeline \/ Render

\* A callback that has begun ends; it waits for nothing.
Spec == Init /\ [][Next]_vars /\ WF_vars(RenderNothing \/ RenderBlock \/ RenderReport)

-----------------------------------------------------------------------------
\* Whatever the order of edits, the bands stay sorted, apart and in range: every
\* edit works out for itself where a band may go.
LayoutIsLegal == Legal(bands)

\* active_preset_id names a preset the gains follow, or custom if they follow none,
\* though a moved band meets every curve elsewhere; and last_nonflat_band_gains_db
\* fits the bands and is their gains unless they are flat.
DescriptionIsTrue ==
  /\ activePreset = "custom" <=> \A p \in ToSet(Presets) : ~IsPreset(p, bands)
  /\ activePreset # "custom" => IsPreset(activePreset, bands)
  /\ Len(lastNonflat) = Len(bands)
  /\ ~IsFlat(bands) => lastNonflat = BandGains(bands)

\* A chain that would not be told anything more has the session's bands, gain,
\* volume and switch: nothing is changed without a new control version.
UpToDateMeansEqual ==
  chain # NoChain =>
    (chain.version = version => chain.bands = bands /\ chain.knobs = knobs)

\* While blocks go on being played, the last change of the controls is heard for good:
\* the chain comes to have the session's bands, gain, volume and switch and keeps them,
\* and its preamp settles at the one the session reports.  A late report may have left
\* both at the preamp of the curve before the change: see HeadroomFitsBands.
ChangesAreHeard ==
  []<>(pc = "reporting" /\ heldIsPublished) =>
    <>[](/\ chain.version = version
         /\ chain.bands = bands /\ chain.knobs = knobs
         /\ chain.headroom = headroom /\ chain.preamp = headroom)

-----------------------------------------------------------------------------
(* Said of the program, and not so.                                        *)

\* headroom_compensation_db is worked out from the curve of the bands, at some rate:
\* what equalizer.h says of it.
HeadroomFitsBands ==
  headroom \in {Preamp(bands, r) : r \in Rates \cup {DefaultRate}}
=============================================================================
