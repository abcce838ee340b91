---------------------------- MODULE DataProcessor ----------------------------
(***************************************************************************)
(* The energy counters of the phases (data_processor.cpp, with the part of *)
(* PowerInfo and InverterSettings it uses).  A Fronius inverter reports    *)
(* one energy counter; with several phases DataProcessor shares it out     *)
(* over the phases, weighting each increase with voltage * current.  The   *)
(* data come from SolarApiUpdater, in two answers, or from SunspecUpdater, *)
(* in one frame; the latter also serves an inverter of one phase that is   *)
(* connected between two (a split phase system).  SolarApiUpdater, and it  *)
(* only, saves the phase counters to the settings every ten minutes, from  *)
(* where they come back after a restart.                                   *)
(*                                                                         *)
(* Energies are exact rationals (doubles in the code): rounding is not     *)
(* modelled, nor are infinities, which no answer the code parses contains. *)
(* A value that a reply of the Solar API leaves out is read as 0           *)
(* (QVariant::toDouble); a SunSpec frame is taken to hold the counter.     *)
(*                                                                         *)
(* The parts of the specification are named for the energy, so that a      *)
(* module may extend this one along with InverterMediator.                 *)
(***************************************************************************)
EXTENDS Integers

CONSTANTS MaxTotal,     \* bound on the energy counter of the inverter
          Weights,      \* the voltage * current of the phases in an answer
          MaxPolls      \* bound on the answers processed

ASSUME BoundAssumption  == MaxTotal \in Nat /\ MaxPolls \in Nat
\* Voltages and currents are not negative.
ASSUME WeightAssumption == Weights \subseteq [1..3 -> Nat]

VARIABLES sunspec,      \* the data come from SunspecUpdater
          phaseCount,   \* deviceInfo().phaseCount
          phase,        \* mSettings->phase(), used with one phase only
          counter,      \* the inverter's own counter, which never falls
          total,        \* meanPowerInfo()->totalEnergy()
          energy,       \* PowerInfo::totalEnergy of L1, L2 and L3
          saved,        \* InverterSettings::l1Energy ... l3Energy
          prev,         \* mPreviousTotalEnergy
          asked,        \* getThreePhasesInverterDataAsync is under way
          lost,         \* history: an answer left out the counter
          polls         \* answers processed, for the bound

energyVars == <<sunspec, phaseCount, phase, counter, total, energy, saved, prev, asked,
          lost, polls>>

MultiPhase == 0
Phases == 1..3          \* PhaseL1, PhaseL2, PhaseL3
InverterPhase == Phases \cup {MultiPhase}

\* Rationals, kept reduced so that equal numbers are equal states.
Rational == [n : Nat, d : Nat \ {0}]
Gcd(a, b) ==
  LET gcd[y \in 0..b] == [x \in Nat |-> IF y = 0 THEN x ELSE gcd[x % y][y]]
  IN  gcd[b][a]
Rat(n, d) == [n |-> n \div Gcd(n, d), d |-> d \div Gcd(n, d)]
Int2Rat(n) == Rat(n, 1)
Zero == Int2Rat(0)
Plus(a, b) == Rat(a.n * b.d + b.n * a.d, a.d * b.d)
Times(a, b) == Rat(a.n * b.n, a.d * b.d)
Over(a, b) == Rat(a.n * b.d, a.d * b.n)
AtMost(a, b) == a.n * b.d <= b.n * a.d

\* A D-Bus item without a value: getDouble gives NaN.
Invalid == [n |-> 0, d |-> 0]
Valid(e) == e.d # 0
\* std::isnormal: neither invalid nor zero.
Normal(e) == e.n # 0

\* mPreviousTotalEnergy = -1, before the first answer with the phases.
NoPrevious == -1

(***************************************************************************)
(* The data processor.                                                     *)
(***************************************************************************)
\* The phases an answer is shared out over.
Connected == 1..phaseCount

\* getEnergyValue
EnergyValue(p) == IF Normal(energy[p]) THEN energy[p] ELSE saved[p]
\* What is added up over the phases; there are at least two.
Sum(f) == IF phaseCount > 2 THEN Plus(Plus(f[1], f[2]), f[3]) ELSE Plus(f[1], f[2])
Accumulated == Sum([p \in Phases |-> EnergyValue(p)])

\* energyDelta
Delta(new) == IF new > prev THEN new - prev ELSE 0
\* energyCorrection: nothing is shared out when no phase carries a current.
TotalVi(vi) == vi[1] + vi[2] + (IF phaseCount > 2 THEN vi[3] ELSE 0)
Shared(new, vi) == IF TotalVi(vi) > 0 THEN Delta(new) ELSE 0
Share(p, new, vi) ==
  IF TotalVi(vi) > 0 THEN Rat(vi[p] * Delta(new), TotalVi(vi)) ELSE Zero

\* updateEnergyValue: the old counter rescaled so that the counters add up to
\* the previous total, plus the share in the increase.
\* Seeded fault: the counter is incremented without the rescaling.
PhaseEnergyUnscaled(p, new, vi) == Plus(EnergyValue(p), Share(p, new, vi))
\* Seeded fault: a zero counter is not taken from the settings for the weight.
PhaseEnergyDBusOnly(p, new, vi) ==
  Plus(IF Normal(Accumulated)
         THEN Over(Times(Int2Rat(prev),
                         IF Valid(energy[p]) THEN energy[p] ELSE Zero),
                   Accumulated)
         ELSE Rat(prev, phaseCount),
       Share(p, new, vi))
PhaseEnergy(p, new, vi) ==
  Plus(IF Normal(Accumulated)
         THEN Over(Times(Int2Rat(prev), EnergyValue(p)), Accumulated)
         ELSE Rat(prev, phaseCount),
       Share(p, new, vi))

\* getPhase
Phase == IF phaseCount > 1 THEN MultiPhase ELSE phase

\* process(CommonInverterData): one phase gets a copy of the total.
Copied(new) ==
  IF Phase = MultiPhase THEN energy ELSE [energy EXCEPT ![Phase] = Int2Rat(new)]

\* process(ThreePhasesInverterData) when the total is at its new value; the
\* first time the counters stay as they are.
Redistributed(new, vi) ==
  IF prev = NoPrevious THEN energy
  ELSE [p \in Phases |-> IF p \in Connected THEN PhaseEnergy(p, new, vi)
                         ELSE energy[p]]

\* updateSplitPhase: half of the counter for L1 and L2, but in Wh.
WhPerKWh == 1000
SplitPhase(new) ==
  [p \in Phases |-> IF p = 3 THEN energy[p] ELSE Rat(new * WhPerKWh, 2)]

EnergyInit == /\ sunspec \in BOOLEAN
        /\ phaseCount \in Phases
        /\ phase \in InverterPhase
        /\ counter \in 0..MaxTotal
        /\ total = NoPrevious
        /\ energy = [p \in Phases |-> Invalid]
        /\ saved = [p \in Phases |-> Zero]
        /\ prev = NoPrevious
        /\ asked = FALSE
        /\ lost = FALSE
        /\ polls = 0

\* The inverter produces.
Produce == /\ counter < MaxTotal
           /\ counter' = counter + 1
           /\ UNCHANGED <<sunspec, phaseCount, phase, total, energy, saved, prev, asked,
                          lost, polls>>

\* The Solar API answers with the common data; with more phases than one they
\* are asked for next. The answer may leave the counter out.
ProcessCommonData ==
  /\ ~sunspec /\ ~asked /\ polls < MaxPolls
  /\ polls' = polls + 1
  /\ total' \in {counter, 0}
  /\ lost' = (lost \/ total' # counter)
  /\ energy' = Copied(total')
  /\ asked' = (phaseCount > 1)
  /\ UNCHANGED <<sunspec, phaseCount, phase, counter, saved, prev>>

\* The Solar API answers with the phases.
ProcessThreePhasesData(vi) ==
  /\ asked
  /\ asked' = FALSE
  /\ energy' = Redistributed(total, vi)
  /\ prev' = total
  /\ UNCHANGED <<sunspec, phaseCount, phase, counter, total, saved, lost, polls>>

\* SunspecUpdater::onReadCompleted: both at once, or the split phase.
ProcessFrame(vi) ==
  /\ sunspec /\ polls < MaxPolls
  /\ polls' = polls + 1
  /\ total' = counter
  /\ energy' = CASE phaseCount > 1 -> Redistributed(counter, vi)
                 [] Phase = MultiPhase /\ phaseCount = 1 -> SplitPhase(counter)
                 [] OTHER -> Copied(counter)
  /\ prev' = IF phaseCount > 1 THEN counter ELSE prev
  /\ UNCHANGED <<sunspec, phaseCount, phase, counter, saved, asked, lost>>

\* The answer with the phases is an error: the common data stay.
ThreePhasesFail == /\ asked
                   /\ asked' = FALSE
                   /\ UNCHANGED <<sunspec, phaseCount, phase, counter, total, energy,
                                  saved, prev, lost, polls>>

\* SolarApiUpdater::onSettingsTimer: updateEnergySettings saves L1 to L3,
\* whatever the number of phases, but for counters that are 0.
\* Seeded fault: every phase is saved with the total.
UpdateEnergySettingsTotal ==
  /\ ~sunspec
  /\ saved' = [p \in Phases |-> IF Normal(energy[p]) THEN Int2Rat(total)
                                ELSE saved[p]]
  /\ UNCHANGED <<sunspec, phaseCount, phase, counter, total, energy, prev, asked, lost,
                 polls>>
UpdateEnergySettings ==
  /\ ~sunspec
  /\ saved' = [p \in Phases |-> IF Normal(energy[p]) THEN energy[p]
                                ELSE saved[p]]
  /\ UNCHANGED <<sunspec, phaseCount, phase, counter, total, energy, prev, asked, lost,
                 polls>>

\* onPhaseChanged: the user moves a single-phase inverter to another phase.
\* Seeded fault: the values of the old phase stay on the D-Bus.
OnPhaseChangedKeeps ==
  /\ phase' \in InverterPhase \ {phase}
  /\ UNCHANGED <<sunspec, phaseCount, counter, total, energy, saved, prev, asked, lost,
                 polls>>
OnPhaseChanged ==
  /\ phase' \in InverterPhase \ {phase}
  /\ energy' = IF phaseCount > 1 THEN energy
               ELSE [p \in Phases |-> Invalid]
  /\ UNCHANGED <<sunspec, phaseCount, counter, total, saved, prev, asked, lost, polls>>

\* The inverter is created anew, after a restart or a lost connection or since
\* it was detected with the other protocol: new D-Bus items and a new data
\* processor, the settings stay.
Recreated ==
  /\ sunspec' \in BOOLEAN
  /\ total' = NoPrevious
  /\ energy' = [p \in Phases |-> Invalid]
  /\ prev' = NoPrevious
  /\ asked' = FALSE
  /\ UNCHANGED <<phaseCount, phase, counter, saved, lost, polls>>

EnergyNext == \/ Produce
        \/ ProcessCommonData
        \/ \E vi \in Weights : ProcessThreePhasesData(vi) \/ ProcessFrame(vi)
        \/ ThreePhasesFail
        \/ UpdateEnergySettings
        \/ OnPhaseChanged
        \/ Recreated

EnergySpec == EnergyInit /\ [][EnergyNext]_energyVars

(***************************************************************************)
(* Properties.                                                             *)
(***************************************************************************)
\* No counter is ever negative or the result of a division by zero, whatever
\* the weights and however long the inverter reports nothing.
EnergyTypeOK ==
  /\ sunspec \in BOOLEAN /\ phaseCount \in Phases /\ phase \in InverterPhase
  /\ counter \in 0..MaxTotal
  /\ total \in NoPrevious..MaxTotal /\ prev \in NoPrevious..MaxTotal
  /\ energy \in [Phases -> Rational \cup {Invalid}]
  /\ saved \in [Phases -> Rational]
  /\ asked \in BOOLEAN /\ lost \in BOOLEAN
  /\ polls \in 0..MaxPolls

\* The comment at data_processor.cpp:114: the sum of the phases does not drift
\* from the total.  An answer makes the sum what the total was, plus the
\* increase that could be attributed; what could not be is caught up with at
\* the next answer.
SumFollowsTotal ==
  [][\A vi \in Weights :
       (/\ ProcessThreePhasesData(vi) \/ (phaseCount > 1 /\ ProcessFrame(vi))
        /\ prev # NoPrevious)
       => Sum(energy)' = Int2Rat(prev + Shared(total', vi))]_energyVars

\* The counter of a phase, on the D-Bus or carried over in the settings, never
\* falls while a data processor lives, as long as every answer holds the
\* counter: the rescaling only ever adds.
CountersNeverFall ==
  [][(~lost' /\ phaseCount > 1 /\ prev # NoPrevious /\ prev' # NoPrevious) =>
       \A p \in Connected : AtMost(EnergyValue(p), EnergyValue(p)')]_energyVars

\* The settings never hold more for a phase than the inverter has produced,
\* whatever answers leave the counter out and however often it is created anew.
\* As long as none did, all phases together hold no more than that: a restart
\* at any moment leaves room for every phase below the total.
SavedWithinTotal ==
  /\ \A p \in Phases : AtMost(saved[p], Int2Rat(counter))
  /\ (phaseCount > 1 /\ ~lost) => AtMost(Sum(saved), Int2Rat(counter))

\* The same of all phases together without the exception. It does not hold:
\* after an answer that left the counter out all of it is shared out anew, and
\* for a phase which that leaves with 0 isnormal (data_processor.cpp:143) keeps
\* the older, higher value in the settings.
SavedSumWithinTotal ==
  phaseCount > 1 => AtMost(Sum(saved), Int2Rat(counter))

\* A single-phase inverter shows its energy on one phase only, also after the
\* user moved it.
OnePhaseShown ==
  (phaseCount = 1 /\ phase # MultiPhase) => \A p \in Phases : Valid(energy[p]) => p = phase

\* The comment at data_processor.cpp:20: energies on the D-Bus are in kWh. Both
\* halves of a split phase hold no more than the inverter has produced.
SplitPhaseInKWh ==
  (phaseCount = 1 /\ phase = MultiPhase /\ \A p \in {1, 2} : Valid(energy[p])) =>
    AtMost(Plus(energy[1], energy[2]), Int2Rat(counter))

==============================================================================
