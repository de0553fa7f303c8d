----------------------------- MODULE MCServices -----------------------------
(***************************************************************************)
(* The small instance of Minutes, LeadActions, TenantConfigCache and       *)
(* ReportFlags.  They share no state, so TLC explores them one at a time,  *)
(* and so it does the two jobs of ReportFlags, which write different       *)
(* flags: the product would only add interleavings of steps that cannot    *)
(* see each other.                                                         *)
(***************************************************************************)
EXTENDS MCMinutes, MCLeadActions, TenantConfigCache, ReportFlags

CONSTANTS r1, r2, w1, w2

VARIABLE servicio  \* the one that runs

Init ==
    /\ servicio \in {"paquete", "acciones", "config"} \cup Jobs
    /\ PackageInit /\ LeadInit /\ CacheInit /\ ReportInit
    /\ servicio \notin Jobs => cierre = CHOOSE c \in Cierres : TRUE

\* Bound: either the callback of the outbound call is delivered twice, or the inbound call is
\* reported as well.
Factura ==
    /\ servicio = "paquete"
    /\ PackageNext
    /\ entrega'[<<c1, 2>>] = "no" \/ entrega'[<<in1, 1>>] = "no"
    /\ UNCHANGED <<leadVars, cacheVars, reportVars, fallas>>

Acciona ==
    /\ servicio = "acciones"
    /\ LeadNext
    /\ UNCHANGED <<packageVars, cacheVars, reportVars>>

Configura ==
    /\ servicio = "config"
    /\ CacheNext
    /\ UNCHANGED <<packageVars, leadVars, reportVars>>

Informa ==
    /\ servicio \in Jobs
    /\ Avanza \/ Jornada \/ Trabajo(servicio) \/ Pierde({servicio})
    /\ UNCHANGED <<packageVars, leadVars, cacheVars>>

Next == (Factura \/ Acciona \/ Configura \/ Informa) /\ UNCHANGED servicio

\* Redis expires entries; the jobs of the report and of the recharge come back.
Fairness ==
    /\ CacheFairness
    /\ WF_reportVars(servicio = "finJornada" /\ Trabajo(servicio))
    /\ WF_packageVars(servicio = "paquete" /\ (RecargaLee \/ RecargaInserta))

Spec ==
    /\ Init
    /\ [][Next]_<<packageVars, leadVars, cacheVars, reportVars, fallas, servicio>>
    /\ Fairness

-----------------------------------------------------------------------------
(* Properties *)

\* Where recarga_mensual_job runs, no month that lasts is left without its recharge.
PackageRecharged == servicio = "paquete" => RechargedEveryMonth

\* Where fin_jornada_check_job runs, a jornada that closed after some calls gets its report, or
\* the attempts at it are used up.
ReportSettled == servicio = "finJornada" => ReportedOrGivenUp

=============================================================================
