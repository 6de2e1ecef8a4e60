------------------------------- MODULE MCBooth ------------------------------
(* The parts of the booth that share no state with the delivery of strips, *)
(* each alone: a behaviour is one of the part chosen at its beginning.     *)
EXTENDS EventGallery, ConfigStore, Templates, WifiProfiles, FirstBoot, KioskWatchdog,
        GrowData, AppReleases

VARIABLE part

boothVars == <<galleryVars, configVars, templateVars, wifiVars, bootVars, watchdogVars,
               growVars, releaseVars, part>>

Init ==
  /\ GalleryInit /\ ConfigInit /\ TemplatesInit /\ WifiInit /\ FirstBootInit
  /\ WatchdogInit /\ GrowInit /\ ReleasesInit
  /\ part \in {"gallery", "config", "templates", "wifi", "boot", "watchdog", "grow",
               "releases"}

Next ==
  /\ UNCHANGED part
  /\ \/ part = "gallery" /\ GalleryNext
        /\ UNCHANGED <<configVars, templateVars, wifiVars, bootVars, watchdogVars, growVars,
                       releaseVars>>
     \/ part = "config" /\ ConfigNext
        /\ UNCHANGED <<galleryVars, templateVars, wifiVars, bootVars, watchdogVars, growVars,
                       releaseVars>>
     \/ part = "templates" /\ TemplatesNext
        /\ UNCHANGED <<galleryVars, configVars, wifiVars, bootVars, watchdogVars, growVars,
                       releaseVars>>
     \/ part = "wifi" /\ WifiNext
        /\ UNCHANGED <<galleryVars, configVars, templateVars, bootVars, watchdogVars, growVars,
                       releaseVars>>
     \/ part = "boot" /\ FirstBootNext
        /\ UNCHANGED <<galleryVars, configVars, templateVars, wifiVars, watchdogVars, growVars,
                       releaseVars>>
     \/ part = "watchdog" /\ WatchdogNext
        /\ UNCHANGED <<galleryVars, configVars, templateVars, wifiVars, bootVars, growVars,
                       releaseVars>>
     \/ part = "grow" /\ GrowNext
        /\ UNCHANGED <<galleryVars, configVars, templateVars, wifiVars, bootVars, watchdogVars,
                       releaseVars>>
     \/ part = "releases" /\ ReleasesNext
        /\ UNCHANGED <<galleryVars, configVars, templateVars, wifiVars, bootVars, watchdogVars,
                       growVars>>

(* The fairness of the chosen part. *)
Spec ==
  /\ Init /\ [][Next]_boothVars
  /\ WF_configVars(part = "config" /\ PollStep)
  /\ \A c \in Clerks : WF_configVars(part = "config" /\ ClerkStep(c))
  /\ WF_bootVars(part = "boot" /\ BootStep) /\ WF_bootVars(part = "boot" /\ OnboardStep)
  /\ WF_bootVars(part = "boot" /\ SwitchOff)
  /\ WF_growVars(part = "grow" /\ GrowPowerOn) /\ WF_growVars(part = "grow" /\ GrowStep)
  /\ WF_growVars(part = "grow" /\ GrowReboot)

(* Every part keeps its variables in their domains and its counters within *)
(* their bounds.                                                           *)
TypesOK ==
  /\ GalleryTypeOK /\ ConfigTypeOK /\ TemplatesTypeOK /\ WifiTypeOK /\ FirstBootTypeOK
  /\ WatchdogTypeOK /\ GrowTypeOK /\ ReleasesTypeOK
=============================================================================
