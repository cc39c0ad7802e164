SPECIFICATION Spec
CONSTANTS
  Catalogs = {c1, c2}
  Large = {c2}
  Tasks = {t1, t2}
  None = None
INVARIANTS PinnedCatalogsResolve ActiveCatalogKept IInv
PROPERTIES GivesUpOnlyIfHarmed ServesWhatIsStored StartsServe
