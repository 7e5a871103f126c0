SPECIFICATION FairSpec
CONSTANT MaxMinute = 2
INVARIANTS TypeOK OnePlace
PROPERTIES LifeImplemented NothingStuck
